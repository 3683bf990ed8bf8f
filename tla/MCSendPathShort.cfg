SPECIFICATION Spec
CONSTANTS
  audio = audio
  video = video
  reader = reader
  Tasks <- MCTasks
  MayCall <- MCMayCall
  Cids <- MCCids
  Cid <- MCCid
  Lengths <- MCLengths
  ChunkSize = 2
  SendMay = {"short"}
  MaxCalls = 2
INVARIANTS
  SuccessIsWritten
CHECK_DEADLOCK FALSE
