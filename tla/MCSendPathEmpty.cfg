SPECIFICATION Spec
CONSTANTS
  audio = audio
  video = video
  reader = reader
  Tasks <- MCTasks
  MayCall <- MCMayCall
  Cids <- MCCids
  Cid <- MCCid
  Lengths <- EmptyLengths
  ChunkSize = 2
  SendMay = {"error", "short", "zero"}
  MaxCalls = 2
INVARIANTS
  MutexNotLost
CHECK_DEADLOCK FALSE
