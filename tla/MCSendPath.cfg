SPECIFICATION Spec
CONSTANTS
  audio = audio
  video = video
  reader = reader
  Tasks <- MCTasks
  MayCall <- MCMayCall
  Cids <- MCCids
  Cid <- MCCid
  Lengths <- MCLengths
  ChunkSize = 2
  SendMay = {"error", "short", "zero", "cid"}
  MaxCalls = 4
INVARIANTS
  TypeOK
  MutexNotLost
  WireFramed
PROPERTIES
  MutexReleased
  ImplementsWholeWrites
CHECK_DEADLOCK FALSE
