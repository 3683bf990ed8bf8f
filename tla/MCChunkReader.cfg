SPECIFICATION Spec
CONSTANTS
  Cids = {2, 3, 4}
  CacheSize = 16
  Lengths = {0, 3}
  Times = {3, 6}
  Threshold = 5
  TimeMod = 8
  ExtSize = 2
  InitialSize = 2
  MinSize = 2
  ChunkSizes = {1, 2, 3}
  RepeatsExt = TRUE
  Bytes = {6}
  MaxMessages = 3
  MaxAhead = 1
INVARIANTS
  TypeOK
  NeverMisread
  InStep
PROPERTIES
  ImplementsStreams
  AllReceived
CHECK_DEADLOCK FALSE
