SPECIFICATION Spec
CONSTANTS
  Cids = {3, 4}
  CacheSize = 16
  Lengths = {3}
  Times = {3, 6}
  Threshold = 5
  TimeMod = 8
  ExtSize = 2
  InitialSize = 2
  MinSize = 2
  ChunkSizes = {2}
  RepeatsExt = FALSE
  Bytes = {0}
  MaxMessages = 2
  MaxAhead = 1
PROPERTIES
  AllReceived
CHECK_DEADLOCK FALSE
