SPECIFICATION FairSpec
CONSTANTS
  Buffers <- MCBuffers
  Sounds <- MCSounds
  MaxCalls = 3
INVARIANTS
  TypeOK
  HeaderFirst
  HeaderDescribesFrame
  SentTiles
  WholeIsSent
PROPERTIES
  CallReturns
CHECK_DEADLOCK FALSE
