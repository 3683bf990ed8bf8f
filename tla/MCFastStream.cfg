SPECIFICATION Spec
CONSTANTS
  DefaultBuffer = 3
  MaxBuffer = 4
  MaxRequest = 5
  MaxBytes = 9
INVARIANTS
  TypeOK
  UnreadInOrder
  RecvFitsBlock
  SliceCanBePutBack
PROPERTIES
  RefusesOnlyOversize
  ImplementsQueue
CHECK_DEADLOCK FALSE
