SPECIFICATION Spec
CONSTANTS
  Contexts = {c1, c2}
  MaxNalus = 5
SYMMETRY ContextsAlike
INVARIANTS
  TypeOK
  HeaderFirst
  NoGaps
  SuccessIsPublished
  OrderlyIsPublished
CHECK_DEADLOCK FALSE
