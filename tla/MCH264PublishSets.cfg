SPECIFICATION Spec
CONSTANTS
  Contexts = {c1, c2}
  MaxNalus = 4
SYMMETRY ContextsAlike
INVARIANTS
  SetsGoBeforeSlices
CHECK_DEADLOCK FALSE
