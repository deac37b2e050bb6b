SPECIFICATION Spec
CONSTANTS
  MaxOps = 1
  MaxLosses = 0
  Cards <- MCPartlyLocked
INVARIANTS ClearsWithinTheArray
CHECK_DEADLOCK FALSE
