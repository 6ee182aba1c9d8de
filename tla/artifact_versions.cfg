SPECIFICATION Spec
CONSTANTS
  Requests = {r1, r2, r3}
  MaxExternal = 1
INVARIANTS SavedIsKept OneAtATime
SYMMETRY RequestSymmetry
CHECK_DEADLOCK FALSE
