SPECIFICATION Spec
CONSTANTS
  Fixes = {r1, r2, r3}
  Cards = {r1, r2, r3}
  Files = {t, n}
  Tracked = {t}
  MaxEdits = 1
INVARIANTS MainUntouched ExecutedStays LeavesNothingBehind
SYMMETRY FixSymmetry
CHECK_DEADLOCK FALSE
