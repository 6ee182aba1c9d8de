SPECIFICATION Spec
CONSTANTS
  Fixes = {r1, r2}
  Cards = {}
  Files = {t, n}
  Tracked = {t}
  MaxEdits = 0
INVARIANT MainUntouched
CHECK_DEADLOCK FALSE
