SPECIFICATION Spec
CONSTANTS
  N = 2
  Requests = {r1, r2, r3}
  Faulty = {r1}
  MaxInFlight = 3
  GateRequired = {1}
  Skippable = {}
  ProjectStrategies = {"full_auto", "semi_auto"}
  StageStrategies = {"semi_auto"}
INVARIANTS PendingReviewHasGate OnePendingGate ReviewedWorkRan ExecutesInOrder SignedOff
SYMMETRY RequestSymmetry
CHECK_DEADLOCK FALSE
