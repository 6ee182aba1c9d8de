SPECIFICATION Spec
CONSTANTS
  N = 3
  Requests = {r1, r2, r3, r4}
  Faulty = {}
  MaxInFlight = 1
  GateRequired = {1, 2}
  Skippable = {1}
  ProjectStrategies = {"full_auto", "semi_auto"}
  StageStrategies = {"semi_auto"}
INVARIANTS FreshResults InProgressIsExecuted ResetHasNoFreshArtifact
PROPERTIES GateDecidedOnce LeavesReviewByDecision
SYMMETRY RequestSymmetry
CHECK_DEADLOCK FALSE
