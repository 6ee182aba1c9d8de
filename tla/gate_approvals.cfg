SPECIFICATION GateSpec
CONSTANTS
  N = 2
  Requests = {r1, r2, r3}
  Faulty = {}
  MaxInFlight = 1
  Calls = {c1, c2}
  GateRequired = {1}
  Skippable = {}
  ProjectStrategies = {"semi_auto"}
  StageStrategies = {"semi_auto"}
INVARIANTS StrandedByCall DoubledByRetry SignedOffUnlessOverruled BypassOnRecord
SYMMETRY CallSymmetry
CHECK_DEADLOCK FALSE
