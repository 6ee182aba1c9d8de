SPECIFICATION FairSpec
CONSTANTS
  N = 2
  Requests = {r1, r2}
  Faulty = {}
  MaxInFlight = 2
  GateRequired = {1}
  Skippable = {}
  ProjectStrategies = {"full_auto"}
  StageStrategies = {"full_auto", "full_manual"}
PROPERTIES RequestsReturn StageRunEnds
CHECK_DEADLOCK FALSE
