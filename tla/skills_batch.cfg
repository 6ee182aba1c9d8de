SPECIFICATION FairSpec
CONSTANTS
  Batches = {b1}
  NumPrimary = 2
  NumAuxiliary = 3
INVARIANTS EngineExclusive AuxiliariesAfterPrimaries NothingLeftBehind
CHECK_DEADLOCK FALSE
PROPERTIES ImplementsStageRun
