SPECIFICATION FairSpec
CONSTANTS
  Nodes = {a, b, c}
  Foreign = {x}
  MaxParallel = 2
INVARIANTS Layered AtMostMaxParallel OnlyCyclesLeftOut
PROPERTIES ImplementsTaskGraph
CHECK_DEADLOCK FALSE
