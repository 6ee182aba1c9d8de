SPECIFICATION Spec
CONSTANTS
  Skills = {a, d}
  Release = {d}
  Bound = {a, d}
  NamedById = {a}
  Requests = {r1, r2, r3}
  Batches = {b1}
INVARIANTS NoRetryOfRetry RetriesAfterFailure UnconfirmedFromBatch
PROPERTIES StoppedForGood
SYMMETRY RequestSymmetry
CHECK_DEADLOCK FALSE
