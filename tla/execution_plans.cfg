SPECIFICATION Spec
CONSTANTS
  a = a
  b = b
  c = c
  st1 = st1
  st2 = st2
  Skills = {a, b, c}
  Foreign = {x}
  Stages = {st1, st2}
  Layouts <- MCLayouts
  Requests = {r1, r2}
  Faulty = {r1, "generate"}
INVARIANTS TypeOK SortIsRight GroupsMeanComplete AuxiliaryAfterPrimary ExecutingHasOwner
SYMMETRY RequestSymmetry
CHECK_DEADLOCK FALSE
