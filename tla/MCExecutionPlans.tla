-------------------------- MODULE MCExecutionPlans --------------------------
EXTENDS ExecutionPlans, TLC
CONSTANTS a, b, c, st1, st2

Node(skill, stage, type) == [skill |-> skill, stage |-> stage, type |-> type]

\* Two stages; a stage without a primary skill; one skill bound to two stages.
MCLayouts == {
  <<Node(a, st1, "primary"), Node(b, st1, "auxiliary"), Node(c, st2, "primary")>>,
  <<Node(a, st1, "primary"), Node(b, st2, "auxiliary")>>,
  <<Node(a, st1, "primary"), Node(a, st2, "primary"), Node(b, st2, "auxiliary")>>}

RequestSymmetry == Permutations(Requests \ Faulty)
=============================================================================
