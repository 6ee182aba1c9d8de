------------------------------ MODULE StageRun ------------------------------
(***************************************************************************)
(* What execute_stage relies on when it runs the skills of a stage: every  *)
(* run ends once, with an outcome that does not change afterwards.         *)
(*   SUCCESS  all skills succeeded                                         *)
(*   PARTIAL  all primary skills succeeded, an auxiliary one did not       *)
(*   FAILED   a primary skill failed                                       *)
(*   RAISED   an exception ended the request                               *)
(***************************************************************************)
CONSTANT Batches     \* the runs: one per start of a stage
VARIABLE outcome     \* of each run, RUNNING until it ends

Outcomes == {"SUCCESS", "PARTIAL", "FAILED", "RAISED"}

Init == outcome = [b \in Batches |-> "RUNNING"]

End(b) ==
  /\ outcome[b] = "RUNNING"
  /\ \E o \in Outcomes : outcome' = [outcome EXCEPT ![b] = o]

Next == \E b \in Batches : End(b)

Safe == Init /\ [][Next]_outcome
Spec == Safe /\ \A b \in Batches : WF_outcome(End(b))
=============================================================================
