----------------------------- MODULE TaskGraph -----------------------------
(***************************************************************************)
(* What a caller of the DAG scheduler may rely on: every skill runs at     *)
(* most once, and only after each skill it depends on has ended (well or   *)
(* badly); every skill that can run does.                                  *)
(***************************************************************************)
CONSTANT Nodes       \* the skills of a DAG
VARIABLES needs,     \* what each of them depends on
          state      \* of each: waiting, running, ended

vars == <<needs, state>>

Init ==
  /\ needs \in [Nodes -> SUBSET Nodes]
  /\ state = [n \in Nodes |-> "waiting"]

Start(n) ==
  /\ state[n] = "waiting"
  /\ \A d \in needs[n] : state[d] = "ended"
  /\ state' = [state EXCEPT ![n] = "running"]
  /\ needs' = needs

Finish(n) ==
  /\ state[n] = "running"
  /\ state' = [state EXCEPT ![n] = "ended"]
  /\ needs' = needs

Next == \E n \in Nodes : Start(n) \/ Finish(n)

Safe == Init /\ [][Next]_vars
Spec == Safe /\ \A n \in Nodes : WF_vars(Start(n)) /\ WF_vars(Finish(n))
=============================================================================
