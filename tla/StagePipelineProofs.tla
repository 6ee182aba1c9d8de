------------------------ MODULE StagePipelineProofs ------------------------
(***************************************************************************)
(* Machine-checked proofs about the writers of the stage and gate rows:    *)
(*                                                                         *)
(*   the orchestrator (Spec), for every number of stages, every set of     *)
(*   requests and of failing requests, and every interleaving;             *)
(*   what it keeps in addition for a single operator (MaxInFlight = 1);    *)
(*   the orchestrator beside the /gates routes (GateSpec), whose steps are *)
(*   its own steps or those of a call.                                     *)
(***************************************************************************)
EXTENDS GateApprovals, FiniteSetTheorems, TLAPS

USE NAssumption, ParameterAssumption

-----------------------------------------------------------------------------
(* Type correctness *)

\* What Return leaves of the request's locals is well typed.
LEMMA ReturnTyped ==
  ASSUME TypeOK, NEW r \in Requests, Return(r)
  PROVE  /\ pc' \in [Requests -> PC]
         /\ at' \in [Requests -> Stage]
         /\ cache' \in [Requests -> [Stage -> RuntimeStatus \cup {Absent}]]
         /\ pinned' \in [Requests -> BOOLEAN]
         /\ verdict' \in [Requests -> {"none", "pass", "reject", "ok", "failed"}]
         /\ sawGate' \in [Requests -> Requests]
         /\ sawArtifacts' \in [Requests -> SUBSET (Requests \X Stage)]
         /\ heldCurrent' \in [Requests -> 0 .. N + 1]
<1>1. 1 \in Stage
  BY DEF Stage
<1>2. EmptyMap \in [Stage -> RuntimeStatus \cup {Absent}]
  BY DEF EmptyMap
<1>3. QED
  BY <1>1, <1>2 DEF TypeOK, Return, PC, NotHeld

\* Advancing keeps the types, whatever the caller has made of the row of s.
LEMMA AdvanceTyped ==
  ASSUME TypeOK, NEW r \in Requests, NEW s \in Stage,
         NEW passed \in [Stage -> RuntimeStatus], AdvanceFrom(r, s, passed)
  PROVE  /\ runtime' \in [Stage -> RuntimeStatus]
         /\ pc' \in [Requests -> PC]
         /\ at' \in [Requests -> Stage]
         /\ cache' \in [Requests -> [Stage -> RuntimeStatus \cup {Absent}]]
         /\ pinned' \in [Requests -> BOOLEAN]
         /\ verdict' \in [Requests -> {"none", "pass", "reject", "ok", "failed"}]
         /\ sawGate' \in [Requests -> Requests]
         /\ sawArtifacts' \in [Requests -> SUBSET (Requests \X Stage)]
         /\ heldCurrent' \in [Requests -> 0 .. N + 1]
<1>1. CASE NextStages(s) = {} /\ runtime' = passed /\ Return(r)
  BY <1>1, ReturnTyped
<1>2. CASE \E n \in NextStages(s) :
             /\ IsNext(n, s)
             /\ runtime' = [passed EXCEPT ![n] = Flush(@, Load(r, n), "ready")]
             /\ \/ /\ projectStrategy # "full_auto"
                   /\ Return(r)
                \/ /\ projectStrategy = "full_auto"
                   /\ pc' = [pc EXCEPT ![r] = "starting"]
                   /\ at' = [at EXCEPT ![r] = n]
                   /\ cache' = [cache EXCEPT ![r][n] = "ready"]
                   /\ pinned' = [pinned EXCEPT ![r] = TRUE]
                   /\ heldCurrent' = [heldCurrent EXCEPT ![r] = LoadCurrent(r)]
                   /\ UNCHANGED <<verdict, sawGate, sawArtifacts>>
  <2>1. PICK n \in NextStages(s) :
             /\ runtime' = [passed EXCEPT ![n] = Flush(@, Load(r, n), "ready")]
             /\ \/ /\ projectStrategy # "full_auto"
                   /\ Return(r)
                \/ /\ projectStrategy = "full_auto"
                   /\ pc' = [pc EXCEPT ![r] = "starting"]
                   /\ at' = [at EXCEPT ![r] = n]
                   /\ cache' = [cache EXCEPT ![r][n] = "ready"]
                   /\ pinned' = [pinned EXCEPT ![r] = TRUE]
                   /\ heldCurrent' = [heldCurrent EXCEPT ![r] = LoadCurrent(r)]
                   /\ UNCHANGED <<verdict, sawGate, sawArtifacts>>
    BY <1>2
  <2>2. n \in Stage
    BY DEF NextStages
  <2>3. runtime' \in [Stage -> RuntimeStatus]
    BY <2>1, <2>2 DEF Flush, RuntimeStatus
  <2>4. CASE Return(r)
    BY <2>3, <2>4, ReturnTyped
  <2>5. CASE ~Return(r)
    <3>1. /\ pc' = [pc EXCEPT ![r] = "starting"]
          /\ at' = [at EXCEPT ![r] = n]
          /\ cache' = [cache EXCEPT ![r][n] = "ready"]
          /\ pinned' = [pinned EXCEPT ![r] = TRUE]
          /\ heldCurrent' = [heldCurrent EXCEPT ![r] = LoadCurrent(r)]
          /\ UNCHANGED <<verdict, sawGate, sawArtifacts>>
      BY <2>1, <2>5
    <3>2. "ready" \in RuntimeStatus \cup {Absent} /\ "starting" \in PC
      BY DEF RuntimeStatus, PC
    <3>3. cache' \in [Requests -> [Stage -> RuntimeStatus \cup {Absent}]]
      BY <3>1, <3>2, <2>2 DEF TypeOK
    <3>4. QED
      BY <2>2, <2>3, <3>1, <3>2, <3>3 DEF TypeOK, LoadCurrent, Stage
  <2>6. QED
    BY <2>4, <2>5
<1>3. QED
  BY <1>1, <1>2 DEF AdvanceFrom

LEMMA TypeInit == Init => TypeOK
<1> SUFFICES ASSUME Init PROVE TypeOK
  OBVIOUS
<1>1. 1 \in Stage
  BY DEF Stage
<1>2. projectStrategy \in Strategy /\ strategy \in [Stage -> Strategy]
  BY DEF Init
<1>3. /\ projectActive \in BOOLEAN
      /\ current \in Stage \cup {0}
      /\ runtime \in [Stage -> RuntimeStatus]
      /\ run \in [Requests -> [Stage -> RunStatus]]
      /\ artifacts \in [Requests -> [Stage -> {"none", "fresh", "stale"}]]
      /\ gate \in [Requests -> [Stage -> GateStatus]]
  BY DEF Init, RuntimeStatus, RunStatus, GateStatus
<1>4. /\ pc \in [Requests -> PC]
      /\ at \in [Requests -> Stage]
      /\ cache \in [Requests -> [Stage -> RuntimeStatus \cup {Absent}]]
      /\ pinned \in [Requests -> BOOLEAN]
  BY <1>1 DEF Init, PC, EmptyMap
<1>5. /\ verdict \in [Requests -> {"none", "pass", "reject", "ok", "failed"}]
      /\ sawGate \in [Requests -> Requests]
      /\ sawArtifacts \in [Requests -> SUBSET (Requests \X Stage)]
      /\ heldCurrent \in [Requests -> 0 .. N + 1]
  BY DEF Init, NotHeld
<1>6. QED
  BY <1>2, <1>3, <1>4, <1>5 DEF TypeOK

LEMMA TypeStep == TypeOK /\ [Next]_vars => TypeOK'
<1> SUFFICES ASSUME TypeOK, [Next]_vars
             PROVE  TypeOK'
  OBVIOUS
<1> USE DEF config, rows, locals, Arrive
<1>0. CASE UNCHANGED vars
  BY <1>0 DEF TypeOK, vars
<1>1. ASSUME NEW r \in Requests, NEW s \in Stage, NEW keeps \in BOOLEAN,
             BeginExecute(r, s, keeps)
      PROVE  TypeOK'
  BY <1>1 DEF BeginExecute, TypeOK, PC
<1>2. ASSUME NEW r \in Requests, CommitStart(r) PROVE TypeOK'
  <2>1. at[r] \in Stage /\ at[r] \in 0 .. N + 1
    BY DEF TypeOK, Stage
  <2>2. heldCurrent' \in [Requests -> 0 .. N + 1] /\ current' \in Stage \cup {0}
    BY <1>2, <2>1 DEF CommitStart, TypeOK, Flush
  <2>3. cache' \in [Requests -> [Stage -> RuntimeStatus \cup {Absent}]]
    BY <1>2, <2>1 DEF CommitStart, TypeOK, RuntimeStatus
  <2>4. QED
    BY <1>2, <2>1, <2>2, <2>3 DEF CommitStart, TypeOK, PC, RuntimeStatus, RunStatus
<1>3. ASSUME NEW r \in Requests, NEW outcome \in {"SUCCESS", "PARTIAL", "FAILED"},
             NEW output \in {"none", "fresh"}, FinishSkills(r, outcome, output)
      PROVE  TypeOK'
  BY <1>3 DEF FinishSkills, TypeOK, PC, RunStatus
<1>4. ASSUME NEW r \in Requests, ReloadStage(r) PROVE TypeOK'
  BY <1>4 DEF ReloadStage, TypeOK, PC, Load
<1>5. ASSUME NEW r \in Requests, RefuseComplete(r) PROVE TypeOK'
  BY <1>5, ReturnTyped DEF RefuseComplete, TypeOK
<1>6. ASSUME NEW r \in Requests, FailStage(r) PROVE TypeOK'
  BY <1>6, ReturnTyped DEF FailStage, TypeOK, Flush, RuntimeStatus
<1>7. ASSUME NEW r \in Requests, CompleteForReview(r) PROVE TypeOK'
  BY <1>7, ReturnTyped
     DEF CompleteForReview, CreateGate, TypeOK, RuntimeStatus, GateStatus, Pending
<1>8. ASSUME NEW r \in Requests, CompleteAndAdvance(r) PROVE TypeOK'
  <2>1. [runtime EXCEPT ![at[r]] = "passed"] \in [Stage -> RuntimeStatus]
    BY DEF TypeOK, RuntimeStatus
  <2>2. QED
    BY <1>8, <2>1, AdvanceTyped DEF CompleteAndAdvance, TypeOK
<1>9. ASSUME NEW r \in Requests, NEW s \in Stage, NEW d \in {"pass", "reject"},
             NEW g \in Requests, BeginDecide(r, s, d, g)
      PROVE  TypeOK'
  BY <1>9 DEF BeginDecide, TypeOK, PC
<1>10. ASSUME NEW r \in Requests, CommitPass(r) PROVE TypeOK'
  <2>1. [runtime EXCEPT ![at[r]] = "passed"] \in [Stage -> RuntimeStatus]
    BY DEF TypeOK, RuntimeStatus
  <2>2. gate' \in [Requests -> [Stage -> GateStatus]]
    BY <1>10 DEF CommitPass, TypeOK, GateStatus
  <2>3. QED
    BY <1>10, <2>1, <2>2, AdvanceTyped DEF CommitPass, TypeOK
<1>11. ASSUME NEW r \in Requests, CommitReject(r) PROVE TypeOK'
  BY <1>11, ReturnTyped DEF CommitReject, TypeOK, GateStatus, RuntimeStatus
<1>12. ASSUME NEW r \in Requests, NEW s \in Stage, BeginAdvance(r, s) PROVE TypeOK'
  BY <1>12 DEF BeginAdvance, TypeOK, PC
<1>13. ASSUME NEW r \in Requests, CommitAdvance(r) PROVE TypeOK'
  BY <1>13, AdvanceTyped DEF CommitAdvance, TypeOK
<1>14. ASSUME NEW r \in Requests, NEW s \in Stage, BeginRollback(r, s) PROVE TypeOK'
  BY <1>14 DEF BeginRollback, TypeOK, PC
<1>15. ASSUME NEW r \in Requests, CommitRollback(r) PROVE TypeOK'
  <2>1. runtime' \in [Stage -> RuntimeStatus]
    BY <1>15 DEF CommitRollback, TypeOK, Flush, RuntimeStatus
  <2>2. artifacts' \in [Requests -> [Stage -> {"none", "fresh", "stale"}]]
    BY <1>15 DEF CommitRollback, TypeOK
  <2>3. QED
    BY <1>15, <2>1, <2>2, ReturnTyped DEF CommitRollback, TypeOK
<1>16. ASSUME NEW r \in Requests, NEW s \in Stage, BeginRegenerate(r, s) PROVE TypeOK'
  BY <1>16 DEF BeginRegenerate, TypeOK, PC
<1>17. ASSUME NEW r \in Requests, CommitRegenerate(r) PROVE TypeOK'
  BY <1>17, ReturnTyped DEF CommitRegenerate, TypeOK, Flush, RuntimeStatus
<1>18. ASSUME NEW r \in Requests, BeginStartProject(r) PROVE TypeOK'
  <2>1. 1 \in Stage
    BY DEF Stage
  <2>2. current \in 0 .. N + 1
    BY DEF TypeOK, Stage
  <2>3. QED
    BY <1>18, <2>1, <2>2 DEF BeginStartProject, TypeOK, PC
<1>19. ASSUME NEW r \in Requests, CommitStartProject(r) PROVE TypeOK'
  <2>1. 1 \in Stage
    BY DEF Stage
  <2>2. QED
    BY <1>19, <2>1, ReturnTyped DEF CommitStartProject, TypeOK, Flush, RuntimeStatus
<1>20. ASSUME NEW r \in Requests, BeginActivate(r) PROVE TypeOK'
  <2>1. 1 \in Stage
    BY DEF Stage
  <2>2. current \in 0 .. N + 1
    BY DEF TypeOK, Stage
  <2>3. QED
    BY <1>20, <2>1, <2>2 DEF BeginActivate, TypeOK, PC
<1>21. ASSUME NEW r \in Requests, CommitActivate(r) PROVE TypeOK'
  <2>1. CASE Return(r) /\ UNCHANGED <<runtime, current>>
    BY <1>21, <2>1, ReturnTyped DEF CommitActivate, TypeOK
  <2>2. ASSUME NEW s \in Stage, Return(r), current' = Flush(current, heldCurrent[r], s),
               runtime' = [runtime EXCEPT ![s] = "ready"]
        PROVE  TypeOK'
    BY <1>21, <2>2, ReturnTyped DEF CommitActivate, TypeOK, RuntimeStatus, Flush
  <2>3. ASSUME NEW s \in Stage, current' = Flush(current, heldCurrent[r], s),
               runtime' = [runtime EXCEPT ![s] = "ready"],
               pc' = [pc EXCEPT ![r] = "starting"],
               at' = [at EXCEPT ![r] = s],
               cache' = [cache EXCEPT ![r] = [runtime EXCEPT ![s] = "ready"]],
               pinned' = [pinned EXCEPT ![r] = TRUE],
               heldCurrent' = [heldCurrent EXCEPT ![r] = s],
               UNCHANGED <<verdict, sawGate, sawArtifacts>>
        PROVE  TypeOK'
    <3>1. s \in 0 .. N + 1
      BY DEF Stage
    <3>2. [runtime EXCEPT ![s] = "ready"] \in [Stage -> RuntimeStatus]
      BY DEF TypeOK, RuntimeStatus
    <3>3. QED
      BY <1>21, <2>3, <3>1, <3>2 DEF CommitActivate, TypeOK, PC, Flush
  <2>4. QED
    BY <1>21, <2>1, <2>2, <2>3 DEF CommitActivate
<1>22. ASSUME NEW r \in Requests, Abort(r) PROVE TypeOK'
  BY <1>22, ReturnTyped DEF Abort, TypeOK
<1>23. QED
  BY <1>0, <1>1, <1>2, <1>3, <1>4, <1>5, <1>6, <1>7, <1>8, <1>9, <1>10, <1>11,
     <1>12, <1>13, <1>14, <1>15, <1>16, <1>17, <1>18, <1>19, <1>20, <1>21, <1>22
  DEF Next, Begin, Continue

\* Every row keeps a status of its table and every handler's locals stay well
\* typed, whichever requests interleave, fail or advance automatically.
THEOREM TypeCorrect == Spec => []TypeOK
<1> QED BY TypeInit, TypeStep, PTL DEF Spec

-----------------------------------------------------------------------------
(* What a step may do to the statuses and the gates *)

Unreviewed == {"not_started", "ready", "in_progress", "blocked"}

\* A step that decides nothing: it creates and decides no gate, and the stages
\* it touches leave review and "passed".
Quiet ==
  /\ gate' = gate
  /\ \A s \in Stage : runtime'[s] = runtime[s] \/ runtime'[s] \in Unreviewed

\* Besides the row its caller passes, advancing only makes a stage ready.
LEMMA AdvanceOnlyReadies ==
  ASSUME TypeOK, NEW r \in Requests, NEW s \in Stage,
         NEW passed \in [Stage -> RuntimeStatus], AdvanceFrom(r, s, passed)
  PROVE  \A x \in Stage : runtime'[x] = passed[x] \/ runtime'[x] = "ready"
<1>1. CASE runtime' = passed
  BY <1>1
<1>2. CASE \E n \in NextStages(s) :
             runtime' = [passed EXCEPT ![n] = Flush(@, Load(r, n), "ready")]
  BY <1>2 DEF Flush, NextStages
<1>3. QED
  BY <1>1, <1>2 DEF AdvanceFrom

\* Every step is quiet, or completes a stage, or decides a gate.
LEMMA StepKinds ==
  ASSUME TypeOK, [Next]_vars
  PROVE  \/ Quiet
         \/ \E r \in Requests : \/ CompleteForReview(r)
                               \/ CompleteAndAdvance(r)
                               \/ CommitPass(r)
                               \/ CommitReject(r)
<1> USE DEF config, rows, locals, Quiet, Unreviewed
<1>1. CASE UNCHANGED <<runtime, gate>>
  BY <1>1
<1>2. ASSUME NEW r \in Requests, CommitStart(r) PROVE Quiet
  BY <1>2 DEF CommitStart, TypeOK
<1>3. ASSUME NEW r \in Requests, FailStage(r) PROVE Quiet
  BY <1>3 DEF FailStage, TypeOK, Flush
<1>4. ASSUME NEW r \in Requests, CommitAdvance(r) PROVE Quiet
  <2>1. at[r] \in Stage /\ runtime \in [Stage -> RuntimeStatus]
    BY DEF TypeOK
  <2>2. QED
    BY <1>4, <2>1, AdvanceOnlyReadies DEF CommitAdvance
<1>5. ASSUME NEW r \in Requests, CommitRollback(r) PROVE Quiet
  BY <1>5 DEF CommitRollback, TypeOK, Flush
<1>6. ASSUME NEW r \in Requests, CommitRegenerate(r) PROVE Quiet
  BY <1>6 DEF CommitRegenerate, TypeOK, Flush
<1>7. ASSUME NEW r \in Requests, CommitStartProject(r) PROVE Quiet
  <2>1. 1 \in Stage
    BY DEF Stage
  <2>2. QED
    BY <1>7, <2>1 DEF CommitStartProject, TypeOK, Flush
<1>8. ASSUME NEW r \in Requests, CommitActivate(r) PROVE Quiet
  <2>1. gate' = gate
    BY <1>8 DEF CommitActivate
  <2>2. runtime' = runtime \/ \E s \in Stage : runtime' = [runtime EXCEPT ![s] = "ready"]
    BY <1>8 DEF CommitActivate
  <2>3. QED
    BY <2>1, <2>2 DEF TypeOK
<1>9. CASE UNCHANGED vars
  BY <1>1, <1>9 DEF vars
<1>10. ASSUME NEW r \in Requests, Begin(r) PROVE UNCHANGED <<runtime, gate>>
  BY <1>10 DEF Begin, BeginStartProject, BeginActivate, BeginExecute, BeginDecide,
     BeginAdvance, BeginRollback, BeginRegenerate
<1>11. ASSUME NEW r \in Requests,
              Abort(r) \/ ReloadStage(r) \/ RefuseComplete(r) \/
                (\E o \in {"SUCCESS", "PARTIAL", "FAILED"}, a \in {"none", "fresh"} :
                   FinishSkills(r, o, a))
       PROVE  UNCHANGED <<runtime, gate>>
  BY <1>11 DEF Abort, ReloadStage, RefuseComplete, FinishSkills
<1>12. ASSUME NEW r \in Requests, Continue(r)
       PROVE  \/ Quiet
              \/ CompleteForReview(r) \/ CompleteAndAdvance(r) \/ CommitPass(r) \/ CommitReject(r)
  <2>1. UNCHANGED <<runtime, gate>> => Quiet
    BY <1>1
  <2> HIDE DEF Quiet
  <2>2. QED
    BY <1>2, <1>3, <1>4, <1>5, <1>6, <1>7, <1>8, <1>11, <1>12, <2>1 DEF Continue
<1>13. CASE Next
  <2> HIDE DEF Quiet
  <2>1. PICK r \in Requests : Begin(r) \/ Continue(r) \/ Abort(r)
    BY <1>13 DEF Next
  <2>2. QED
    BY <1>1, <1>10, <1>11, <1>12, <2>1
<1>14. QED
  BY <1>9, <1>13

\* The orchestrator changes no execution strategy.
LEMMA StrategiesFixed ==
  ASSUME [Next]_vars
  PROVE  strategy' = strategy
<1> USE DEF config
<1>1. ASSUME NEW r \in Requests, Begin(r) PROVE strategy' = strategy
  BY <1>1 DEF Begin, BeginStartProject, BeginActivate, BeginExecute, BeginDecide,
     BeginAdvance, BeginRollback, BeginRegenerate
<1>2. ASSUME NEW r \in Requests, Continue(r) PROVE strategy' = strategy
  BY <1>2 DEF Continue, CommitStart, FinishSkills, ReloadStage, RefuseComplete, FailStage,
     CompleteForReview, CompleteAndAdvance, CommitPass, CommitReject, CommitAdvance,
     CommitRollback, CommitRegenerate, CommitStartProject, CommitActivate
<1>3. ASSUME NEW r \in Requests, Abort(r) PROVE strategy' = strategy
  BY <1>3 DEF Abort
<1>4. CASE UNCHANGED vars
  BY <1>4 DEF vars
<1>5. QED
  BY <1>1, <1>2, <1>3, <1>4 DEF Next

\* A completed stage, or one whose gate is passed, becomes "passed" (or is
\* readied again by nobody but the advance itself); no other stage enters review.
LEMMA PassingStep ==
  ASSUME TypeOK, NEW r \in Requests,
         AdvanceFrom(r, at[r], [runtime EXCEPT ![at[r]] = "passed"])
  PROVE  /\ runtime'[at[r]] \in {"passed", "ready"}
         /\ \A x \in Stage \ {at[r]} : runtime'[x] = runtime[x] \/ runtime'[x] = "ready"
<1> DEFINE passed == [runtime EXCEPT ![at[r]] = "passed"]
<1>1. at[r] \in Stage /\ passed \in [Stage -> RuntimeStatus]
  BY DEF TypeOK, RuntimeStatus
<1>2. AdvanceFrom(r, at[r], passed)
  OBVIOUS
<1>3. \A x \in Stage : passed[x] = IF x = at[r] THEN "passed" ELSE runtime[x]
  BY <1>1 DEF TypeOK
<1> HIDE DEF passed
<1>4. \A x \in Stage : runtime'[x] = passed[x] \/ runtime'[x] = "ready"
  BY <1>1, <1>2, AdvanceOnlyReadies
<1>5. QED
  BY <1>1, <1>3, <1>4

-----------------------------------------------------------------------------
(* Gates *)

\* A stage that was reviewable stays so, or leaves review.
LEMMA ReviewStep ==
  ASSUME TypeOK, [Next]_vars, NEW s \in Stage,
         runtime[s] \in Pending => \E q \in Requests : gate[q][s] = "pending",
         runtime'[s] \in Pending
  PROVE  \E q \in Requests : gate'[q][s] = "pending"
<1>1. runtime[s] \in Pending => \E q \in Requests : gate[q][s] = "pending"
  OBVIOUS
<1>2. CASE Quiet
  BY <1>1, <1>2 DEF Quiet, Unreviewed, Pending
<1>3. ASSUME NEW r \in Requests, CompleteForReview(r)
      PROVE  \E q \in Requests : gate'[q][s] = "pending"
  <2>1. CASE s = at[r]
    BY <1>3, <2>1 DEF CompleteForReview, CreateGate, PendingGates, TypeOK
  <2>2. CASE s # at[r]
    <3>1. runtime[s] \in Pending
      BY <1>3, <2>2 DEF CompleteForReview, TypeOK
    <3>2. PICK q \in Requests : gate[q][s] = "pending"
      BY <1>1, <3>1
    <3>3. gate'[q][s] = "pending"
      BY <1>3, <2>2, <3>2 DEF CompleteForReview, CreateGate, TypeOK
    <3>4. QED
      BY <3>3
  <2>3. QED
    BY <2>1, <2>2
<1>4. ASSUME NEW r \in Requests, CompleteAndAdvance(r)
      PROVE  \E q \in Requests : gate'[q][s] = "pending"
  <2>1. runtime[s] \in Pending
    BY <1>4, PassingStep DEF CompleteAndAdvance, Pending
  <2>2. QED
    BY <1>1, <1>4, <2>1 DEF CompleteAndAdvance
<1>5. ASSUME NEW r \in Requests, CommitPass(r)
      PROVE  \E q \in Requests : gate'[q][s] = "pending"
  <2>1. s # at[r] /\ runtime[s] \in Pending
    BY <1>5, PassingStep DEF CommitPass, Pending
  <2>2. PICK q \in Requests : gate[q][s] = "pending"
    BY <1>1, <2>1
  <2>3. gate'[q][s] = "pending"
    BY <1>5, <2>1, <2>2 DEF CommitPass, TypeOK
  <2>4. QED
    BY <2>3
<1>6. ASSUME NEW r \in Requests, CommitReject(r)
      PROVE  \E q \in Requests : gate'[q][s] = "pending"
  <2>1. s # at[r] /\ runtime[s] \in Pending
    BY <1>6 DEF CommitReject, TypeOK, Pending
  <2>2. PICK q \in Requests : gate[q][s] = "pending"
    BY <1>1, <2>1
  <2>3. gate'[q][s] = "pending"
    BY <1>6, <2>1, <2>2 DEF CommitReject, TypeOK
  <2>4. QED
    BY <2>3
<1>7. QED
  BY <1>2, <1>3, <1>4, <1>5, <1>6, StepKinds

\* Whatever requests interleave or fail, a stage under review has a pending
\* gate, so decide_gate and advance_stage always find one to decide.
THEOREM GatesAvailable == Spec => []PendingReviewHasGate
<1>1. Init => PendingReviewHasGate
  BY DEF Init, PendingReviewHasGate, Pending
<1>2. TypeOK /\ PendingReviewHasGate /\ [Next]_vars => PendingReviewHasGate'
  BY ReviewStep DEF PendingReviewHasGate, PendingGates
<1>3. QED
  BY <1>1, <1>2, TypeCorrect, PTL DEF Spec

\* Two pending gates of a stage were there before.
LEMMA UniqueStep ==
  ASSUME TypeOK, [Next]_vars, NEW s \in Stage,
         NEW p \in Requests, NEW q \in Requests,
         \A x, y \in Requests : gate[x][s] = "pending" /\ gate[y][s] = "pending" => x = y,
         gate'[p][s] = "pending", gate'[q][s] = "pending"
  PROVE  p = q
<1>1. gate[p][s] = "pending" /\ gate[q][s] = "pending" => p = q
  OBVIOUS
<1>2. CASE gate' = gate
  BY <1>1, <1>2
<1>3. ASSUME NEW r \in Requests, CompleteForReview(r) PROVE p = q
  <2>1. CASE PendingGates(at[r]) = {}
    BY <1>1, <1>3, <2>1 DEF CompleteForReview, CreateGate, PendingGates, TypeOK
  <2>2. CASE PendingGates(at[r]) # {}
    BY <1>2, <1>3, <2>2 DEF CompleteForReview, CreateGate
  <2>3. QED
    BY <2>1, <2>2
<1>4. ASSUME NEW r \in Requests, CommitPass(r) PROVE p = q
  BY <1>1, <1>4 DEF CommitPass, TypeOK
<1>5. ASSUME NEW r \in Requests, CommitReject(r) PROVE p = q
  BY <1>1, <1>5 DEF CommitReject, TypeOK
<1>6. QED
  BY <1>2, <1>3, <1>4, <1>5, StepKinds DEF Quiet, CompleteAndAdvance

\* create_gate never makes a second pending gate for a stage, although it is
\* called by requests that run the same stage at the same time.
THEOREM GatesUnique == Spec => []OnePendingGate
<1>1. Init => OnePendingGate
  BY DEF Init, OnePendingGate, PendingGates
<1>2. TypeOK /\ OnePendingGate /\ [Next]_vars => OnePendingGate'
  BY UniqueStep DEF OnePendingGate, PendingGates
<1>3. QED
  BY <1>1, <1>2, TypeCorrect, PTL DEF Spec

\* A stage that needs a decision is passed with one.
LEMMA SignOffStep ==
  ASSUME TypeOK, [Next]_vars, NEW s \in Stage, NeedsDecision(s),
         runtime[s] = "passed" => \E q \in Requests : gate[q][s] = "passed",
         runtime'[s] = "passed"
  PROVE  \E q \in Requests : gate'[q][s] = "passed"
<1>1. NeedsDecision(s)
  OBVIOUS
<1>2. runtime[s] = "passed" => \E q \in Requests : gate[q][s] = "passed"
  OBVIOUS
<1>3. CASE Quiet
  BY <1>2, <1>3 DEF Quiet, Unreviewed
<1>4. ASSUME NEW r \in Requests, CompleteForReview(r)
      PROVE  \E q \in Requests : gate'[q][s] = "passed"
  <2>1. s # at[r] /\ runtime[s] = "passed"
    BY <1>4 DEF CompleteForReview, TypeOK, Pending
  <2>2. PICK q \in Requests : gate[q][s] = "passed"
    BY <1>2, <2>1
  <2>3. gate'[q][s] = "passed"
    BY <1>4, <2>1, <2>2 DEF CompleteForReview, CreateGate, TypeOK
  <2>4. QED
    BY <2>3
<1>5. ASSUME NEW r \in Requests, CompleteAndAdvance(r)
      PROVE  \E q \in Requests : gate'[q][s] = "passed"
  <2>1. CompletedAs(at[r]) # "passed" \/ s # at[r]
    BY <1>1 DEF CompletedAs, NeedsDecision
  <2>2. runtime[s] = "passed"
    BY <1>5, <2>1, PassingStep DEF CompleteAndAdvance
  <2>3. QED
    BY <1>2, <1>5, <2>2 DEF CompleteAndAdvance
<1>6. ASSUME NEW r \in Requests, CommitPass(r)
      PROVE  \E q \in Requests : gate'[q][s] = "passed"
  <2>1. CASE s = at[r]
    BY <1>6, <2>1 DEF CommitPass, TypeOK
  <2>2. CASE s # at[r]
    <3>1. runtime[s] = "passed"
      BY <1>6, <2>2, PassingStep DEF CommitPass
    <3>2. PICK q \in Requests : gate[q][s] = "passed"
      BY <1>2, <3>1
    <3>3. gate'[q][s] = "passed"
      BY <1>6, <2>2, <3>2 DEF CommitPass, TypeOK
    <3>4. QED
      BY <3>3
  <2>3. QED
    BY <2>1, <2>2
<1>7. ASSUME NEW r \in Requests, CommitReject(r)
      PROVE  \E q \in Requests : gate'[q][s] = "passed"
  <2>1. s # at[r] /\ runtime[s] = "passed"
    BY <1>7 DEF CommitReject, TypeOK
  <2>2. PICK q \in Requests : gate[q][s] = "passed"
    BY <1>2, <2>1
  <2>3. gate'[q][s] = "passed"
    BY <1>7, <2>1, <2>2 DEF CommitReject, TypeOK
  <2>4. QED
    BY <2>3
<1>8. QED
  BY <1>3, <1>4, <1>5, <1>6, <1>7, StepKinds

\* Two decisions that race may both be committed, yet a stage that needs a
\* human decision is passed only while a gate of it is recorded as passed.
THEOREM DecisionsRecorded == Spec => []SignedOff
<1>1. Init => SignedOff
  BY DEF Init, SignedOff
<1>2. TypeOK /\ SignedOff /\ [Next]_vars => SignedOff'
  <2> SUFFICES ASSUME TypeOK, SignedOff, [Next]_vars,
                      NEW s \in Stage, runtime'[s] = "passed", NeedsDecision(s)'
               PROVE  \E q \in Requests : gate'[q][s] = "passed"
    BY DEF SignedOff
  <2>1. NeedsDecision(s)
    BY StrategiesFixed DEF NeedsDecision
  <2> QED BY <2>1, SignOffStep DEF SignedOff
<1>3. QED
  BY <1>1, <1>2, TypeCorrect, PTL DEF Spec

-----------------------------------------------------------------------------
(* The work behind a review *)

\* A step of one request leaves the executions and the place of the others.
LEMMA OthersUntouched ==
  ASSUME TypeOK, NEW r \in Requests, Begin(r) \/ Continue(r) \/ Abort(r),
         NEW q \in Requests \ {r}
  PROVE  /\ run'[q] = run[q]
         /\ pc'[q] = pc[q]
         /\ at'[q] = at[q]
         /\ verdict'[q] = verdict[q]
<1> USE DEF config, rows, locals, Arrive, Return
<1>1. CASE Begin(r)
  BY <1>1 DEF Begin, BeginStartProject, BeginActivate, BeginExecute, BeginDecide,
     BeginAdvance, BeginRollback, BeginRegenerate, TypeOK
<1>2. ASSUME NEW s \in Stage, NEW passed, AdvanceFrom(r, s, passed)
      PROVE  pc'[q] = pc[q] /\ at'[q] = at[q] /\ verdict'[q] = verdict[q]
  BY <1>2 DEF AdvanceFrom, TypeOK
<1>3. CASE CompleteAndAdvance(r) \/ CommitPass(r) \/ CommitAdvance(r)
  <2>1. at[r] \in Stage
    BY DEF TypeOK
  <2>2. QED
    BY <1>2, <1>3, <2>1 DEF CompleteAndAdvance, CommitPass, CommitAdvance
<1>4. CASE CommitActivate(r)
  BY <1>4 DEF CommitActivate, TypeOK
<1>5. CASE CommitStart(r) \/ ReloadStage(r) \/
           \E o \in {"SUCCESS", "PARTIAL", "FAILED"}, a \in {"none", "fresh"} :
             FinishSkills(r, o, a)
  BY <1>5 DEF CommitStart, ReloadStage, FinishSkills, TypeOK
<1>6. CASE RefuseComplete(r) \/ FailStage(r) \/ CompleteForReview(r) \/ CommitReject(r) \/
           CommitRollback(r) \/ CommitRegenerate(r) \/ CommitStartProject(r) \/ Abort(r)
  BY <1>6 DEF RefuseComplete, FailStage, CompleteForReview, CommitReject,
     CommitRollback, CommitRegenerate, CommitStartProject, Abort, TypeOK
<1>7. QED
  BY <1>1, <1>3, <1>4, <1>5, <1>6 DEF Continue

\* Advancing ends the request or takes it to a later stage.
LEMMA AdvanceGoesForward ==
  ASSUME TypeOK, NEW r \in Requests, NEW s \in Stage, NEW passed,
         AdvanceFrom(r, s, passed)
  PROVE  pc'[r] = "done" \/ (pc'[r] = "starting" /\ at'[r] \in Stage /\ at'[r] > s)
<1>1. CASE Return(r)
  BY <1>1 DEF Return, TypeOK
<1>2. CASE \E n \in NextStages(s) :
             pc' = [pc EXCEPT ![r] = "starting"] /\ at' = [at EXCEPT ![r] = n]
  BY <1>2 DEF NextStages, TypeOK
<1>3. QED
  BY <1>1, <1>2 DEF AdvanceFrom

\* A request executes later and later stages.
LEMMA OrderStep == TypeOK /\ ExecutesInOrder /\ [Next]_vars => ExecutesInOrder'
<1> SUFFICES ASSUME TypeOK, ExecutesInOrder, NEW r \in Requests,
                    Begin(r) \/ Continue(r) \/ Abort(r)
             PROVE  InOrder(r)'
  <2>1. CASE UNCHANGED vars
    BY <2>1 DEF vars, rows, locals, ExecutesInOrder, InOrder
  <2>2. ASSUME NEW q \in Requests, Begin(q) \/ Continue(q) \/ Abort(q), TypeOK,
               ExecutesInOrder, InOrder(q)', NEW p \in Requests \ {q}
        PROVE  InOrder(p)'
    BY <2>2, OthersUntouched DEF ExecutesInOrder, InOrder
  <2>3. QED
    BY <2>1, <2>2 DEF Next, ExecutesInOrder
<1> USE DEF config, rows, locals
<1>0. InOrder(r) /\ at[r] \in Stage
  BY DEF ExecutesInOrder, TypeOK
<1>1. ASSUME Return(r) PROVE InOrder(r)'
  BY <1>1 DEF Return, InOrder, TypeOK
<1>2. CASE Begin(r)
  <2>1. \A s \in Stage : run'[r][s] = "none"
    BY <1>0, <1>2 DEF Begin, BeginStartProject, BeginActivate, BeginExecute, BeginDecide,
       BeginAdvance, BeginRollback, BeginRegenerate, Arrive, InOrder
  <2>2. pc'[r] \in {"starting", "starting_project", "activating", "deciding", "advancing",
                    "rolling_back", "regenerating"}
    BY <1>2 DEF Begin, BeginStartProject, BeginActivate, BeginExecute, BeginDecide,
       BeginAdvance, BeginRollback, BeginRegenerate, Arrive, TypeOK
  <2>3. QED
    BY <2>1, <2>2 DEF InOrder
<1>3. CASE CommitStart(r)
  <2>1. /\ pc'[r] = "running"
        /\ at'[r] = at[r]
        /\ \A s \in Stage : run'[r][s] = IF s = at[r] THEN "RUNNING" ELSE run[r][s]
    BY <1>0, <1>3 DEF CommitStart, TypeOK
  <2>2. \A s \in Stage : s >= at[r] => run[r][s] = "none"
    BY <1>0, <1>3 DEF CommitStart, InOrder
  <2>3. \A s \in Stage : s > at[r] => s >= at[r] /\ s # at[r]
    BY <1>0 DEF Stage
  <2>4. QED
    BY <1>0, <2>1, <2>2, <2>3 DEF InOrder
<1>4. ASSUME NEW o \in {"SUCCESS", "PARTIAL", "FAILED"}, NEW a \in {"none", "fresh"},
             FinishSkills(r, o, a)
      PROVE  InOrder(r)'
  <2>1. /\ pc'[r] = "ran"
        /\ at'[r] = at[r]
        /\ verdict'[r] = "ok" => o \in Succeeded
        /\ \A s \in Stage : run'[r][s] = IF s = at[r] THEN o ELSE run[r][s]
    BY <1>0, <1>4 DEF FinishSkills, TypeOK
  <2>2. \A s \in Stage : s > at[r] => run[r][s] = "none"
    BY <1>0, <1>4 DEF FinishSkills, InOrder
  <2>3. \A s \in Stage : s > at[r] => s # at[r]
    BY <1>0 DEF Stage
  <2>4. QED
    BY <1>0, <2>1, <2>2, <2>3 DEF InOrder
<1>5. CASE ReloadStage(r)
  BY <1>0, <1>5 DEF ReloadStage, InOrder, TypeOK
<1>6. ASSUME NEW passed, AdvanceFrom(r, at[r], passed), run' = run,
             \A s \in Stage : s > at[r] => run[r][s] = "none"
      PROVE  InOrder(r)'
  <2>1. CASE pc'[r] = "done"
    BY <2>1 DEF InOrder
  <2>2. CASE pc'[r] = "starting" /\ at'[r] \in Stage /\ at'[r] > at[r]
    <3>1. \A s \in Stage : s >= at'[r] => run[r][s] = "none"
      BY <1>0, <1>6, <2>2 DEF Stage
    <3>2. QED
      BY <1>6, <2>2, <3>1 DEF InOrder
  <2>3. QED
    BY <1>0, <1>6, <2>1, <2>2, AdvanceGoesForward
<1>7. CASE CompleteAndAdvance(r) \/ CommitPass(r) \/ CommitAdvance(r)
  BY <1>0, <1>6, <1>7 DEF CompleteAndAdvance, CommitPass, CommitAdvance, InOrder
<1>8. CASE CommitActivate(r)
  <2>1. CASE ~Return(r)
    <3>1. pc'[r] = "starting" /\ run' = run
      BY <1>8, <2>1 DEF CommitActivate, TypeOK
    <3>2. \A s \in Stage : run[r][s] = "none"
      BY <1>0, <1>8 DEF CommitActivate, InOrder
    <3>3. QED
      BY <3>1, <3>2 DEF InOrder
  <2>2. QED
    BY <1>1, <2>1
<1>9. CASE RefuseComplete(r) \/ FailStage(r) \/ CompleteForReview(r) \/ CommitReject(r) \/
           CommitRollback(r) \/ CommitRegenerate(r) \/ CommitStartProject(r) \/ Abort(r)
  BY <1>1, <1>9 DEF RefuseComplete, FailStage, CompleteForReview, CommitReject,
     CommitRollback, CommitRegenerate, CommitStartProject, Abort
<1>10. QED
  BY <1>2, <1>3, <1>4, <1>5, <1>7, <1>8, <1>9 DEF Continue

\* No request executes a stage twice or goes back to an earlier one, so a chain
\* of automatic starts has at most N links.
THEOREM ExecutionOrder == Spec => []ExecutesInOrder
<1>1. Init => ExecutesInOrder
  BY DEF Init, ExecutesInOrder, InOrder, Stage
<1>2. QED
  BY <1>1, OrderStep, TypeCorrect, PTL DEF Spec

\* A request decides a stage it has seen under review; the stage may have been
\* reset since, but the work it was reviewed for is still on record.
DecidedWorkRan == \A r \in Requests : pc[r] = "deciding" => WorkRan(at[r])

WorkInv == ReviewedWorkRan /\ DecidedWorkRan

\* No step takes back that a stage's skills have once succeeded: a request
\* records its own executions only, each from "none" over "RUNNING" to its end.
LEMMA WorkStaysRun ==
  ASSUME TypeOK, ExecutesInOrder, [Next]_vars, NEW s \in Stage, WorkRan(s)
  PROVE  WorkRan(s)'
<1> USE DEF config, rows, locals
<1>1. PICK q \in Requests : run[q][s] \in Succeeded
  BY DEF WorkRan
<1>2. CASE run' = run
  BY <1>1, <1>2 DEF WorkRan
<1>3. ASSUME NEW r \in Requests, CommitStart(r) PROVE WorkRan(s)'
  <2>1. run[r][at[r]] = "none"
    BY <1>3 DEF CommitStart, ExecutesInOrder, InOrder, TypeOK, Stage
  <2>2. run'[q][s] = run[q][s]
    BY <1>1, <1>3, <2>1 DEF CommitStart, TypeOK, Succeeded
  <2>3. QED
    BY <1>1, <2>2 DEF WorkRan
<1>4. ASSUME NEW r \in Requests, NEW o \in {"SUCCESS", "PARTIAL", "FAILED"},
             NEW a \in {"none", "fresh"}, FinishSkills(r, o, a)
      PROVE  WorkRan(s)'
  <2>1. run[r][at[r]] = "RUNNING"
    BY <1>4 DEF FinishSkills, ExecutesInOrder, InOrder
  <2>2. run'[q][s] = run[q][s]
    BY <1>1, <1>4, <2>1 DEF FinishSkills, TypeOK, Succeeded
  <2>3. QED
    BY <1>1, <2>2 DEF WorkRan
<1>5. ASSUME NEW r \in Requests, Begin(r) PROVE run' = run
  BY <1>5 DEF Begin, BeginStartProject, BeginActivate, BeginExecute, BeginDecide,
     BeginAdvance, BeginRollback, BeginRegenerate
<1>6. ASSUME NEW r \in Requests, Continue(r) PROVE WorkRan(s)'
  <2>1. \/ run' = run
        \/ CommitStart(r)
        \/ \E o \in {"SUCCESS", "PARTIAL", "FAILED"}, a \in {"none", "fresh"} :
             FinishSkills(r, o, a)
    BY <1>6 DEF Continue, ReloadStage, RefuseComplete, FailStage, CompleteForReview,
       CompleteAndAdvance, CommitPass, CommitReject, CommitAdvance, CommitRollback,
       CommitRegenerate, CommitStartProject, CommitActivate
  <2>2. QED
    BY <1>2, <1>3, <1>4, <2>1
<1>7. ASSUME NEW r \in Requests, Abort(r) PROVE run' = run
  BY <1>7 DEF Abort
<1>8. CASE UNCHANGED vars
  BY <1>2, <1>8 DEF vars
<1>9. QED
  BY <1>2, <1>5, <1>6, <1>7, <1>8 DEF Next

\* What enters the review, or passes without one, has run.
LEMMA ReviewedStep ==
  TypeOK /\ ExecutesInOrder /\ WorkInv /\ [Next]_vars => ReviewedWorkRan'
<1> SUFFICES ASSUME TypeOK, ExecutesInOrder, ReviewedWorkRan, DecidedWorkRan, [Next]_vars,
                    NEW s \in Stage, runtime'[s] \in Reviewed
             PROVE  WorkRan(s)'
  BY DEF WorkInv, ReviewedWorkRan, Reviewed, Pending
<1> SUFFICES WorkRan(s)
  BY WorkStaysRun
<1>1. CASE runtime[s] \in Reviewed
  BY <1>1 DEF ReviewedWorkRan
<1>2. CASE runtime[s] \notin Reviewed
  <2>1. ~Quiet
    BY <1>2 DEF Quiet, Unreviewed, Reviewed, Pending
  <2>2. PICK r \in Requests : \/ CompleteForReview(r)
                            \/ CompleteAndAdvance(r)
                            \/ CommitPass(r)
                            \/ CommitReject(r)
    BY <2>1, StepKinds
  <2>3. CASE CompleteForReview(r) \/ CompleteAndAdvance(r)
    <3>1. s = at[r]
      <4>1. CASE CompleteForReview(r)
        BY <1>2, <4>1 DEF CompleteForReview, TypeOK
      <4>2. CASE CompleteAndAdvance(r)
        BY <1>2, <4>2, PassingStep DEF CompleteAndAdvance, Reviewed, Pending
      <4>3. QED
        BY <2>3, <4>1, <4>2
    <3>2. run[r][at[r]] \in Succeeded
      BY <2>3 DEF CompleteForReview, CompleteAndAdvance, ExecutesInOrder, InOrder
    <3>3. QED
      BY <3>1, <3>2 DEF WorkRan
  <2>4. CASE CommitPass(r)
    <3>1. s = at[r]
      BY <1>2, <2>4, PassingStep DEF CommitPass, Reviewed, Pending
    <3>2. QED
      BY <2>4, <3>1 DEF CommitPass, DecidedWorkRan
  <2>5. CASE CommitReject(r)
    BY <1>2, <2>5 DEF CommitReject, TypeOK, Reviewed, Pending
  <2>6. QED
    BY <2>2, <2>3, <2>4, <2>5
<1>3. QED
  BY <1>1, <1>2

\* What a request comes to decide is under review, so it has run.
LEMMA DecidedStep ==
  TypeOK /\ ExecutesInOrder /\ WorkInv /\ [Next]_vars => DecidedWorkRan'
<1> SUFFICES ASSUME TypeOK, ExecutesInOrder, ReviewedWorkRan, DecidedWorkRan, [Next]_vars,
                    NEW q \in Requests, pc'[q] = "deciding"
             PROVE  \E p \in Requests : run'[p][at'[q]] \in Succeeded
  BY DEF WorkInv, DecidedWorkRan, WorkRan
<1> USE DEF config, rows, locals
<1>1. ASSUME NEW s \in Stage, WorkRan(s), at'[q] = s
      PROVE  \E p \in Requests : run'[p][at'[q]] \in Succeeded
  <2>1. WorkRan(s)'
    BY <1>1, WorkStaysRun
  <2>2. QED
    BY <1>1, <2>1 DEF WorkRan
<1>2. at[q] \in Stage
  BY DEF TypeOK
<1>3. CASE pc[q] = "deciding" /\ at'[q] = at[q]
  BY <1>1, <1>2, <1>3 DEF DecidedWorkRan
<1>4. CASE UNCHANGED vars
  BY <1>3, <1>4 DEF vars
<1>5. ASSUME NEW r \in Requests, Begin(r) \/ Continue(r) \/ Abort(r), r # q
      PROVE  pc[q] = "deciding" /\ at'[q] = at[q]
  BY <1>5, OthersUntouched
<1>6. ASSUME NEW s \in Stage, runtime[s] \in Pending, at'[q] = s
      PROVE  \E p \in Requests : run'[p][at'[q]] \in Succeeded
  BY <1>1, <1>6 DEF ReviewedWorkRan, Reviewed
<1>7. CASE Begin(q)
  <2>1. PICK s \in Stage, d \in {"pass", "reject"}, g \in Requests : BeginDecide(q, s, d, g)
    BY <1>7 DEF Begin, BeginStartProject, BeginActivate, BeginExecute, BeginAdvance,
       BeginRollback, BeginRegenerate, Arrive, TypeOK
  <2>2. QED
    BY <1>6, <2>1 DEF BeginDecide, Arrive, TypeOK
<1>8. CASE Continue(q) \/ Abort(q)
  <2>1. ~Return(q)
    BY DEF Return, TypeOK
  <2>2. ~(pc' = [pc EXCEPT ![q] = "starting"])
    BY DEF TypeOK
  <2>3. ASSUME NEW passed, AdvanceFrom(q, at[q], passed) PROVE FALSE
    BY <1>2, <2>3, AdvanceGoesForward
  <2>4. ~(CommitActivate(q) \/ CompleteAndAdvance(q) \/ CommitPass(q) \/ CommitAdvance(q))
    BY <2>1, <2>2, <2>3 DEF CommitActivate, CompleteAndAdvance, CommitPass, CommitAdvance
  <2>5. ~(CommitStart(q) \/ ReloadStage(q) \/
          \E o \in {"SUCCESS", "PARTIAL", "FAILED"}, a \in {"none", "fresh"} :
            FinishSkills(q, o, a))
    BY DEF CommitStart, ReloadStage, FinishSkills, TypeOK
  <2>6. QED
    BY <1>8, <2>1, <2>4, <2>5 DEF Continue, RefuseComplete, FailStage, CompleteForReview,
       CommitReject, CommitRollback, CommitRegenerate, CommitStartProject, Abort
<1>9. QED
  BY <1>3, <1>4, <1>5, <1>7, <1>8 DEF Next

LEMMA WorkStep == TypeOK /\ ExecutesInOrder /\ WorkInv /\ [Next]_vars => WorkInv'
<1> QED BY ReviewedStep, DecidedStep DEF WorkInv

LEMMA WorkInit == Init => ExecutesInOrder /\ WorkInv
BY DEF Init, ExecutesInOrder, InOrder, Stage, WorkInv, ReviewedWorkRan, DecidedWorkRan,
   Reviewed, Pending

\* No stage is under review or passed without skills of it having succeeded,
\* whatever was read before an await and used after it.
THEOREM WorkBehindReview == Spec => []ReviewedWorkRan
<1>1. WorkInv => ReviewedWorkRan
  BY DEF WorkInv
<1>2. QED
  BY <1>1, WorkInit, WorkStep, TypeCorrect, ExecutionOrder, PTL DEF Spec
-----------------------------------------------------------------------------
(***************************************************************************)
(* A single operator: MaxInFlight = 1, requests may still fail.            *)
(*                                                                         *)
(* The request being served, and no other, has locals that matter; what it *)
(* has read is what the rows still say (Synced), so its guards hold when   *)
(* it commits (Handling).                                                  *)
(***************************************************************************)
InStage == {"running", "ran", "ending"}

Alone == \A p, q \in InFlight : p = q

\* What the session has loaded of the stages ahead is what the rows say.
Synced(r) ==
  /\ \A n \in Stage : n >= at[r] => cache[r][n] \in {Absent, runtime[n]}
  /\ heldCurrent[r] \in {NotHeld, current}

Handling(r) ==
  /\ pc[r] \in InStage => runtime[at[r]] = "in_progress"
  /\ pc[r] \in {"ran", "ending"} => artifacts[r][at[r]] # "stale"
  /\ pc[r] = "deciding" =>
       runtime[at[r]] \in Pending /\ gate[sawGate[r]][at[r]] = "pending"
  /\ pc[r] = "rolling_back" =>
       sawArtifacts[r] = {b \in Requests \X Stage :
                            b[2] > at[r] /\ artifacts[b[1]][b[2]] # "none"}

\* A request creates gates, like executions, for later and later stages.
GatesAhead(r) ==
  /\ pc[r] \in {"new", "deciding", "advancing", "activating"} =>
       \A s \in Stage : gate[r][s] = "none"
  /\ pc[r] \in {"starting"} \cup InStage =>
       \A s \in Stage : s >= at[r] => gate[r][s] = "none"

Untouched(r) == pc[r] = "new" => cache[r] = EmptyMap /\ heldCurrent[r] = NotHeld

SingleInv ==
  /\ Alone
  /\ \A r \in Requests : Untouched(r) /\ GatesAhead(r)
  /\ \A r \in InFlight : Synced(r) /\ Handling(r)

-----------------------------------------------------------------------------
\* Whoever makes a step is the only one in flight.
LEMMA OneServed ==
  ASSUME MaxInFlight = 1, TypeOK, Alone, NEW r \in Requests,
         Begin(r) \/ Continue(r) \/ Abort(r)
  PROVE  /\ InFlight \subseteq {r}
         /\ InFlight' \subseteq {r}
         /\ Begin(r) => InFlight = {}
<1>1. ASSUME Begin(r) PROVE InFlight = {}
  <2>1. Cardinality(InFlight) < 1
    BY <1>1 DEF Begin, BeginStartProject, BeginActivate, BeginExecute, BeginDecide,
       BeginAdvance, BeginRollback, BeginRegenerate, Arrive
  <2>2. ASSUME NEW p \in InFlight PROVE FALSE
    <3>1. InFlight = {p}
      BY <2>2 DEF Alone
    <3>2. Cardinality(InFlight) = 1
      BY <3>1, FS_Singleton
    <3> QED BY <2>1, <3>2
  <2> QED BY <2>2
<1>2. ASSUME Continue(r) \/ Abort(r) PROVE r \in InFlight
  BY <1>2 DEF Continue, CommitStart, FinishSkills, ReloadStage, RefuseComplete, FailStage,
     CompleteForReview, CompleteAndAdvance, CommitPass, CommitReject, CommitAdvance,
     CommitRollback, CommitRegenerate, CommitStartProject, CommitActivate, Abort, InFlight
<1>3. InFlight \subseteq {r}
  BY <1>1, <1>2 DEF Alone
<1>4. \A q \in Requests \ {r} : pc'[q] = pc[q]
  BY OthersUntouched
<1> QED BY <1>1, <1>3, <1>4 DEF InFlight

\* A flush writes what is meant if the row has not changed since it was loaded.
LEMMA FlushWrites ==
  ASSUME NEW row, NEW loaded \in {Absent, row}, NEW new, new # Absent
  PROVE  Flush(row, loaded, new) = new
BY DEF Flush

\* Advancing ends the request or leaves it at a later stage, in step with the rows.
LEMMA AdvanceSynced ==
  ASSUME TypeOK, NEW r \in Requests, Synced(r), current' = current,
         NEW passed \in [Stage -> RuntimeStatus],
         \A n \in Stage : n > at[r] => passed[n] = runtime[n],
         AdvanceFrom(r, at[r], passed)
  PROVE  Return(r) \/ (pc'[r] = "starting" /\ Synced(r)')
<1>1. CASE ~Return(r)
  <2>1. PICK n \in NextStages(at[r]) :
          /\ runtime' = [passed EXCEPT ![n] = Flush(@, Load(r, n), "ready")]
          /\ pc' = [pc EXCEPT ![r] = "starting"]
          /\ at' = [at EXCEPT ![r] = n]
          /\ cache' = [cache EXCEPT ![r][n] = "ready"]
          /\ heldCurrent' = [heldCurrent EXCEPT ![r] = LoadCurrent(r)]
    BY <1>1 DEF AdvanceFrom
  <2>2. n \in Stage /\ n > at[r] /\ at[r] \in Stage
    BY DEF NextStages, TypeOK
  <2>3. Load(r, n) \in {Absent, passed[n]}
    BY <2>2 DEF Load, Synced, Stage
  <2>4. runtime'[n] = "ready"
    BY <2>1, <2>2, <2>3, FlushWrites DEF Absent
  <2>5. \A m \in Stage : m > n => runtime'[m] = runtime[m] /\ cache'[r][m] = cache[r][m]
    BY <2>1, <2>2 DEF TypeOK, Stage
  <2>6. pc'[r] = "starting" /\ at'[r] = n /\ cache'[r][n] = "ready"
    BY <2>1, <2>2 DEF TypeOK
  <2>7. \A m \in Stage : m >= n => m = n \/ m > n
    BY <2>2 DEF Stage
  <2>8. \A m \in Stage : m > n => m >= at[r]
    BY <2>2 DEF Stage
  <2>9. \A m \in Stage : m >= at'[r] => cache'[r][m] \in {Absent, runtime'[m]}
    BY <2>4, <2>5, <2>6, <2>7, <2>8 DEF Synced
  <2>10. heldCurrent'[r] = current
    BY <2>1 DEF TypeOK, LoadCurrent, Synced
  <2> QED BY <2>6, <2>9, <2>10 DEF Synced
<1> QED BY <1>1

\* After the step of an arriving request.
LEMMA BeginSingle ==
  ASSUME TypeOK, NEW r \in Requests, Untouched(r), Begin(r)
  PROVE  Synced(r)' /\ Handling(r)'
<1> USE DEF config, rows, locals, Arrive, Synced, Handling, InStage
<1>1. /\ pc[r] = "new" /\ cache[r] = EmptyMap /\ heldCurrent[r] = NotHeld
      /\ runtime' = runtime /\ gate' = gate /\ artifacts' = artifacts /\ current' = current
      /\ 1 \in Stage
  BY DEF Untouched, Begin, BeginStartProject, BeginActivate, BeginExecute, BeginDecide,
     BeginAdvance, BeginRollback, BeginRegenerate, Stage
<1>2. ASSUME NEW s \in Stage, NEW keeps \in BOOLEAN, BeginExecute(r, s, keeps)
      PROVE  Synced(r)' /\ Handling(r)'
  BY <1>1, <1>2 DEF BeginExecute, TypeOK, EmptyMap
<1>3. ASSUME NEW s \in Stage, NEW d \in {"pass", "reject"}, NEW g \in Requests,
             BeginDecide(r, s, d, g)
      PROVE  Synced(r)' /\ Handling(r)'
  BY <1>1, <1>3 DEF BeginDecide, TypeOK, EmptyMap, PendingGates
<1>4. ASSUME NEW s \in Stage, BeginAdvance(r, s) PROVE Synced(r)' /\ Handling(r)'
  BY <1>1, <1>4 DEF BeginAdvance, TypeOK, EmptyMap
<1>5. ASSUME NEW s \in Stage, BeginRollback(r, s) PROVE Synced(r)' /\ Handling(r)'
  BY <1>1, <1>5 DEF BeginRollback, TypeOK, EmptyMap
<1>6. ASSUME NEW s \in Stage, BeginRegenerate(r, s) PROVE Synced(r)' /\ Handling(r)'
  BY <1>1, <1>6 DEF BeginRegenerate, TypeOK, EmptyMap
<1>7. ASSUME BeginStartProject(r) PROVE Synced(r)' /\ Handling(r)'
  BY <1>1, <1>7 DEF BeginStartProject, TypeOK, EmptyMap
<1>8. ASSUME BeginActivate(r) PROVE Synced(r)' /\ Handling(r)'
  BY <1>1, <1>8 DEF BeginActivate, TypeOK, EmptyMap
<1> QED BY <1>2, <1>3, <1>4, <1>5, <1>6, <1>7, <1>8 DEF Begin

\* After each other step, if the request is still in flight.
LEMMA ContinueSingle ==
  ASSUME TypeOK, NEW r \in Requests, Synced(r), Handling(r), Continue(r), pc'[r] # "done"
  PROVE  Synced(r)' /\ Handling(r)'
<1> USE DEF config, rows, locals, InStage
<1>0. at[r] \in Stage /\ 1 \in Stage
  BY DEF TypeOK, Stage
<1>1. ASSUME CommitStart(r) PROVE Synced(r)' /\ Handling(r)'
  <2>1. /\ pc'[r] = "running" /\ at'[r] = at[r] /\ runtime'[at[r]] = "in_progress"
        /\ \A n \in Stage \ {at[r]} : runtime'[n] = runtime[n] /\ cache'[r][n] = cache[r][n]
        /\ cache'[r][at[r]] \in {Absent, "in_progress"}
    BY <1>0, <1>1 DEF CommitStart, TypeOK
  <2>2. current' = at[r]
    BY <1>0, <1>1 DEF CommitStart, Flush, LoadCurrent, Synced
  <2>3. heldCurrent'[r] \in {NotHeld, at[r]}
    BY <1>1 DEF CommitStart, TypeOK
  <2> QED BY <1>0, <2>1, <2>2, <2>3 DEF Synced, Handling
<1>2. ASSUME NEW o \in {"SUCCESS", "PARTIAL", "FAILED"}, NEW a \in {"none", "fresh"},
             FinishSkills(r, o, a)
      PROVE  Synced(r)' /\ Handling(r)'
  BY <1>0, <1>2 DEF FinishSkills, TypeOK, Synced, Handling
<1>3. ASSUME ReloadStage(r) PROVE Synced(r)' /\ Handling(r)'
  BY <1>0, <1>3 DEF ReloadStage, TypeOK, Synced, Handling, Load
<1>4. ~Return(r)
  BY DEF Return, TypeOK
<1>5. ASSUME CompleteAndAdvance(r) \/ CommitPass(r) PROVE Synced(r)' /\ Handling(r)'
  <2> DEFINE passed == [runtime EXCEPT ![at[r]] = "passed"]
  <2>1. /\ passed \in [Stage -> RuntimeStatus]
        /\ \A n \in Stage : n > at[r] => passed[n] = runtime[n]
    BY <1>0 DEF TypeOK, RuntimeStatus, Stage
  <2>2. current' = current /\ AdvanceFrom(r, at[r], passed)
    BY <1>5 DEF CompleteAndAdvance, CommitPass
  <2> HIDE DEF passed
  <2>3. pc'[r] = "starting" /\ Synced(r)'
    BY <1>4, <2>1, <2>2, AdvanceSynced
  <2> QED BY <2>3 DEF Handling
<1>6. ASSUME CommitAdvance(r) PROVE Synced(r)' /\ Handling(r)'
  <2>1. current' = current /\ AdvanceFrom(r, at[r], runtime) /\ runtime \in [Stage -> RuntimeStatus]
    BY <1>6 DEF CommitAdvance, TypeOK
  <2>2. pc'[r] = "starting" /\ Synced(r)'
    BY <1>4, <2>1, AdvanceSynced
  <2> QED BY <2>2 DEF Handling
<1>7. ASSUME CommitActivate(r) PROVE Synced(r)' /\ Handling(r)'
  <2>1. PICK s \in Stage :
          /\ runtime' = [runtime EXCEPT ![s] = "ready"]
          /\ current' = Flush(current, heldCurrent[r], s)
          /\ pc' = [pc EXCEPT ![r] = "starting"]
          /\ at' = [at EXCEPT ![r] = s]
          /\ cache' = [cache EXCEPT ![r] = [runtime EXCEPT ![s] = "ready"]]
          /\ heldCurrent' = [heldCurrent EXCEPT ![r] = s]
    BY <1>4, <1>7 DEF CommitActivate
  <2>2. pc'[r] = "starting" /\ cache'[r] = runtime' /\ heldCurrent'[r] = s
    BY <2>1 DEF TypeOK
  <2>3. current' = s
    BY <2>1 DEF Flush, Synced, NotHeld, Stage, TypeOK
  <2> QED BY <2>2, <2>3 DEF Synced, Handling
<1> QED
  BY <1>1, <1>2, <1>3, <1>4, <1>5, <1>6, <1>7
  DEF Continue, RefuseComplete, FailStage, CompleteForReview, CommitReject,
     CommitRollback, CommitRegenerate, CommitStartProject

\* A step creates a gate for the stage it completes, or decides a pending one.
LEMMA GateChanges ==
  ASSUME TypeOK, NEW r \in Requests, Begin(r) \/ Continue(r) \/ Abort(r),
         pc[r] = "deciding" => Handling(r),
         NEW q \in Requests, NEW s \in Stage, gate'[q][s] # gate[q][s]
  PROVE  \/ q = r /\ s = at[r] /\ pc[r] = "ending" /\ pc'[r] = "done"
         \/ gate[q][s] = "pending"
<1>1. ~Quiet
  BY DEF Quiet
<1>2. Next
  BY DEF Next
<1>3. PICK p \in Requests : \/ CompleteForReview(p)
                            \/ CompleteAndAdvance(p)
                            \/ CommitPass(p)
                            \/ CommitReject(p)
  BY <1>1, <1>2, StepKinds
<1>4. pc'[p] # pc[p]
  BY <1>3, AdvanceGoesForward
  DEF CompleteForReview, CompleteAndAdvance, CommitPass, CommitReject, Return, TypeOK
<1>5. p = r
  BY <1>4, OthersUntouched
<1>6. CASE CompleteForReview(r)
  BY <1>6 DEF CompleteForReview, CreateGate, Return, TypeOK
<1>7. CASE CommitPass(r) \/ CommitReject(r)
  <2>1. q = sawGate[r] /\ s = at[r] /\ pc[r] = "deciding"
    BY <1>7 DEF CommitPass, CommitReject, TypeOK
  <2> QED BY <2>1 DEF Handling
<1>8. CASE CompleteAndAdvance(r)
  BY <1>8 DEF CompleteAndAdvance
<1> QED BY <1>3, <1>5, <1>6, <1>7, <1>8

\* Gates stay ahead of their request.
LEMMA GatesAheadStep ==
  ASSUME TypeOK, NEW r \in Requests, Begin(r) \/ Continue(r) \/ Abort(r),
         pc[r] = "deciding" => Handling(r),
         NEW q \in Requests, GatesAhead(q)
  PROVE  GatesAhead(q)'
<1> USE DEF config, rows, locals, InStage
<1>0. at[r] \in Stage /\ at[q] \in Stage
  BY DEF TypeOK
<1>1. CASE q # r
  <2>1. pc'[q] = pc[q] /\ at'[q] = at[q]
    BY <1>1, OthersUntouched
  <2>2. \A s \in Stage : gate[q][s] = "none" => gate'[q][s] = "none"
    BY <1>1, GateChanges
  <2> QED BY <2>1, <2>2 DEF GatesAhead
<1>2. CASE q = r /\ pc'[r] # "done"
  <2>1. \A s \in Stage : gate[r][s] = "none" => gate'[r][s] = "none"
    BY <1>2, GateChanges
  <2>2. CASE Begin(r)
    <3>1. pc[r] = "new"
      BY <2>2 DEF Begin, BeginStartProject, BeginActivate, BeginExecute, BeginDecide,
         BeginAdvance, BeginRollback, BeginRegenerate, Arrive
    <3> QED BY <1>2, <2>1, <3>1 DEF GatesAhead
  <2>3. CASE CommitStart(r) \/ ReloadStage(r) \/
             \E o \in {"SUCCESS", "PARTIAL", "FAILED"}, a \in {"none", "fresh"} :
               FinishSkills(r, o, a)
    <3>1. /\ pc[r] \in {"starting", "running", "ran"}
          /\ pc'[r] \in InStage
          /\ at'[r] = at[r]
      BY <2>3 DEF CommitStart, ReloadStage, FinishSkills, TypeOK
    <3> QED BY <1>2, <2>1, <3>1 DEF GatesAhead
  <2>4. ASSUME NEW passed, AdvanceFrom(r, at[r], passed),
               \A s \in Stage : s > at[r] => gate[r][s] = "none"
        PROVE  GatesAhead(r)'
    <3>1. pc'[r] = "starting" /\ at'[r] \in Stage /\ at'[r] > at[r]
      BY <1>0, <1>2, <2>4, AdvanceGoesForward
    <3>2. \A s \in Stage : s >= at'[r] => s > at[r]
      BY <1>0, <3>1 DEF Stage
    <3> QED BY <2>1, <2>4, <3>1, <3>2 DEF GatesAhead
  <2>5. CASE CompleteAndAdvance(r) \/ CommitPass(r) \/ CommitAdvance(r)
    <3>1. pc[r] \in {"ending", "deciding", "advancing"}
      BY <2>5 DEF CompleteAndAdvance, CommitPass, CommitAdvance
    <3>2. \A s \in Stage : s > at[r] => gate[r][s] = "none"
      BY <1>0, <1>2, <3>1 DEF GatesAhead, Stage
    <3> QED BY <1>2, <2>4, <2>5, <3>2 DEF CompleteAndAdvance, CommitPass, CommitAdvance
  <2>6. ~Return(r)
    BY <1>2 DEF Return, TypeOK
  <2>7. CASE CommitActivate(r)
    <3>1. pc'[r] = "starting" /\ pc[r] = "activating"
      BY <2>6, <2>7 DEF CommitActivate, TypeOK
    <3> QED BY <1>2, <2>1, <3>1 DEF GatesAhead
  <2> QED
    BY <1>2, <2>2, <2>3, <2>5, <2>6, <2>7
    DEF Continue, RefuseComplete, FailStage, CompleteForReview, CommitReject,
       CommitRollback, CommitRegenerate, CommitStartProject, Abort
<1>3. CASE q = r /\ pc'[r] = "done"
  BY <1>3 DEF GatesAhead
<1> QED BY <1>1, <1>2, <1>3

\* Requests that have not arrived have loaded nothing.
LEMMA UntouchedStep ==
  ASSUME TypeOK, NEW r \in Requests, Begin(r) \/ Continue(r) \/ Abort(r),
         NEW q \in Requests, Untouched(q), pc'[q] = "new"
  PROVE  UNCHANGED <<cache[q], heldCurrent[q]>> /\ pc[q] = "new"
<1> USE DEF config, rows, locals, Arrive, Return
<1>1. pc'[r] # "new"
  <2>1. CASE Begin(r)
    BY <2>1 DEF Begin, BeginStartProject, BeginActivate, BeginExecute, BeginDecide,
       BeginAdvance, BeginRollback, BeginRegenerate, TypeOK
  <2>2. CASE CompleteAndAdvance(r) \/ CommitPass(r) \/ CommitAdvance(r)
    BY <2>2, AdvanceGoesForward DEF CompleteAndAdvance, CommitPass, CommitAdvance, TypeOK
  <2> QED
    BY <2>1, <2>2
    DEF Continue, CommitStart, FinishSkills, ReloadStage, RefuseComplete, FailStage,
       CompleteForReview, CommitReject, CommitRollback, CommitRegenerate, CommitStartProject,
       CommitActivate, Abort, TypeOK
<1>2. q # r
  BY <1>1
<1>3. pc'[q] = pc[q]
  BY <1>2, OthersUntouched
<1>4. \A s, passed : AdvanceFrom(r, s, passed) => UNCHANGED <<cache[q], heldCurrent[q]>>
  BY <1>2 DEF AdvanceFrom, TypeOK
<1>5. CASE Begin(r)
  BY <1>2, <1>3, <1>5 DEF Begin, BeginStartProject, BeginActivate, BeginExecute, BeginDecide,
     BeginAdvance, BeginRollback, BeginRegenerate, TypeOK
<1>6. CASE CompleteAndAdvance(r) \/ CommitPass(r) \/ CommitAdvance(r)
  BY <1>3, <1>4, <1>6 DEF CompleteAndAdvance, CommitPass, CommitAdvance
<1>7. CASE CommitActivate(r)
  BY <1>2, <1>3, <1>7 DEF CommitActivate, TypeOK
<1> QED
  BY <1>2, <1>3, <1>5, <1>6, <1>7
  DEF Continue, CommitStart, FinishSkills, ReloadStage, RefuseComplete, FailStage,
     CompleteForReview, CommitReject, CommitRollback, CommitRegenerate, CommitStartProject,
     Abort, TypeOK

LEMMA SingleStep ==
  ASSUME MaxInFlight = 1, TypeOK, SingleInv, [Next]_vars
  PROVE  SingleInv'
<1>1. CASE UNCHANGED vars
  BY <1>1 DEF vars, config, rows, locals, SingleInv, Alone, InFlight, Untouched, GatesAhead,
     Synced, Handling
<1>2. ASSUME NEW r \in Requests, Begin(r) \/ Continue(r) \/ Abort(r)
      PROVE  SingleInv'
  <2>1. /\ InFlight \subseteq {r} /\ InFlight' \subseteq {r}
        /\ Begin(r) => InFlight = {}
    BY <1>2, OneServed DEF SingleInv
  <2>2. pc[r] = "deciding" => Handling(r)
    BY DEF SingleInv, InFlight
  <2>3. \A q \in Requests : GatesAhead(q)'
    BY <1>2, <2>2, GatesAheadStep DEF SingleInv
  <2>4. \A q \in Requests : Untouched(q)'
    BY <1>2, UntouchedStep DEF SingleInv, Untouched
  <2>5. ASSUME r \in InFlight' PROVE Synced(r)' /\ Handling(r)'
    <3>1. pc'[r] # "done"
      BY <2>5 DEF InFlight
    <3>2. CASE Begin(r)
      BY <3>2, BeginSingle DEF SingleInv
    <3>3. CASE Continue(r)
      <4>1. r \in InFlight
        BY <3>3 DEF Continue, CommitStart, FinishSkills, ReloadStage, RefuseComplete, FailStage,
           CompleteForReview, CompleteAndAdvance, CommitPass, CommitReject, CommitAdvance,
           CommitRollback, CommitRegenerate, CommitStartProject, CommitActivate, InFlight
      <4> QED BY <3>1, <3>3, <4>1, ContinueSingle DEF SingleInv
    <3>4. CASE Abort(r)
      BY <3>1, <3>4 DEF Abort, Return, TypeOK
    <3> QED BY <1>2, <3>2, <3>3, <3>4
  <2>6. Alone'
    BY <2>1 DEF Alone
  <2> QED BY <2>1, <2>3, <2>4, <2>5, <2>6 DEF SingleInv
<1> QED BY <1>1, <1>2 DEF Next

\* One operator: whoever is served is alone and acts on what the rows say.
THEOREM OneOperator ==
  ASSUME MaxInFlight = 1
  PROVE  Spec => [](TypeOK /\ ExecutesInOrder /\ SingleInv)
<1>1. Init => SingleInv
  BY DEF Init, SingleInv, Alone, InFlight, Untouched, GatesAhead
<1>2. TypeOK /\ SingleInv /\ [Next]_vars => SingleInv'
  BY SingleStep
<1> QED BY <1>1, <1>2, TypeCorrect, ExecutionOrder, PTL DEF Spec

-----------------------------------------------------------------------------
\* A step that starts no stage, runs no skills and rolls nothing back.
LEMMA RunsAndArtifacts ==
  ASSUME NEW r \in Requests, Begin(r) \/ Continue(r) \/ Abort(r)
  PROVE  \/ run' = run /\ artifacts' = artifacts
         \/ CommitStart(r) \/ CommitRollback(r)
         \/ \E o \in {"SUCCESS", "PARTIAL", "FAILED"}, a \in {"none", "fresh"} :
              FinishSkills(r, o, a)
<1> USE DEF rows
<1>1. CASE Begin(r)
  BY <1>1 DEF Begin, BeginStartProject, BeginActivate, BeginExecute, BeginDecide,
     BeginAdvance, BeginRollback, BeginRegenerate
<1>2. CASE Continue(r)
  BY <1>2 DEF Continue, ReloadStage, RefuseComplete, FailStage, CompleteForReview,
     CompleteAndAdvance, CommitPass, CommitReject, CommitAdvance, CommitRegenerate,
     CommitStartProject, CommitActivate
<1>3. CASE Abort(r)
  BY <1>3 DEF Abort
<1> QED BY <1>1, <1>2, <1>3

\* The rows a rollback has loaded are the rows it resets.
LEMMA RollbackSingle ==
  ASSUME TypeOK, NEW r \in Requests, Synced(r), Handling(r), CommitRollback(r)
  PROVE  /\ runtime'[at[r]] = "ready"
         /\ \A s \in Stage : s > at[r] => runtime'[s] = "not_started"
         /\ \A s \in Stage : s < at[r] => runtime'[s] = runtime[s]
         /\ \A q \in Requests, s \in Stage :
              artifacts'[q][s] = IF s > at[r] /\ artifacts[q][s] # "none"
                                   THEN "stale" ELSE artifacts[q][s]
<1>1. at[r] \in Stage
  BY DEF TypeOK
<1>2. \A s \in Stage : s >= at[r] => cache[r][s] \in {Absent, runtime[s]}
  BY DEF Synced
<1>3. \A s \in Stage : runtime'[s] =
        IF s < at[r] THEN runtime[s]
        ELSE Flush(runtime[s], cache[r][s], IF s > at[r] THEN "not_started" ELSE "ready")
  BY DEF CommitRollback
<1>4. runtime'[at[r]] = "ready"
  BY <1>1, <1>2, <1>3 DEF Stage, Flush, Absent
<1>5. \A s \in Stage : s > at[r] => runtime'[s] = "not_started"
  BY <1>1, <1>2, <1>3 DEF Stage, Flush, Absent
<1>6. sawArtifacts[r] = {b \in Requests \X Stage :
                            b[2] > at[r] /\ artifacts[b[1]][b[2]] # "none"}
  BY DEF CommitRollback, Handling
<1>7. ASSUME NEW q \in Requests, NEW s \in Stage
      PROVE  artifacts'[q][s] = IF s > at[r] /\ artifacts[q][s] # "none"
                                  THEN "stale" ELSE artifacts[q][s]
  <2>1. <<q, s>> \in sawArtifacts[r] <=> s > at[r] /\ artifacts[q][s] # "none"
    BY <1>6
  <2> QED BY <2>1 DEF CommitRollback
<1> QED BY <1>3, <1>4, <1>5, <1>7

\* One operator never sees a stage reviewed or passed on results that a
\* rollback has made stale.
THEOREM ResultsFresh ==
  ASSUME MaxInFlight = 1
  PROVE  Spec => []FreshResults
<1>1. Init => FreshResults
  BY DEF Init, FreshResults, Reviewed, Pending
<1>2. TypeOK /\ ExecutesInOrder /\ SingleInv /\ FreshResults /\ [Next]_vars => FreshResults'
  <2> SUFFICES ASSUME TypeOK, ExecutesInOrder, SingleInv, FreshResults, [Next]_vars,
                      NEW s \in Stage, runtime'[s] \in Reviewed
               PROVE  \E q \in Requests : run'[q][s] \in Succeeded /\ artifacts'[q][s] # "stale"
    BY DEF FreshResults, Reviewed, Pending, Succeeded
  <2>1. CASE UNCHANGED vars
    BY <2>1 DEF FreshResults, vars, rows
  <2>2. ASSUME NEW r \in Requests, Begin(r) \/ Continue(r) \/ Abort(r)
        PROVE  \E q \in Requests : run'[q][s] \in Succeeded /\ artifacts'[q][s] # "stale"
    <3>0. at[r] \in Stage
      BY DEF TypeOK
    <3>1. r \in InFlight => Synced(r) /\ Handling(r)
      BY DEF SingleInv
    <3>2. CASE CommitStart(r)
      <4>1. s # at[r] /\ runtime[s] \in Reviewed
        BY <3>2 DEF CommitStart, TypeOK, Reviewed, Pending
      <4>2. artifacts' = artifacts /\ \A q \in Requests : run'[q][s] = run[q][s]
        BY <3>0, <3>2, <4>1 DEF CommitStart, TypeOK
      <4> QED BY <4>1, <4>2 DEF FreshResults
    <3>3. ASSUME NEW o \in {"SUCCESS", "PARTIAL", "FAILED"}, NEW a \in {"none", "fresh"},
                 FinishSkills(r, o, a)
          PROVE  \E q \in Requests : run'[q][s] \in Succeeded /\ artifacts'[q][s] # "stale"
      <4>1. runtime[at[r]] = "in_progress" /\ runtime' = runtime
        BY <3>1, <3>3 DEF FinishSkills, InFlight, Handling, InStage
      <4>2. s # at[r]
        BY <4>1 DEF Reviewed, Pending
      <4>3. \A q \in Requests : run'[q][s] = run[q][s] /\ artifacts'[q][s] = artifacts[q][s]
        BY <3>0, <3>3, <4>2 DEF FinishSkills, TypeOK
      <4> QED BY <4>1, <4>3 DEF FreshResults
    <3>4. CASE CommitRollback(r)
      <4>0. r \in InFlight
        BY <3>4 DEF CommitRollback, InFlight
      <4>1. s < at[r]
        BY <3>0, <3>1, <3>4, <4>0, RollbackSingle DEF Stage, Reviewed, Pending
      <4>2. runtime'[s] = runtime[s] /\ \A q \in Requests : artifacts'[q][s] = artifacts[q][s]
        BY <3>0, <3>1, <3>4, <4>0, <4>1, RollbackSingle DEF Stage
      <4>3. run' = run
        BY <3>4 DEF CommitRollback
      <4> QED BY <4>2, <4>3 DEF FreshResults
    <3>5. CASE run' = run /\ artifacts' = artifacts
      <4>1. CASE runtime[s] \in Reviewed
        BY <3>5, <4>1 DEF FreshResults
      <4>2. CASE runtime[s] \notin Reviewed
        <5>1. ~Quiet
          BY <4>2 DEF Quiet, Unreviewed, Reviewed, Pending
        <5>2. PICK p \in Requests : \/ CompleteForReview(p)
                                    \/ CompleteAndAdvance(p)
                                    \/ CommitPass(p)
                                    \/ CommitReject(p)
          BY <5>1, StepKinds
        <5>3. p \in InFlight /\ Handling(p)
          BY <5>2 DEF CompleteForReview, CompleteAndAdvance, CommitPass, CommitReject, InFlight,
             SingleInv
        <5>4. CASE CompleteForReview(p) \/ CompleteAndAdvance(p)
          <6>1. s = at[p]
            <7>1. CASE CompleteForReview(p)
              BY <4>2, <7>1 DEF CompleteForReview, TypeOK
            <7>2. CASE CompleteAndAdvance(p)
              BY <4>2, <7>2, PassingStep DEF CompleteAndAdvance, Reviewed, Pending
            <7> QED BY <5>4, <7>1, <7>2
          <6>2. run[p][at[p]] \in Succeeded /\ artifacts[p][at[p]] # "stale"
            BY <5>3, <5>4 DEF CompleteForReview, CompleteAndAdvance, ExecutesInOrder, InOrder,
               Handling
          <6> QED BY <3>5, <6>1, <6>2
        <5>5. CASE CommitPass(p) \/ CommitReject(p)
          <6>1. s = at[p]
            <7>1. CASE CommitPass(p)
              BY <4>2, <7>1, PassingStep DEF CommitPass, Reviewed, Pending
            <7>2. CASE CommitReject(p)
              BY <4>2, <7>2 DEF CommitReject, TypeOK
            <7> QED BY <5>5, <7>1, <7>2
          <6>2. runtime[s] \in Pending
            BY <5>3, <5>5, <6>1 DEF CommitPass, CommitReject, Handling
          <6> QED BY <4>2, <6>2 DEF Reviewed
        <5> QED BY <5>2, <5>4, <5>5
      <4> QED BY <4>1, <4>2
    <3> QED BY <2>2, <3>2, <3>3, <3>4, <3>5, RunsAndArtifacts
  <2> QED BY <2>1, <2>2 DEF Next
<1> QED BY <1>1, <1>2, OneOperator, PTL DEF Spec

\* Only a rollback takes a stage back to not_started.
LEMMA NotStartedKept ==
  ASSUME TypeOK, [Next]_vars, NEW s \in Stage, runtime'[s] = "not_started",
         ~\E r \in Requests : CommitRollback(r)
  PROVE  runtime[s] = "not_started"
<1> USE DEF config, rows, locals
<1>1. ASSUME NEW r \in Requests, Begin(r) \/ Abort(r) PROVE runtime' = runtime
  BY <1>1 DEF Begin, BeginStartProject, BeginActivate, BeginExecute, BeginDecide,
     BeginAdvance, BeginRollback, BeginRegenerate, Abort
<1>2. ASSUME NEW r \in Requests, CompleteAndAdvance(r) \/ CommitPass(r)
      PROVE  runtime[s] = "not_started"
  BY <1>2, PassingStep DEF CompleteAndAdvance, CommitPass
<1>3. ASSUME NEW r \in Requests, CommitAdvance(r) PROVE runtime[s] = "not_started"
  <2>1. at[r] \in Stage /\ runtime \in [Stage -> RuntimeStatus]
    BY DEF TypeOK
  <2> QED BY <1>3, <2>1, AdvanceOnlyReadies DEF CommitAdvance
<1>4. ASSUME NEW r \in Requests, CommitActivate(r) PROVE runtime[s] = "not_started"
  <2>1. runtime' = runtime \/ \E n \in Stage : runtime' = [runtime EXCEPT ![n] = "ready"]
    BY <1>4 DEF CommitActivate
  <2> QED BY <2>1 DEF TypeOK
<1>5. ASSUME NEW r \in Requests,
             FailStage(r) \/ CommitRegenerate(r) \/ CommitStartProject(r)
      PROVE  runtime[s] = "not_started"
  BY <1>5 DEF FailStage, CommitRegenerate, CommitStartProject, Flush, TypeOK
<1>6. ASSUME NEW r \in Requests,
             CommitStart(r) \/ CompleteForReview(r) \/ CommitReject(r)
      PROVE  runtime[s] = "not_started"
  BY <1>6 DEF CommitStart, CompleteForReview, CommitReject, TypeOK, Pending
<1>7. ASSUME NEW r \in Requests,
             ReloadStage(r) \/ RefuseComplete(r) \/
             \E o \in {"SUCCESS", "PARTIAL", "FAILED"}, a \in {"none", "fresh"} :
               FinishSkills(r, o, a)
      PROVE  runtime' = runtime
  BY <1>7 DEF ReloadStage, RefuseComplete, FinishSkills
<1>8. CASE UNCHANGED vars
  BY <1>8 DEF vars
<1> QED
  BY <1>1, <1>2, <1>3, <1>4, <1>5, <1>6, <1>7, <1>8 DEF Next, Continue

\* A stage that one operator has rolled back keeps no artifact that counts as
\* current.
THEOREM ResetClean ==
  ASSUME MaxInFlight = 1
  PROVE  Spec => []ResetHasNoFreshArtifact
<1>1. Init => ResetHasNoFreshArtifact
  BY DEF Init, ResetHasNoFreshArtifact
<1>2. TypeOK /\ SingleInv /\ ResetHasNoFreshArtifact /\ [Next]_vars => ResetHasNoFreshArtifact'
  <2> SUFFICES ASSUME TypeOK, SingleInv, ResetHasNoFreshArtifact, [Next]_vars,
                      NEW s \in Stage, runtime'[s] = "not_started",
                      NEW q \in Requests
               PROVE  artifacts'[q][s] # "fresh"
    BY DEF ResetHasNoFreshArtifact
  <2>1. ASSUME NEW r \in Requests, CommitRollback(r) PROVE artifacts'[q][s] # "fresh"
    <3>1. Synced(r) /\ Handling(r) /\ at[r] \in Stage
      BY <2>1 DEF CommitRollback, InFlight, SingleInv, TypeOK
    <3>2. CASE s > at[r]
      BY <2>1, <3>1, <3>2, RollbackSingle
    <3>3. CASE s <= at[r]
      <4>1. s < at[r]
        BY <2>1, <3>1, <3>3, RollbackSingle DEF Stage
      <4>2. runtime[s] = "not_started" /\ artifacts'[q][s] = artifacts[q][s]
        BY <2>1, <3>1, <4>1, RollbackSingle DEF Stage
      <4> QED BY <4>2 DEF ResetHasNoFreshArtifact
    <3> QED BY <3>1, <3>2, <3>3 DEF Stage
  <2>2. CASE ~\E r \in Requests : CommitRollback(r)
    <3>1. runtime[s] = "not_started"
      BY <2>2, NotStartedKept
    <3>2. artifacts[q][s] # "fresh"
      BY <3>1 DEF ResetHasNoFreshArtifact
    <3>3. ASSUME NEW r \in Requests, NEW o \in {"SUCCESS", "PARTIAL", "FAILED"},
                 NEW a \in {"none", "fresh"}, FinishSkills(r, o, a)
          PROVE  artifacts'[q][s] = artifacts[q][s]
      <4>1. runtime[at[r]] = "in_progress"
        BY <3>3 DEF FinishSkills, InFlight, SingleInv, Handling, InStage
      <4>2. s # at[r]
        BY <3>1, <4>1
      <4> QED BY <3>3, <4>2 DEF FinishSkills, TypeOK
    <3>4. ASSUME NEW r \in Requests, CommitStart(r) PROVE artifacts' = artifacts
      BY <3>4 DEF CommitStart
    <3>5. ASSUME UNCHANGED vars PROVE artifacts' = artifacts
      BY <3>5 DEF vars, rows
    <3> QED BY <2>2, <3>2, <3>3, <3>4, <3>5, RunsAndArtifacts DEF Next
  <2> QED BY <2>1, <2>2
<1> QED BY <1>1, <1>2, OneOperator, PTL DEF Spec

\* One operator decides every gate once: what is passed or rejected stays so.
THEOREM DecidedOnce ==
  ASSUME MaxInFlight = 1
  PROVE  Spec => GateDecidedOnce
<1> DEFINE Once == \A q \in Requests, s \in Stage :
             gate[q][s] \in {"passed", "rejected"} => gate'[q][s] = gate[q][s]
<1>1. TypeOK /\ SingleInv /\ [Next]_vars => [Once]_vars
  <2> SUFFICES ASSUME TypeOK, SingleInv, Next, NEW q \in Requests, NEW s \in Stage,
                      gate[q][s] \in {"passed", "rejected"}
               PROVE  gate'[q][s] = gate[q][s]
    OBVIOUS
  <2>1. PICK r \in Requests : Begin(r) \/ Continue(r) \/ Abort(r)
    BY DEF Next
  <2>2. pc[r] = "deciding" => Handling(r)
    BY DEF SingleInv, InFlight
  <2>3. pc[r] = "ending" => gate[r][at[r]] = "none"
    BY DEF SingleInv, GatesAhead, InStage, TypeOK, Stage
  <2> QED BY <2>1, <2>2, <2>3, GateChanges
<1> HIDE DEF Once
<1>2. Spec => [][Once]_vars
  BY <1>1, OneOperator, PTL DEF Spec
<1> QED BY <1>2 DEF Once, GateDecidedOnce

\* One operator passes a reviewed stage only by passing the gate it waited for.
THEOREM ReviewEndsByDecision ==
  ASSUME MaxInFlight = 1
  PROVE  Spec => LeavesReviewByDecision
<1> DEFINE ByDecision == \A s \in Stage : runtime[s] \in Pending /\ runtime'[s] = "passed" =>
             \E q \in PendingGates(s) : gate'[q][s] = "passed"
<1>1. TypeOK /\ SingleInv /\ [Next]_vars => [ByDecision]_vars
  <2> SUFFICES ASSUME TypeOK, SingleInv, Next, NEW s \in Stage,
                      runtime[s] \in Pending, runtime'[s] = "passed"
               PROVE  \E q \in PendingGates(s) : gate'[q][s] = "passed"
    OBVIOUS
  <2>1. ~Quiet
    BY DEF Quiet, Unreviewed, Pending
  <2>2. PICK r \in Requests : \/ CompleteForReview(r)
                              \/ CompleteAndAdvance(r)
                              \/ CommitPass(r)
                              \/ CommitReject(r)
    BY <2>1, StepKinds
  <2>3. r \in InFlight /\ Handling(r)
    BY <2>2 DEF CompleteForReview, CompleteAndAdvance, CommitPass, CommitReject, InFlight,
       SingleInv
  <2>4. CASE CompleteForReview(r) \/ CommitReject(r)
    BY <2>4 DEF CompleteForReview, CommitReject, TypeOK, Pending
  <2>5. CASE CompleteAndAdvance(r)
    <3>1. s = at[r]
      BY <2>5, PassingStep DEF CompleteAndAdvance, Pending
    <3> QED BY <2>3, <2>5, <3>1 DEF CompleteAndAdvance, Handling, InStage, Pending
  <2>6. CASE CommitPass(r)
    <3>1. s = at[r]
      BY <2>6, PassingStep DEF CommitPass, Pending
    <3>2. gate[sawGate[r]][s] = "pending" /\ sawGate[r] \in Requests
      BY <2>3, <2>6, <3>1 DEF CommitPass, Handling, TypeOK
    <3>3. gate'[sawGate[r]][s] = "passed"
      BY <2>6, <3>1, <3>2 DEF CommitPass, TypeOK
    <3> QED BY <3>2, <3>3 DEF PendingGates
  <2> QED BY <2>2, <2>4, <2>5, <2>6
<1> HIDE DEF ByDecision
<1>2. Spec => [][ByDecision]_vars
  BY <1>1, OneOperator, PTL DEF Spec
<1> QED BY <1>2 DEF ByDecision, LeavesReviewByDecision

\* Only start_stage puts a stage in progress.
LEMMA InProgressKept ==
  ASSUME TypeOK, NEW r \in Requests, Begin(r) \/ Continue(r) \/ Abort(r), ~CommitStart(r),
         NEW s \in Stage, runtime'[s] = "in_progress"
  PROVE  runtime[s] = "in_progress"
<1> USE DEF config, rows, locals
<1>0. at[r] \in Stage /\ runtime \in [Stage -> RuntimeStatus]
  BY DEF TypeOK
<1>1. CASE Begin(r) \/ Abort(r)
  BY <1>1 DEF Begin, BeginStartProject, BeginActivate, BeginExecute, BeginDecide,
     BeginAdvance, BeginRollback, BeginRegenerate, Abort
<1>2. CASE CompleteAndAdvance(r) \/ CommitPass(r)
  BY <1>2, PassingStep DEF CompleteAndAdvance, CommitPass
<1>3. CASE CommitAdvance(r)
  BY <1>0, <1>3, AdvanceOnlyReadies DEF CommitAdvance
<1>4. CASE CommitActivate(r)
  <2>1. runtime' = runtime \/ \E n \in Stage : runtime' = [runtime EXCEPT ![n] = "ready"]
    BY <1>4 DEF CommitActivate
  <2> QED BY <1>0, <2>1
<1>5. CASE FailStage(r) \/ CommitRegenerate(r) \/ CommitStartProject(r)
  BY <1>0, <1>5 DEF FailStage, CommitRegenerate, CommitStartProject, Flush
<1>6. CASE CompleteForReview(r) \/ CommitReject(r)
  BY <1>0, <1>6 DEF CompleteForReview, CommitReject, Pending
<1>7. CASE CommitRollback(r)
  BY <1>0, <1>7 DEF CommitRollback, Flush
<1>8. CASE ReloadStage(r) \/ RefuseComplete(r) \/
           \E o \in {"SUCCESS", "PARTIAL", "FAILED"}, a \in {"none", "fresh"} :
             FinishSkills(r, o, a)
  BY <1>8 DEF ReloadStage, RefuseComplete, FinishSkills
<1> QED
  BY <1>1, <1>2, <1>3, <1>4, <1>5, <1>6, <1>7, <1>8 DEF Continue

\* The request that put a stage in progress still serves it.
Executed ==
  \A s \in Stage : runtime[s] = "in_progress" =>
    current = s /\ \E r \in Requests : at[r] = s /\ pc[r] \in InStage

LEMMA ExecutedStep ==
  ASSUME MaxInFlight = 1, Faulty = {}, TypeOK, SingleInv, Executed, [Next]_vars
  PROVE  Executed'
<1> USE DEF InStage
<1>1. CASE UNCHANGED vars
  BY <1>1 DEF vars, rows, locals, Executed
<1>2. ASSUME NEW r \in Requests, Begin(r) \/ Continue(r) \/ Abort(r),
             NEW s \in Stage, runtime'[s] = "in_progress"
      PROVE  current' = s /\ \E q \in Requests : at'[q] = s /\ pc'[q] \in InStage
  <2>0. at[r] \in Stage
    BY DEF TypeOK
  <2>1. InFlight \subseteq {r} /\ (Begin(r) => InFlight = {})
    BY <1>2, OneServed DEF SingleInv
  <2>2. CASE CommitStart(r)
    <3>1. Synced(r)
      BY <2>2 DEF CommitStart, InFlight, SingleInv
    <3>2. current' = at[r] /\ at'[r] = at[r] /\ pc'[r] = "running"
      BY <2>0, <2>2, <3>1 DEF CommitStart, Flush, LoadCurrent, Synced, TypeOK
    <3>3. s = at[r]
      <4>1. ASSUME runtime[s] = "in_progress" PROVE FALSE
        <5>1. PICK q \in Requests : pc[q] \in InStage
          BY <4>1 DEF Executed
        <5>2. q = r
          BY <2>1, <5>1 DEF InFlight
        <5> QED BY <2>2, <5>1, <5>2 DEF CommitStart
      <4> QED BY <1>2, <2>2, <4>1 DEF CommitStart, TypeOK
    <3> QED BY <3>2, <3>3
  <2>3. CASE ~CommitStart(r)
    <3>1. runtime[s] = "in_progress"
      BY <1>2, <2>3, InProgressKept
    <3>2. current = s /\ at[r] = s /\ pc[r] \in InStage /\ r \in InFlight
      <4>1. PICK q \in Requests : at[q] = s /\ pc[q] \in InStage
        BY <3>1 DEF Executed
      <4>2. q \in InFlight
        BY <4>1 DEF InFlight
      <4> QED BY <2>1, <3>1, <4>1, <4>2 DEF Executed
    <3>3. Load(r, s) = "in_progress" /\ cache[r][s] \in {Absent, "in_progress"}
      BY <3>1, <3>2 DEF SingleInv, Synced, Load, Stage
    <3>4. CASE ReloadStage(r) \/ \E o \in {"SUCCESS", "PARTIAL", "FAILED"}, a \in {"none", "fresh"} :
                                   FinishSkills(r, o, a)
      BY <3>2, <3>4 DEF ReloadStage, FinishSkills, rows, TypeOK
    <3>5. ~RefuseComplete(r)
      BY <3>2, <3>3 DEF RefuseComplete
    <3>6. ~FailStage(r)
      BY <1>2, <2>0, <3>2, <3>3 DEF FailStage, Flush, TypeOK, Absent
    <3>7. ~CompleteForReview(r)
      BY <1>2, <2>0, <3>2 DEF CompleteForReview, Pending, TypeOK
    <3>8. ~CompleteAndAdvance(r)
      BY <1>2, <3>2, PassingStep DEF CompleteAndAdvance
    <3>9. ~Begin(r) /\ ~Abort(r)
      BY <2>1, <3>2 DEF Abort
    <3> QED
      BY <1>2, <2>3, <3>2, <3>4, <3>5, <3>6, <3>7, <3>8, <3>9
      DEF Continue, CommitPass, CommitReject, CommitAdvance, CommitRollback,
         CommitRegenerate, CommitStartProject, CommitActivate
  <2> QED BY <2>2, <2>3
<1> QED BY <1>1, <1>2 DEF Next, Executed

\* Without failures, a stage one operator put in progress is the project's
\* current stage and is executed by exactly one request.
THEOREM StageIsExecuted ==
  ASSUME MaxInFlight = 1, Faulty = {}
  PROVE  Spec => []InProgressIsExecuted
<1>1. Init => Executed
  BY DEF Init, Executed
<1>2. TypeOK /\ SingleInv /\ Executed /\ [Next]_vars => Executed'
  BY ExecutedStep
<1>3. SingleInv /\ Executed => InProgressIsExecuted
  <2> SUFFICES ASSUME SingleInv, Executed, NEW s \in Stage, runtime[s] = "in_progress"
               PROVE  Cardinality(Executors(s)) = 1 /\ current = s
    BY DEF InProgressIsExecuted
  <2>1. PICK r \in Requests : at[r] = s /\ pc[r] \in InStage
    BY DEF Executed
  <2>2. \A q \in Executors(s) : q = r
    BY <2>1 DEF SingleInv, Alone, InFlight, Executors, InStage
  <2>3. Executors(s) = {r}
    BY <2>1, <2>2 DEF Executors, InStage
  <2>4. Cardinality({r}) = 1
    BY FS_Singleton
  <2> QED BY <2>3, <2>4 DEF Executed
<1> QED BY <1>1, <1>2, <1>3, OneOperator, PTL DEF Spec

-----------------------------------------------------------------------------
(***************************************************************************)
(* Both writers of gate_decisions: GateSpec.                               *)
(*                                                                         *)
(* The argument: a call that has decided a gate of a stage stays done, so  *)
(* it excuses the stage for ever; and as long as no call has, the stage    *)
(* behaves as it does without calls, as shown above step by step and stage *)
(* by stage.                                                               *)
(***************************************************************************)
\* A call that works on a gate has chosen one and a decision.
Working(c) ==
  call[c].step \in {"applying", "resolving"} =>
    call[c].by \in Requests /\ call[c].decision # "none"

\* The application comes before the bypass, and belongs to the gate of the call.
Applied(c) ==
  /\ call[c].step = "new" => bypass[c] = "none"
  /\ call[c].step = "resolving" /\ call[c].decision = "bypassed" => bypass[c] # "none"

CallsOK == \A c \in Calls : Working(c) /\ Applied(c)

-----------------------------------------------------------------------------
LEMMA CallsInit == GateInit => GateTypeOK /\ CallsOK
<1> SUFFICES ASSUME GateInit PROVE GateTypeOK /\ CallsOK
  OBVIOUS
<1>1. TypeOK
  BY TypeInit DEF GateInit
<1>2. 1 \in Stage
  BY NAssumption DEF Stage
<1>3. call \in [Calls -> Call] /\ bypass \in [Calls -> BypassStatus]
  BY <1>2 DEF GateInit, Call, Decision, GateStatus, BypassStatus
<1>4. CallsOK
  BY DEF GateInit, CallsOK, Working, Applied
<1> QED BY <1>1, <1>3, <1>4 DEF GateTypeOK

\* A step of a call: it takes a new call, or records an application, or
\* writes the gate, or closes a bypass, or fails.
LEMMA ServeCases ==
  ASSUME NEW c \in Calls, Serve(c)
  PROVE  \/ \E g \in Requests \X Stage, d \in Decision \ {"none"}, step \in {"applying", "resolving"} :
              (d = "bypassed" => step = "applying") /\ g \in Persisted /\ TakeCall(c, g, d, step)
         \/ CommitApplication(c) \/ CommitResolve(c) \/ ApproveBypass(c) \/ FailCall(c)
BY DEF Serve, BeginResolve, BeginBypass, Decision

LEMMA TakeType ==
  ASSUME GateTypeOK, CallsOK, NEW c \in Calls, NEW g \in Requests \X Stage,
         NEW d \in Decision \ {"none"}, NEW step \in {"applying", "resolving"},
         d = "bypassed" => step = "applying",
         TakeCall(c, g, d, step)
  PROVE  GateTypeOK' /\ CallsOK'
<1>1. gate[g[1]][g[2]] \in GateStatus /\ g[1] \in Requests /\ g[2] \in Stage
  BY DEF GateTypeOK, TypeOK
<1>2. [step |-> step, by |-> g[1], stage |-> g[2],
       decision |-> d, loaded |-> gate[g[1]][g[2]]] \in Call
  BY <1>1 DEF Call
<1>3. TypeOK'
  BY DEF TakeCall, GateTypeOK, TypeOK, vars, config, rows, locals
<1>4. GateTypeOK'
  BY <1>2, <1>3 DEF TakeCall, GateTypeOK
<1>5. CallsOK'
  BY <1>1 DEF TakeCall, CallsOK, Working, Applied, GateTypeOK
<1> QED BY <1>4, <1>5

\* Changes of single fields of a call.
LEMMA CallChanged ==
  ASSUME NEW x \in Call
  PROVE  /\ [x EXCEPT !.step = "resolving"] \in Call
         /\ [x EXCEPT !.step = "done"] \in Call
         /\ [x EXCEPT !.step = "done", !.decision = "none"] \in Call
BY DEF Call, Decision

LEMMA CallsNext == GateTypeOK /\ CallsOK /\ [GateNext]_allVars => GateTypeOK' /\ CallsOK'
<1> SUFFICES ASSUME GateTypeOK, CallsOK, [GateNext]_allVars PROVE GateTypeOK' /\ CallsOK'
  OBVIOUS
<1>1. CASE [Next]_vars /\ UNCHANGED apiVars
  BY <1>1, TypeStep DEF GateTypeOK, CallsOK, Working, Applied, apiVars
<1>2. ASSUME NEW c \in Calls, CommitApplication(c) PROVE GateTypeOK' /\ CallsOK'
  <2>1. TypeOK'
    BY <1>2 DEF CommitApplication, GateTypeOK, TypeOK, vars, config, rows, locals
  <2>2. GateTypeOK'
    BY <1>2, <2>1, CallChanged DEF CommitApplication, GateTypeOK, BypassStatus
  <2>3. CallsOK'
    BY <1>2 DEF CommitApplication, GateTypeOK, CallsOK, Working, Applied, Call
  <2> QED BY <2>2, <2>3
<1>3. ASSUME NEW c \in Calls, CommitResolve(c) PROVE GateTypeOK' /\ CallsOK'
  <2>1. /\ call[c].by \in Requests /\ call[c].stage \in Stage
        /\ call[c].decision \in Decision \ {"none"}
    BY <1>3 DEF CommitResolve, CallsOK, Working, GateTypeOK, Call
  <2>2. StatusOf(call[c].decision) \in GateStatus
    BY <2>1 DEF StatusOf, Decision, GateStatus
  <2>3. gate' \in [Requests -> [Stage -> GateStatus]]
    BY <1>3, <2>1, <2>2 DEF CommitResolve, Flush, GateTypeOK, TypeOK
  <2>4. TypeOK'
    BY <1>3, <2>3 DEF CommitResolve, GateTypeOK, TypeOK, config, locals
  <2>5. GateTypeOK'
    BY <1>3, <2>4, CallChanged DEF CommitResolve, GateTypeOK
  <2>6. CallsOK'
    BY <1>3 DEF CommitResolve, GateTypeOK, CallsOK, Working, Applied, Call
  <2> QED BY <2>5, <2>6
<1>4. ASSUME NEW c \in Calls, ApproveBypass(c) PROVE GateTypeOK' /\ CallsOK'
  <2>1. TypeOK'
    BY <1>4 DEF ApproveBypass, GateTypeOK, TypeOK, vars, config, rows, locals
  <2> QED
    BY <1>4, <2>1 DEF ApproveBypass, GateTypeOK, BypassStatus, CallsOK, Working, Applied
<1>5. ASSUME NEW c \in Calls, FailCall(c) PROVE GateTypeOK' /\ CallsOK'
  <2>1. TypeOK'
    BY <1>5 DEF FailCall, GateTypeOK, TypeOK, vars, config, rows, locals
  <2>2. GateTypeOK'
    BY <1>5, <2>1, CallChanged DEF FailCall, GateTypeOK
  <2>3. CallsOK'
    BY <1>5 DEF FailCall, GateTypeOK, CallsOK, Working, Applied, Call
  <2> QED BY <2>2, <2>3
<1> QED
  BY <1>1, <1>2, <1>3, <1>4, <1>5, ServeCases, TakeType DEF GateNext, allVars

\* Every variable keeps its type, whatever both writers do.
THEOREM GatesTyped == GateSpec => []GateTypeOK
<1> QED BY CallsInit, CallsNext, PTL DEF GateSpec

-----------------------------------------------------------------------------
(* What a step of a call changes *)

\* A decided call stays decided.
LEMMA DecidedStays ==
  ASSUME GateTypeOK, [GateNext]_allVars, NEW s \in Stage, NEW D \in SUBSET (Decision \ {"none"})
  PROVE  Decided(s, D) \subseteq Decided(s, D)'
<1>1. CASE UNCHANGED call
  BY <1>1 DEF Decided
<1>2. ASSUME NEW c \in Calls, Serve(c) PROVE Decided(s, D) \subseteq Decided(s, D)'
  <2>1. CASE call[c].step = "done"
    <3>1. UNCHANGED call
      BY <1>2, <2>1, ServeCases
      DEF TakeCall, CommitApplication, CommitResolve, ApproveBypass, FailCall
    <3> QED BY <1>1, <3>1
  <2>2. CASE call[c].step # "done"
    <3>1. \A d \in Calls : d # c => call'[d] = call[d]
      BY <1>2, ServeCases
      DEF TakeCall, CommitApplication, CommitResolve, ApproveBypass, FailCall, GateTypeOK
    <3> QED BY <2>2, <3>1 DEF Decided
  <2> QED BY <2>1, <2>2
<1> QED BY <1>1, <1>2 DEF GateNext, allVars, apiVars

\* A call changes nothing of the pipeline but gates.
LEMMA ServeLeaves ==
  ASSUME NEW c \in Calls, Serve(c)
  PROVE  /\ runtime' = runtime /\ strategy' = strategy
         /\ run' = run /\ pc' = pc /\ UNCHANGED locals
BY ServeCases
DEF TakeCall, CommitApplication, CommitResolve, ApproveBypass, FailCall, vars, config, rows

\* A gate that a call changes is the one the call then has decided.
LEMMA ServeGate ==
  ASSUME GateTypeOK, CallsOK, NEW c \in Calls, Serve(c),
         NEW q \in Requests, NEW s \in Stage, gate'[q][s] # gate[q][s]
  PROVE  /\ CommitResolve(c) /\ q = call[c].by /\ s = call[c].stage
         /\ call[c].decision \in Decision \ {"none"}
         /\ gate'[q][s] = StatusOf(call[c].decision)
         /\ \A D : call[c].decision \in D => Decided(s, D)' # {}
<1>1. CommitResolve(c)
  <2>1. CASE CommitResolve(c)
    BY <2>1
  <2>2. CASE ~CommitResolve(c)
    <3>1. gate' = gate
      BY <2>2, ServeCases DEF TakeCall, CommitApplication, ApproveBypass, FailCall, vars, rows
    <3> QED BY <3>1
  <2> QED BY <2>1, <2>2
<1>2. /\ call[c].by \in Requests /\ call[c].stage \in Stage
      /\ call[c].decision \in Decision \ {"none"}
  BY <1>1 DEF CommitResolve, CallsOK, Working, GateTypeOK, Call
<1>3. /\ call'[c].step = "done" /\ call'[c].stage = call[c].stage
      /\ call'[c].decision = call[c].decision
  BY <1>1 DEF CommitResolve, GateTypeOK, Call
<1>4. q = call[c].by /\ s = call[c].stage /\ gate'[q][s] = StatusOf(call[c].decision)
  BY <1>1, <1>2 DEF CommitResolve, Flush, GateTypeOK, TypeOK
<1>5. ASSUME NEW D, call[c].decision \in D PROVE c \in Decided(s, D)'
  BY <1>3, <1>4, <1>5 DEF Decided
<1> QED BY <1>1, <1>2, <1>4, <1>5

-----------------------------------------------------------------------------
(* What both writers keep *)

\* A stage under review without a pending gate lost it to a call of /gates.
THEOREM OnlyCallsStrand == GateSpec => []StrandedByCall
<1> DEFINE D == {"approved", "rejected", "bypassed"}
<1>1. GateInit => StrandedByCall
  BY DEF GateInit, Init, StrandedByCall, Pending
<1>2. GateTypeOK /\ CallsOK /\ StrandedByCall /\ [GateNext]_allVars => StrandedByCall'
  <2> SUFFICES ASSUME GateTypeOK, CallsOK, StrandedByCall, [GateNext]_allVars, NEW s \in Stage,
                      runtime'[s] \in Pending, Decided(s, D)' = {}
               PROVE  \E q \in Requests : gate'[q][s] = "pending"
    BY DEF StrandedByCall, PendingGates
  <2>1. Decided(s, D) = {}
    BY DecidedStays DEF Decision
  <2>2. runtime[s] \in Pending => \E q \in Requests : gate[q][s] = "pending"
    BY <2>1 DEF StrandedByCall, PendingGates
  <2>3. CASE [Next]_vars
    BY <2>2, <2>3, ReviewStep DEF GateTypeOK
  <2>4. ASSUME NEW c \in Calls, Serve(c)
        PROVE  \E q \in Requests : gate'[q][s] = "pending"
    <3>1. PICK q \in Requests : gate[q][s] = "pending"
      BY <2>2, <2>4, ServeLeaves
    <3>2. gate'[q][s] # "pending" => call[c].decision \notin D
      BY <2>4, <3>1, ServeGate
    <3>3. gate'[q][s] = "pending"
      BY <2>4, <3>1, <3>2, ServeGate DEF StatusOf, Decision
    <3> QED BY <3>3
  <2> QED BY <2>3, <2>4 DEF GateNext, allVars
<1> QED BY <1>1, <1>2, CallsInit, CallsNext, PTL DEF GateSpec

\* Two pending gates of a stage mean that a call has reopened one.
THEOREM OnlyRetriesDouble == GateSpec => []DoubledByRetry
<1>1. GateInit => DoubledByRetry
  BY DEF GateInit, Init, DoubledByRetry, PendingGates
<1>2. GateTypeOK /\ CallsOK /\ DoubledByRetry /\ [GateNext]_allVars => DoubledByRetry'
  <2> SUFFICES ASSUME GateTypeOK, CallsOK, DoubledByRetry, [GateNext]_allVars, NEW s \in Stage,
                      NEW p \in Requests, NEW q \in Requests,
                      gate'[p][s] = "pending", gate'[q][s] = "pending",
                      Decided(s, {"retry"})' = {}
               PROVE  p = q
    BY DEF DoubledByRetry, PendingGates
  <2>1. Decided(s, {"retry"}) = {}
    BY DecidedStays DEF Decision
  <2>2. \A x, y \in Requests : gate[x][s] = "pending" /\ gate[y][s] = "pending" => x = y
    BY <2>1 DEF DoubledByRetry, PendingGates
  <2>3. CASE [Next]_vars
    BY <2>2, <2>3, UniqueStep DEF GateTypeOK
  <2>4. ASSUME NEW c \in Calls, Serve(c) PROVE p = q
    <3>1. ASSUME NEW x \in Requests, gate'[x][s] = "pending" PROVE gate[x][s] = "pending"
      <4>1. gate[x][s] # "pending" => call[c].decision # "retry"
        BY <2>4, <3>1, ServeGate
      <4> QED BY <2>4, <3>1, <4>1, ServeGate DEF StatusOf, Decision
    <3> QED BY <2>2, <3>1
  <2> QED BY <2>3, <2>4 DEF GateNext, allVars
<1> QED BY <1>1, <1>2, CallsInit, CallsNext, PTL DEF GateSpec

\* The sign-off of a passed stage disappears only when a call overrules it.
THEOREM SignOffKept == GateSpec => []SignedOffUnlessOverruled
<1> DEFINE D == {"rejected", "retry", "bypassed"}
<1>1. GateInit => SignedOffUnlessOverruled
  BY DEF GateInit, Init, SignedOffUnlessOverruled
<1>2. GateTypeOK /\ CallsOK /\ SignedOffUnlessOverruled /\ [GateNext]_allVars
        => SignedOffUnlessOverruled'
  <2> SUFFICES ASSUME GateTypeOK, CallsOK, SignedOffUnlessOverruled, [GateNext]_allVars,
                      NEW s \in Stage, runtime'[s] = "passed", NeedsDecision(s)',
                      Decided(s, D)' = {}
               PROVE  \E q \in Requests : gate'[q][s] = "passed"
    BY DEF SignedOffUnlessOverruled
  <2>1. Decided(s, D) = {}
    BY DecidedStays DEF Decision
  <2>2. strategy' = strategy
    BY StrategiesFixed, ServeLeaves DEF GateNext, allVars, vars, config
  <2>3. NeedsDecision(s)
    BY <2>2 DEF NeedsDecision
  <2>4. runtime[s] = "passed" => \E q \in Requests : gate[q][s] = "passed"
    BY <2>1, <2>3 DEF SignedOffUnlessOverruled
  <2>5. CASE [Next]_vars
    BY <2>3, <2>4, <2>5, SignOffStep DEF GateTypeOK
  <2>6. ASSUME NEW c \in Calls, Serve(c)
        PROVE  \E q \in Requests : gate'[q][s] = "passed"
    <3>1. PICK q \in Requests : gate[q][s] = "passed"
      BY <2>4, <2>6, ServeLeaves
    <3>2. gate'[q][s] # "passed" => call[c].decision \notin D
      BY <2>6, <3>1, ServeGate
    <3>3. gate'[q][s] = "passed"
      BY <2>6, <3>1, <3>2, ServeGate DEF StatusOf, Decision
    <3> QED BY <3>3
  <2> QED BY <2>5, <2>6 DEF GateNext, allVars
<1> QED BY <1>1, <1>2, CallsInit, CallsNext, PTL DEF GateSpec

\* Calls make no stage pass without work, and no request goes back to a stage:
\* a decision of /gates only changes what the orchestrator's decision finds.
THEOREM WorkWithBothWriters == GateSpec => [](ExecutesInOrder /\ ReviewedWorkRan)
<1> DEFINE Kept == ExecutesInOrder /\ WorkInv
<1>1. GateInit => Kept
  BY WorkInit DEF GateInit
<1>2. GateTypeOK /\ Kept /\ [GateNext]_allVars => Kept'
  <2> SUFFICES ASSUME GateTypeOK, Kept, [GateNext]_allVars PROVE Kept'
    OBVIOUS
  <2>1. CASE [Next]_vars
    BY <2>1, OrderStep, WorkStep DEF GateTypeOK
  <2>2. ASSUME NEW c \in Calls, Serve(c) PROVE Kept'
    BY <2>2, ServeLeaves DEF locals, ExecutesInOrder, InOrder, WorkInv, ReviewedWorkRan,
       DecidedWorkRan, WorkRan
  <2> QED BY <2>1, <2>2 DEF GateNext, allVars
<1>3. Kept => ExecutesInOrder /\ ReviewedWorkRan
  BY DEF WorkInv
<1> QED BY <1>1, <1>2, <1>3, CallsInit, CallsNext, PTL DEF GateSpec

\* The orchestrator bypasses no gate.
LEMMA NoBypassByRequest ==
  ASSUME TypeOK, [Next]_vars, NEW q \in Requests, NEW s \in Stage, gate'[q][s] = "bypassed"
  PROVE  gate[q][s] = "bypassed"
<1>1. CASE gate' = gate
  BY <1>1
<1>2. ASSUME NEW r \in Requests, CompleteForReview(r) PROVE gate[q][s] = "bypassed"
  BY <1>2 DEF CompleteForReview, CreateGate, TypeOK
<1>3. ASSUME NEW r \in Requests, CommitPass(r) \/ CommitReject(r) PROVE gate[q][s] = "bypassed"
  <2>1. \E d \in {"passed", "rejected"} : gate' = [gate EXCEPT ![sawGate[r]][at[r]] = d]
    BY <1>3 DEF CommitPass, CommitReject
  <2> QED BY <2>1 DEF TypeOK
<1> QED BY <1>1, <1>2, <1>3, StepKinds DEF Quiet, CompleteAndAdvance

\* No gate is bypassed without an application on record.
THEOREM BypassApplied == GateSpec => []BypassOnRecord
<1>1. GateInit => BypassOnRecord
  BY DEF GateInit, Init, BypassOnRecord
<1>2. GateTypeOK /\ CallsOK /\ BypassOnRecord /\ [GateNext]_allVars => BypassOnRecord'
  <2> SUFFICES ASSUME GateTypeOK, CallsOK, BypassOnRecord, [GateNext]_allVars,
                      NEW q \in Requests, NEW s \in Stage, gate'[q][s] = "bypassed"
               PROVE  \E c \in Calls : bypass'[c] # "none" /\ call'[c].by = q /\ call'[c].stage = s
    BY DEF BypassOnRecord
  <2>1. ASSUME NEW c \in Calls, bypass[c] # "none"
        PROVE  bypass'[c] # "none" /\ call'[c].by = call[c].by /\ call'[c].stage = call[c].stage
    <3>1. CASE UNCHANGED apiVars
      BY <2>1, <3>1 DEF apiVars
    <3>2. ASSUME NEW d \in Calls, Serve(d)
          PROVE  bypass'[c] # "none" /\ call'[c].by = call[c].by /\ call'[c].stage = call[c].stage
      <4>1. call \in [Calls -> Call] /\ bypass \in [Calls -> BypassStatus] /\ call[c].step # "new"
        BY <2>1 DEF GateTypeOK, CallsOK, Applied
      <4>2. bypass'[c] # "none"
        BY <2>1, <3>2, <4>1, ServeCases
        DEF TakeCall, CommitApplication, CommitResolve, ApproveBypass, FailCall
      <4>3. call'[c].by = call[c].by /\ call'[c].stage = call[c].stage
        <5>1. CASE d # c
          BY <3>2, <4>1, <5>1, ServeCases
          DEF TakeCall, CommitApplication, CommitResolve, ApproveBypass, FailCall
        <5>2. CASE d = c
          <6>1. ~ \E g, e, step : TakeCall(c, g, e, step)
            BY <4>1 DEF TakeCall
          <6>2. CommitApplication(c) \/ CommitResolve(c) \/ ApproveBypass(c) \/ FailCall(c)
            BY <3>2, <5>2, <6>1, ServeCases
          <6>3. CASE CommitApplication(c) \/ CommitResolve(c)
            BY <4>1, <6>3 DEF CommitApplication, CommitResolve, Call
          <6>4. CASE ApproveBypass(c)
            BY <6>4 DEF ApproveBypass
          <6>5. CASE FailCall(c)
            BY <4>1, <6>5 DEF FailCall, Call
          <6> QED BY <6>2, <6>3, <6>4, <6>5
        <5> QED BY <5>1, <5>2
      <4> QED BY <4>2, <4>3
    <3> QED BY <3>1, <3>2 DEF GateNext, allVars
  <2>2. CASE gate[q][s] = "bypassed"
    BY <2>1, <2>2 DEF BypassOnRecord
  <2>3. CASE gate[q][s] # "bypassed"
    <3>1. PICK c \in Calls : Serve(c)
      BY <2>3, NoBypassByRequest DEF GateNext, allVars, GateTypeOK
    <3>2. /\ CommitResolve(c) /\ q = call[c].by /\ s = call[c].stage
          /\ call[c].decision = "bypassed"
      BY <2>3, <3>1, ServeGate DEF StatusOf, Decision
    <3>3. bypass[c] # "none"
      BY <3>2 DEF CommitResolve, CallsOK, Applied
    <3> QED BY <2>1, <3>2, <3>3
  <2> QED BY <2>2, <2>3
<1> QED BY <1>1, <1>2, CallsInit, CallsNext, PTL DEF GateSpec
=============================================================================
