--------------------------- MODULE StagePipeline ---------------------------
(***************************************************************************)
(* The runtime of a project's stage pipeline: StageOrchestrator and        *)
(* StageGateController, driven by HTTP requests that run concurrently in   *)
(* one asyncio process over one SQLite database.                           *)
(*                                                                         *)
(* Every request has a database session of its own.  A handler loads the   *)
(* rows it needs, decides on what it loaded, and writes at a flush; from   *)
(* its first flush to its commit it holds SQLite's write lock, so a        *)
(* request is a few atomic steps: what it reads before the first flush     *)
(* (Begin..., ReloadStage) and one step per commit.  Whatever other        *)
(* requests commit in between is not seen again: the session answers from  *)
(* its identity map (expire_on_commit=False), and a flush writes only the  *)
(* attributes that differ from what was loaded.                            *)
(*                                                                         *)
(* Left out: timestamps, ProjectStage.execution_status (no guard of the    *)
(* orchestrator reads it), events, logs, and the strategy updates of       *)
(* ProjectService, so the strategies below are parameters of a behaviour.  *)
(***************************************************************************)
EXTENDS Naturals, FiniteSets

CONSTANTS
  N,                  \* number of stages of the project
  Requests,           \* the HTTP requests of a behaviour, each served once
  Faulty,             \* those that may end with an exception (locked database, crash)
  MaxInFlight,        \* how many are served at the same time (connection pool)
  GateRequired,       \* stages with is_gate_required
  Skippable,          \* stages with skippable
  ProjectStrategies,  \* project execution strategies to consider
  StageStrategies     \* stage execution strategies to consider

Stage == 1 .. N
Strategy == {"full_auto", "semi_auto", "full_manual"}

ASSUME NAssumption == N \in Nat \ {0}
ASSUME ParameterAssumption ==
  /\ Faulty \subseteq Requests
  /\ MaxInFlight \in Nat \ {0}
  /\ GateRequired \subseteq Stage
  /\ Skippable \subseteq Stage
  /\ ProjectStrategies \subseteq Strategy
  /\ StageStrategies \subseteq Strategy

RuntimeStatus == {"not_started", "ready", "in_progress", "review_pending",
                  "gate_pending", "passed", "blocked", "skipped"}
RunStatus     == {"none", "RUNNING", "SUCCESS", "PARTIAL", "FAILED"}
GateStatus    == {"none", "pending", "passed", "rejected", "bypassed"}
Absent        == "absent"   \* no object for the stage row in the identity map
NotHeld       == N + 1      \* no frame holds the Project object

Startable == {"not_started", "ready", "blocked"}
Pending   == {"review_pending", "gate_pending"}
Succeeded == {"SUCCESS", "PARTIAL"}

VARIABLES
  (* Database rows *)
  projectActive,    \* Project.project_status is Active (else Draft)
  projectStrategy,  \* Project.execution_strategy
  current,          \* Project.current_stage_id, 0 for null
  strategy,         \* ProjectStage.execution_strategy
  runtime,          \* ProjectStage.runtime_status
  run,              \* SkillExecution rows of the batch a request started on a stage
  artifacts,        \* ArtifactFile rows registered by that batch
  gate,             \* the GateDecision row a request created for a stage
  (* Request locals *)
  pc,               \* where the handler of the request is
  at,               \* the stage it works on
  cache,            \* runtime_status of the ProjectStage objects it holds
  pinned,           \* does a frame keep its stage object alive while skills run
  verdict,          \* gate decision taken, or outcome of the skills
  sawGate,          \* the pending gate it loaded
  sawArtifacts,     \* the artifact rows a rollback loaded
  heldCurrent       \* current_stage_id of the Project object its frames hold

config == <<projectStrategy, strategy>>
rows   == <<projectActive, current, runtime, run, artifacts, gate>>
locals == <<at, cache, pinned, verdict, sawGate, sawArtifacts, heldCurrent>>
vars   == <<config, rows, pc, locals>>

PC == {"new", "starting", "running", "ran", "ending", "deciding", "advancing",
       "rolling_back", "regenerating", "starting_project", "activating", "done"}

TypeOK ==
  /\ projectActive \in BOOLEAN
  /\ projectStrategy \in Strategy
  /\ current \in Stage \cup {0}
  /\ strategy \in [Stage -> Strategy]
  /\ runtime \in [Stage -> RuntimeStatus]
  /\ run \in [Requests -> [Stage -> RunStatus]]
  /\ artifacts \in [Requests -> [Stage -> {"none", "fresh", "stale"}]]
  /\ gate \in [Requests -> [Stage -> GateStatus]]
  /\ pc \in [Requests -> PC]
  /\ at \in [Requests -> Stage]
  /\ cache \in [Requests -> [Stage -> RuntimeStatus \cup {Absent}]]
  /\ pinned \in [Requests -> BOOLEAN]
  /\ verdict \in [Requests -> {"none", "pass", "reject", "ok", "failed"}]
  /\ sawGate \in [Requests -> Requests]
  /\ sawArtifacts \in [Requests -> SUBSET (Requests \X Stage)]
  /\ heldCurrent \in [Requests -> 0 .. N + 1]

EmptyMap == [s \in Stage |-> Absent]

Init ==
  /\ projectActive = FALSE
  /\ projectStrategy \in ProjectStrategies
  /\ strategy \in [Stage -> StageStrategies]
  /\ current = 0
  /\ runtime = [s \in Stage |-> "not_started"]
  /\ run = [r \in Requests |-> [s \in Stage |-> "none"]]
  /\ artifacts = [r \in Requests |-> [s \in Stage |-> "none"]]
  /\ gate = [r \in Requests |-> [s \in Stage |-> "none"]]
  /\ pc = [r \in Requests |-> "new"]
  /\ at = [r \in Requests |-> 1]
  /\ cache = [r \in Requests |-> EmptyMap]
  /\ pinned = [r \in Requests |-> FALSE]
  /\ verdict = [r \in Requests |-> "none"]
  /\ sawGate = [r \in Requests |-> r]
  /\ sawArtifacts = [r \in Requests |-> {}]
  /\ heldCurrent = [r \in Requests |-> NotHeld]

-----------------------------------------------------------------------------
(* Sessions and rows *)

InFlight == {r \in Requests : pc[r] \notin {"new", "done"}}

\* session.get: the object of the identity map if there is one, else the row.
Load(r, s) == IF cache[r][s] = Absent THEN runtime[s] ELSE cache[r][s]

LoadCurrent(r) == IF heldCurrent[r] = NotHeld THEN current ELSE heldCurrent[r]

\* session.flush: an UPDATE is emitted only for a changed attribute.
Flush(row, loaded, new) == IF new = loaded THEN row ELSE new

PendingGates(s) == {q \in Requests : gate[q][s] = "pending"}

\* Mutant of NextStages: ">=" instead of ">".
NextStagesInclusive(s) == {n \in Stage : n >= s /\ runtime[n] # "skipped"}

\* The order_index > current query; no code path ever stores "skipped".
NextStages(s) == {n \in Stage : n > s /\ runtime[n] # "skipped"}
IsNext(n, s)  == n \in NextStages(s) /\ \A m \in NextStages(s) : n <= m

Arrive(r, step, s) ==
  /\ pc[r] = "new"
  /\ Cardinality(InFlight) < MaxInFlight
  /\ pc' = [pc EXCEPT ![r] = step]
  /\ at' = [at EXCEPT ![r] = s]

\* The response is sent (or the exception raised) and the session closed.
Return(r) ==
  /\ pc' = [pc EXCEPT ![r] = "done"]
  /\ at' = [at EXCEPT ![r] = 1]
  /\ cache' = [cache EXCEPT ![r] = EmptyMap]
  /\ pinned' = [pinned EXCEPT ![r] = FALSE]
  /\ verdict' = [verdict EXCEPT ![r] = "none"]
  /\ sawGate' = [sawGate EXCEPT ![r] = r]
  /\ sawArtifacts' = [sawArtifacts EXCEPT ![r] = {}]
  /\ heldCurrent' = [heldCurrent EXCEPT ![r] = NotHeld]

-----------------------------------------------------------------------------
(* Starting a stage and running its skills *)

\* POST .../execute.  The requirement-studio route keeps the stage object it
\* looked up (keeps = TRUE); the project route passes only the id.
BeginExecute(r, s, keeps) ==
  /\ runtime[s] \in Startable
  /\ Arrive(r, "starting", s)
  /\ cache' = [cache EXCEPT ![r][s] = runtime[s]]
  /\ pinned' = [pinned EXCEPT ![r] = keeps]
  /\ UNCHANGED <<config, rows, verdict, sawGate, sawArtifacts, heldCurrent>>

\* Mutant of CommitStart: the project's current stage is not updated.
CommitStartOnly(r) ==
  LET s == at[r] IN
  /\ pc[r] = "starting"
  /\ runtime' = [runtime EXCEPT ![s] = "in_progress"]
  /\ run' = [run EXCEPT ![r][s] = "RUNNING"]
  /\ cache' = [cache EXCEPT ![r][s] = IF pinned[r] THEN "in_progress" ELSE Absent]
  /\ pc' = [pc EXCEPT ![r] = "running"]
  /\ UNCHANGED <<config, projectActive, current, artifacts, gate,
                 at, pinned, verdict, sawGate, sawArtifacts, heldCurrent>>

\* start_stage: status, current stage and the executions in one commit.
CommitStart(r) ==
  LET s == at[r] IN
  /\ pc[r] = "starting"
  /\ runtime' = [runtime EXCEPT ![s] = "in_progress"]
  /\ current' = Flush(current, LoadCurrent(r), s)
  /\ heldCurrent' = [heldCurrent EXCEPT ![r] = IF @ = NotHeld THEN @ ELSE s]
  /\ run' = [run EXCEPT ![r][s] = "RUNNING"]
  /\ cache' = [cache EXCEPT ![r][s] = IF pinned[r] THEN "in_progress" ELSE Absent]
  /\ pc' = [pc EXCEPT ![r] = "running"]
  /\ UNCHANGED <<config, projectActive, artifacts, gate,
                 at, pinned, verdict, sawGate, sawArtifacts>>

\* Mutant of FinishSkills: the outcome of the primary skills is ignored.
FinishSkillsUnjudged(r, outcome, output) ==
  /\ pc[r] = "running"
  /\ run' = [run EXCEPT ![r][at[r]] = outcome]
  /\ artifacts' = [artifacts EXCEPT ![r][at[r]] = output]
  /\ verdict' = [verdict EXCEPT ![r] = "ok"]
  /\ pc' = [pc EXCEPT ![r] = "ran"]
  /\ UNCHANGED <<config, projectActive, current, runtime, gate,
                 at, cache, pinned, sawGate, sawArtifacts, heldCurrent>>

\* _execute_skill_bindings: primaries in series, auxiliaries only if no
\* primary failed; a failed auxiliary does not fail the stage.
FinishSkills(r, outcome, output) ==
  /\ pc[r] = "running"
  /\ run' = [run EXCEPT ![r][at[r]] = outcome]
  /\ artifacts' = [artifacts EXCEPT ![r][at[r]] = output]
  /\ verdict' = [verdict EXCEPT ![r] = IF outcome \in Succeeded THEN "ok" ELSE "failed"]
  /\ pc' = [pc EXCEPT ![r] = "ran"]
  /\ UNCHANGED <<config, projectActive, current, runtime, gate,
                 at, cache, pinned, sawGate, sawArtifacts, heldCurrent>>

\* complete_stage and _fail_stage look the stage up again; only the former
\* has a guard on its status.
ReloadStage(r) ==
  LET s == at[r] IN
  /\ pc[r] = "ran"
  /\ verdict[r] = "failed" \/ Load(r, s) = "in_progress"
  /\ cache' = [cache EXCEPT ![r][s] = Load(r, s)]
  /\ pc' = [pc EXCEPT ![r] = "ending"]
  /\ UNCHANGED <<config, rows, at, pinned, verdict, sawGate, sawArtifacts, heldCurrent>>

RefuseComplete(r) ==
  /\ pc[r] = "ran"
  /\ verdict[r] = "ok"
  /\ Load(r, at[r]) # "in_progress"
  /\ Return(r)
  /\ UNCHANGED <<config, rows>>

\* Mutants of FailStage: the response is sent without touching the stage; the
\* execution status is written to the runtime status.
FailStageSilently(r) ==
  /\ pc[r] = "ending"
  /\ verdict[r] = "failed"
  /\ Return(r)
  /\ UNCHANGED <<config, rows>>

FailStage(r) ==
  LET s == at[r] IN
  /\ pc[r] = "ending"
  /\ verdict[r] = "failed"
  /\ runtime' = [runtime EXCEPT ![s] = Flush(@, cache[r][s], "blocked")]
  /\ Return(r)
  /\ UNCHANGED <<config, projectActive, current, run, artifacts, gate>>

-----------------------------------------------------------------------------
(* Completing and advancing *)

\* Mutant of CompletedAs: is_gate_required is not looked at.
CompletedUngated(s) ==
  IF strategy[s] = "full_manual" THEN "gate_pending" ELSE "passed"

\* complete_stage: the status a stage is completed with under its strategy.
CompletedAs(s) ==
  CASE strategy[s] = "full_auto"                          -> "passed"
    [] strategy[s] = "semi_auto" /\ s \notin GateRequired -> "passed"
    [] strategy[s] = "semi_auto" /\ s \in GateRequired    -> "review_pending"
    [] strategy[s] = "full_manual"                        -> "gate_pending"

\* Mutants of CreateGate: any earlier gate of the stage is taken for the
\* pending one; a gate is created without looking.
CreateGateOnce(r, s) ==
  gate' = IF \A q \in Requests : gate[q][s] = "none"
            THEN [gate EXCEPT ![r][s] = "pending"] ELSE gate

CreateGateAlways(r, s) == gate' = [gate EXCEPT ![r][s] = "pending"]

\* create_gate returns the pending gate of the stage if there is one.
CreateGate(r, s) ==
  gate' = IF PendingGates(s) = {} THEN [gate EXCEPT ![r][s] = "pending"] ELSE gate

CompleteForReview(r) ==
  LET s == at[r] IN
  /\ pc[r] = "ending"
  /\ verdict[r] = "ok"
  /\ CompletedAs(s) \in Pending
  /\ runtime' = [runtime EXCEPT ![s] = CompletedAs(s)]
  /\ CreateGate(r, s)
  /\ Return(r)
  /\ UNCHANGED <<config, projectActive, current, run, artifacts>>

\* _advance_and_maybe_start, in the commit that makes s "passed": the next
\* stage becomes ready whatever its status was, and in a full_auto project the
\* same request goes on to start it, its object held by the calling frames.
AdvanceFrom(r, s, passed) ==
  \/ /\ NextStages(s) = {}
     /\ runtime' = passed
     /\ Return(r)
  \/ \E n \in NextStages(s) :
       /\ IsNext(n, s)
       /\ runtime' = [passed EXCEPT ![n] = Flush(@, Load(r, n), "ready")]
       /\ \/ /\ projectStrategy # "full_auto"
             /\ Return(r)
          \/ /\ projectStrategy = "full_auto"
             /\ pc' = [pc EXCEPT ![r] = "starting"]
             /\ at' = [at EXCEPT ![r] = n]
             /\ cache' = [cache EXCEPT ![r][n] = "ready"]
             /\ pinned' = [pinned EXCEPT ![r] = TRUE]
             /\ heldCurrent' = [heldCurrent EXCEPT ![r] = LoadCurrent(r)]
             /\ UNCHANGED <<verdict, sawGate, sawArtifacts>>

CompleteAndAdvance(r) ==
  LET s == at[r] IN
  /\ pc[r] = "ending"
  /\ verdict[r] = "ok"
  /\ CompletedAs(s) = "passed"
  /\ AdvanceFrom(r, s, [runtime EXCEPT ![s] = "passed"])
  /\ UNCHANGED <<config, projectActive, current, run, artifacts, gate>>

-----------------------------------------------------------------------------
(* Gate decisions *)

\* Mutant of BeginDecide: the query for the gate forgets status = 'pending'.
BeginDecideAny(r, s, decision, g) ==
  /\ runtime[s] \in Pending
  /\ gate[g][s] # "none"
  /\ Arrive(r, "deciding", s)
  /\ cache' = [cache EXCEPT ![r][s] = runtime[s]]
  /\ verdict' = [verdict EXCEPT ![r] = decision]
  /\ sawGate' = [sawGate EXCEPT ![r] = g]
  /\ UNCHANGED <<config, rows, pinned, sawArtifacts, heldCurrent>>

\* decide_gate, and advance_stage on a stage under review (decision "pass").
BeginDecide(r, s, decision, g) ==
  /\ runtime[s] \in Pending
  /\ g \in PendingGates(s)
  /\ Arrive(r, "deciding", s)
  /\ cache' = [cache EXCEPT ![r][s] = runtime[s]]
  /\ verdict' = [verdict EXCEPT ![r] = decision]
  /\ sawGate' = [sawGate EXCEPT ![r] = g]
  /\ UNCHANGED <<config, rows, pinned, sawArtifacts, heldCurrent>>

\* Mutant of CommitPass: the stage passes, its gate stays pending.
CommitPassUngated(r) ==
  LET s == at[r] IN
  /\ pc[r] = "deciding"
  /\ verdict[r] = "pass"
  /\ AdvanceFrom(r, s, [runtime EXCEPT ![s] = "passed"])
  /\ UNCHANGED <<config, projectActive, current, run, artifacts, gate>>

CommitPass(r) ==
  LET s == at[r] IN
  /\ pc[r] = "deciding"
  /\ verdict[r] = "pass"
  /\ gate' = [gate EXCEPT ![sawGate[r]][s] = "passed"]
  /\ AdvanceFrom(r, s, [runtime EXCEPT ![s] = "passed"])
  /\ UNCHANGED <<config, projectActive, current, run, artifacts>>

CommitReject(r) ==
  LET s == at[r] IN
  /\ pc[r] = "deciding"
  /\ verdict[r] = "reject"
  /\ gate' = [gate EXCEPT ![sawGate[r]][s] = "rejected"]
  /\ runtime' = [runtime EXCEPT ![s] = "blocked"]
  /\ Return(r)
  /\ UNCHANGED <<config, projectActive, current, run, artifacts>>

\* advance_stage on a passed stage: nothing is flushed before the next stage
\* is looked up, so that row is read before the write lock is held.
BeginAdvance(r, s) ==
  /\ runtime[s] = "passed"
  /\ Arrive(r, "advancing", s)
  /\ cache' = [cache EXCEPT ![r] = [n \in Stage |->
                 IF n = s \/ IsNext(n, s) THEN runtime[n] ELSE Absent]]
  /\ UNCHANGED <<config, rows, pinned, verdict, sawGate, sawArtifacts, heldCurrent>>

CommitAdvance(r) ==
  /\ pc[r] = "advancing"
  /\ AdvanceFrom(r, at[r], runtime)
  /\ UNCHANGED <<config, projectActive, current, run, artifacts, gate>>

-----------------------------------------------------------------------------
(* Rollback, regeneration, project start *)

\* Mutant of BeginRollback: artifacts of the stage after the target only.
BeginRollbackOne(r, target) ==
  /\ \E s \in Stage : s > target
  /\ Arrive(r, "rolling_back", target)
  /\ cache' = [cache EXCEPT ![r] = runtime]
  /\ sawArtifacts' = [sawArtifacts EXCEPT ![r] =
       {b \in Requests \X Stage : b[2] = target + 1 /\ artifacts[b[1]][b[2]] # "none"}]
  /\ UNCHANGED <<config, rows, pinned, verdict, sawGate, heldCurrent>>

\* rollback_stage(current, target), for some current after the target.
BeginRollback(r, target) ==
  /\ \E s \in Stage : s > target
  /\ Arrive(r, "rolling_back", target)
  /\ cache' = [cache EXCEPT ![r] = runtime]
  /\ sawArtifacts' = [sawArtifacts EXCEPT ![r] =
       {b \in Requests \X Stage : b[2] > target /\ artifacts[b[1]][b[2]] # "none"}]
  /\ UNCHANGED <<config, rows, pinned, verdict, sawGate, heldCurrent>>

\* Mutant of CommitRollback: the downstream stages keep their status.
CommitRollbackTarget(r) ==
  /\ pc[r] = "rolling_back"
  /\ runtime' = [runtime EXCEPT ![at[r]] = "ready"]
  /\ artifacts' = [q \in Requests |-> [s \in Stage |->
       IF <<q, s>> \in sawArtifacts[r] THEN "stale" ELSE artifacts[q][s]]]
  /\ Return(r)
  /\ UNCHANGED <<config, projectActive, current, run, gate>>

CommitRollback(r) ==
  LET target == at[r]
      After(s) == IF s > target THEN "not_started" ELSE "ready"
  IN
  /\ pc[r] = "rolling_back"
  /\ runtime' = [s \in Stage |->
       IF s < target THEN runtime[s] ELSE Flush(runtime[s], cache[r][s], After(s))]
  /\ artifacts' = [q \in Requests |-> [s \in Stage |->
       IF <<q, s>> \in sawArtifacts[r] THEN "stale" ELSE artifacts[q][s]]]
  /\ Return(r)
  /\ UNCHANGED <<config, projectActive, current, run, gate>>

\* POST .../review with action "regenerate": no guard on the status.
BeginRegenerate(r, s) ==
  /\ Arrive(r, "regenerating", s)
  /\ cache' = [cache EXCEPT ![r][s] = runtime[s]]
  /\ UNCHANGED <<config, rows, pinned, verdict, sawGate, sawArtifacts, heldCurrent>>

CommitRegenerate(r) ==
  LET s == at[r] IN
  /\ pc[r] = "regenerating"
  /\ runtime' = [runtime EXCEPT ![s] = Flush(@, cache[r][s], "ready")]
  /\ Return(r)
  /\ UNCHANGED <<config, projectActive, current, run, artifacts, gate>>

\* start_project loads every stage of the project, looks at the first one and
\* keeps them all while the request runs.  In a full_auto project "ready" is
\* flushed but committed only together with start_stage's "in_progress".
BeginStartProject(r) ==
  /\ runtime[1] \in Startable
  /\ Arrive(r, IF projectStrategy = "full_auto" THEN "starting" ELSE "starting_project", 1)
  /\ cache' = [cache EXCEPT ![r] = runtime]
  /\ pinned' = [pinned EXCEPT ![r] = TRUE]
  /\ heldCurrent' = [heldCurrent EXCEPT ![r] = current]
  /\ UNCHANGED <<config, rows, verdict, sawGate, sawArtifacts>>

CommitStartProject(r) ==
  /\ pc[r] = "starting_project"
  /\ runtime' = [runtime EXCEPT ![1] = Flush(@, cache[r][1], "ready")]
  /\ current' = Flush(current, heldCurrent[r], 1)
  /\ Return(r)
  /\ UNCHANGED <<config, projectActive, run, artifacts, gate>>

\* activate_project reads the project, then activates it; the stages are
\* loaded after that flush, under the write lock.
BeginActivate(r) ==
  /\ ~projectActive
  /\ Arrive(r, "activating", 1)
  /\ heldCurrent' = [heldCurrent EXCEPT ![r] = current]
  /\ UNCHANGED <<config, rows, cache, pinned, verdict, sawGate, sawArtifacts>>

FirstMandatory(s) ==
  s \in Stage \ Skippable /\ \A n \in Stage \ Skippable : s <= n

CommitActivate(r) ==
  /\ pc[r] = "activating"
  /\ projectActive' = TRUE
  /\ \/ /\ ~\E s \in Stage : FirstMandatory(s) /\ runtime[s] = "not_started"
        /\ Return(r)
        /\ UNCHANGED <<runtime, current>>
     \/ \E s \in Stage :
          /\ FirstMandatory(s)
          /\ runtime[s] = "not_started"
          /\ runtime' = [runtime EXCEPT ![s] = "ready"]
          /\ current' = Flush(current, heldCurrent[r], s)
          /\ \/ /\ projectStrategy # "full_auto"
                /\ Return(r)
             \/ /\ projectStrategy = "full_auto"
                /\ pc' = [pc EXCEPT ![r] = "starting"]
                /\ at' = [at EXCEPT ![r] = s]
                /\ cache' = [cache EXCEPT ![r] = [runtime EXCEPT ![s] = "ready"]]
                /\ pinned' = [pinned EXCEPT ![r] = TRUE]
                /\ heldCurrent' = [heldCurrent EXCEPT ![r] = s]
                /\ UNCHANGED <<verdict, sawGate, sawArtifacts>>
  /\ UNCHANGED <<config, run, artifacts, gate>>

\* An exception (a database locked for 30 s, a lost connection, the process
\* dying): the open transaction is rolled back, what was committed stays.
Abort(r) ==
  /\ r \in Faulty
  /\ pc[r] \notin {"new", "done"}
  /\ Return(r)
  /\ UNCHANGED <<config, rows>>

-----------------------------------------------------------------------------
Begin(r) ==
  \/ BeginStartProject(r)
  \/ BeginActivate(r)
  \/ \E s \in Stage :
       \/ \E keeps \in BOOLEAN : BeginExecute(r, s, keeps)
       \/ \E d \in {"pass", "reject"}, g \in Requests : BeginDecide(r, s, d, g)
       \/ BeginAdvance(r, s)
       \/ BeginRollback(r, s)
       \/ BeginRegenerate(r, s)

Continue(r) ==
  \/ CommitStart(r)
  \/ \E outcome \in {"SUCCESS", "PARTIAL", "FAILED"}, output \in {"none", "fresh"} :
       FinishSkills(r, outcome, output)
  \/ ReloadStage(r)
  \/ RefuseComplete(r)
  \/ FailStage(r)
  \/ CompleteForReview(r)
  \/ CompleteAndAdvance(r)
  \/ CommitPass(r)
  \/ CommitReject(r)
  \/ CommitAdvance(r)
  \/ CommitRollback(r)
  \/ CommitRegenerate(r)
  \/ CommitStartProject(r)
  \/ CommitActivate(r)

Next == \E r \in Requests : Begin(r) \/ Continue(r) \/ Abort(r)

Spec == Init /\ [][Next]_vars

\* A handler that is being served goes on: the event loop runs every ready
\* task, and skills end (the CLI adapter kills them at its timeout).  Nothing
\* makes a client send a request.
FairSpec == Spec /\ \A r \in Requests : WF_vars(Continue(r))

-----------------------------------------------------------------------------
(***************************************************************************)
(* Safety under every interleaving.                                        *)
(***************************************************************************)
Reviewed == Pending \cup {"passed"}

\* A stage waiting for a human has a gate to decide: without one, decide_gate
\* and advance_stage answer "No pending gate" and the stage cannot move on.
PendingReviewHasGate ==
  \A s \in Stage : runtime[s] \in Pending => PendingGates(s) # {}

\* No stage has two pending gates, so "the latest one" that create_gate and
\* decide look for is the only one, although executions of a stage overlap.
OnePendingGate ==
  \A s \in Stage : \A p, q \in PendingGates(s) : p = q

\* Some execution of the stage ended with all its primary skills successful.
WorkRan(s) == \E q \in Requests : run[q][s] \in Succeeded

\* No stage is under review or passed unless all primary skills of some
\* execution of it succeeded, however requests interleave or fail.
ReviewedWorkRan == \A s \in Stage : runtime[s] \in Reviewed => WorkRan(s)

\* What a request has run, seen from where its handler is.
InOrder(r) ==
  /\ pc[r] \in {"new", "deciding", "advancing", "activating"} =>
       \A s \in Stage : run[r][s] = "none"
  /\ pc[r] = "starting" => \A s \in Stage : s >= at[r] => run[r][s] = "none"
  /\ pc[r] \in {"running", "ran", "ending"} =>
       \A s \in Stage : s > at[r] => run[r][s] = "none"
  /\ pc[r] = "running" => run[r][at[r]] = "RUNNING"
  /\ pc[r] \in {"ran", "ending"} /\ verdict[r] = "ok" => run[r][at[r]] \in Succeeded

\* A request goes through the stages in order and executes each at most once:
\* a chain of automatic starts never comes back to a stage it has run.
ExecutesInOrder == \A r \in Requests : InOrder(r)

\* complete_stage opens a gate for the stage instead of passing it.
NeedsDecision(s) ==
  strategy[s] = "full_manual" \/ (strategy[s] = "semi_auto" /\ s \in GateRequired)

\* A stage whose strategy asks for a human decision is never passed without a
\* gate of it that a human has passed, also when several decisions race.
SignedOff ==
  \A s \in Stage : runtime[s] = "passed" /\ NeedsDecision(s) =>
    \E q \in Requests : gate[q][s] = "passed"

(***************************************************************************)
(* Liveness, when no request fails.                                        *)
(***************************************************************************)
\* Every request that is served gets its response: the chain of automatic
\* starts ends, and no handler waits for another one.
RequestsReturn == \A r \in Requests : pc[r] # "new" ~> pc[r] = "done"

\* A stage does not stay in progress: some request completes, fails or resets it.
StageRunEnds ==
  \A s \in Stage : runtime[s] = "in_progress" ~> runtime[s] # "in_progress"

(***************************************************************************)
(* What holds in addition when requests are served one after the other     *)
(* (MaxInFlight = 1): a single operator who waits for each response.       *)
(***************************************************************************)
\* What is under review or passed rests on results no rollback made stale.
FreshResults ==
  \A s \in Stage : runtime[s] \in Reviewed =>
    \E q \in Requests : run[q][s] \in Succeeded /\ artifacts[q][s] # "stale"

\* The requests whose handler is between start_stage and the end of the stage.
Executors(s) == {r \in Requests : at[r] = s /\ pc[r] \in {"running", "ran", "ending"}}

\* A stage in progress is executed by exactly one request, and is the
\* project's current stage.
InProgressIsExecuted ==
  \A s \in Stage : runtime[s] = "in_progress" =>
    /\ Cardinality(Executors(s)) = 1
    /\ current = s

\* rollback_stage: a stage that is reset keeps no artifact that counts as current.
ResetHasNoFreshArtifact ==
  \A s \in Stage : runtime[s] = "not_started" =>
    \A q \in Requests : artifacts[q][s] # "fresh"

\* A decided gate is never decided again.
GateDecidedOnce ==
  [][\A q \in Requests, s \in Stage :
       gate[q][s] \in {"passed", "rejected"} => gate'[q][s] = gate[q][s]]_vars

\* A stage leaves its review for "passed" only in the step that passes the
\* gate it was waiting for.
LeavesReviewByDecision ==
  [][\A s \in Stage : runtime[s] \in Pending /\ runtime'[s] = "passed" =>
       \E q \in PendingGates(s) : gate'[q][s] = "passed"]_vars
=============================================================================
