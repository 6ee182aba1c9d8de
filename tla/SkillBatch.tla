----------------------------- MODULE SkillBatch -----------------------------
(***************************************************************************)
(* How StageOrchestrator runs the skills bound to a stage: primaries one   *)
(* after the other, then auxiliaries in parallel, each through             *)
(* PocketFlowEngine (Prep, Exec, Post under the lock of the project) and a *)
(* CLI subprocess that is terminated, then killed, at its timeout.         *)
(*                                                                         *)
(* A batch is one call of _execute_skill_bindings.  Every request builds   *)
(* an orchestrator of its own, and that an engine with a LockManager of    *)
(* its own, so two batches of a project share its directory but no lock.   *)
(*                                                                         *)
(* All bindings of a batch write through one database session, which      *)
(* refuses a flush that starts while another one is under way.             *)
(*                                                                         *)
(* Left out: what skills read and write, durations, logs and events; the   *)
(* HTTP mode of ExecStage, which no caller selects.                        *)
(***************************************************************************)
EXTENDS Integers, Sequences

CONSTANTS
  Batches,       \* batches of one project
  NumPrimary,    \* skills bound with role "primary"
  NumAuxiliary   \* skills bound with role "auxiliary"

ASSUME CountAssumption == NumPrimary \in Nat /\ NumAuxiliary \in Nat

Primaries   == 1 .. NumPrimary
Auxiliaries == NumPrimary + 1 .. NumPrimary + NumAuxiliary
Skills      == 1 .. NumPrimary + NumAuxiliary

VARIABLES
  phase,     \* of each batch
  turn,      \* the primary whose turn it is
  task,      \* where the coroutine of each binding is
  lock,      \* LockManager of the batch: its holder, then the waiters in order
  process,   \* the subprocess of each binding
  status     \* SkillExecution.overall_status, as the session of the batch has it

vars == <<phase, turn, task, lock, process, status>>

Phases        == {"new", "primaries", "auxiliaries", "ended", "raised"}
TaskStates    == {"idle", "locking", "executing", "recording",
                  "done", "raised", "broken"}   \* broken: its flush has failed
Settled       == {"done", "raised", "broken"}
ProcessStates == {"none", "running", "terminated", "killed", "exited", "dead"}
Alive         == {"running", "terminated", "killed"}

TypeOK ==
  /\ phase \in [Batches -> Phases]
  /\ turn \in [Batches -> 1 .. NumPrimary + 1]
  /\ task \in [Batches -> [Skills -> TaskStates]]
  /\ lock \in [Batches -> Seq(Skills)]
  /\ process \in [Batches -> [Skills -> ProcessStates]]
  /\ status \in [Batches -> [Skills -> {"RUNNING", "SUCCESS", "FAILED"}]]

\* start_stage has committed a RUNNING execution for every binding.
Init ==
  /\ phase = [b \in Batches |-> "new"]
  /\ turn = [b \in Batches |-> 1]
  /\ task = [b \in Batches |-> [k \in Skills |-> "idle"]]
  /\ lock = [b \in Batches |-> <<>>]
  /\ process = [b \in Batches |-> [k \in Skills |-> "none"]]
  /\ status = [b \in Batches |-> [k \in Skills |-> "RUNNING"]]

Begin(b) ==
  /\ phase[b] = "new"
  /\ phase' = [phase EXCEPT ![b] = "primaries"]
  /\ UNCHANGED <<turn, task, lock, process, status>>

-----------------------------------------------------------------------------
(* One binding: _run_binding and PocketFlowEngine.execute *)

\* The coroutines the orchestrator awaits: one primary, or all auxiliaries.
Scheduled(b, k) ==
  \/ phase[b] = "primaries" /\ k = turn[b] /\ k \in Primaries
  \/ phase[b] = "auxiliaries" /\ k \in Auxiliaries

\* The resolver finds no SKILL.md: the execution fails without an engine, and
\* nothing is flushed.
ResolveFails(b, k) ==
  /\ Scheduled(b, k)
  /\ task[b][k] = "idle"
  /\ task' = [task EXCEPT ![b][k] = "done"]
  /\ status' = [status EXCEPT ![b][k] = "FAILED"]
  /\ UNCHANGED <<phase, turn, lock, process>>

\* asyncio.Lock serves its waiters in the order in which they came.
Acquire(b, k) ==
  /\ Scheduled(b, k)
  /\ task[b][k] = "idle"
  /\ task' = [task EXCEPT ![b][k] = "locking"]
  /\ lock' = [lock EXCEPT ![b] = Append(@, k)]
  /\ UNCHANGED <<phase, turn, process, status>>

Holds(b, k) == lock[b] # <<>> /\ Head(lock[b]) = k

\* The engine has returned: the result is set on the execution and flushed.
\* The flush raises if the session is flushing for another binding, or is
\* inactive since a flush has failed; the result stays on the object.
Record(b, k, result) ==
  /\ status' = [status EXCEPT ![b][k] = result]
  /\ task' = [task EXCEPT ![b][k] =
       IF \E j \in Skills : task[b][j] \in {"recording", "broken"}
         THEN "raised" ELSE "recording"]

\* Prep finds SKILL.md and the adapter spawns the process ...
Spawn(b, k) ==
  /\ task[b][k] = "locking"
  /\ Holds(b, k)
  /\ task' = [task EXCEPT ![b][k] = "executing"]
  /\ process' = [process EXCEPT ![b][k] = "running"]
  /\ UNCHANGED <<phase, turn, lock, status>>

\* ... or Prep does not, and the engine returns from its finally clause ...
PrepFails(b, k) ==
  /\ task[b][k] = "locking"
  /\ Holds(b, k)
  /\ Record(b, k, "FAILED")
  /\ lock' = [lock EXCEPT ![b] = Tail(@)]
  /\ UNCHANGED <<phase, turn, process>>

\* Mutant of SpawnRaises: the lock is not released on an exception.
SpawnRaisesLocked(b, k) ==
  /\ task[b][k] = "locking"
  /\ Holds(b, k)
  /\ task' = [task EXCEPT ![b][k] = "raised"]
  /\ UNCHANGED <<phase, turn, lock, process, status>>

\* ... or there is no executable to spawn, and the exception passes through.
SpawnRaises(b, k) ==
  /\ task[b][k] = "locking"
  /\ Holds(b, k)
  /\ task' = [task EXCEPT ![b][k] = "raised"]
  /\ lock' = [lock EXCEPT ![b] = Tail(@)]
  /\ UNCHANGED <<phase, turn, process, status>>

\* The process ends, by itself or at a signal.
Exit(b, k) ==
  /\ process[b][k] \in Alive
  /\ process' = [process EXCEPT ![b][k] = IF @ = "running" THEN "exited" ELSE "dead"]
  /\ UNCHANGED <<phase, turn, task, lock, status>>

\* wait_for(process.communicate()) times out: SIGTERM, then SIGKILL.
Terminate(b, k) ==
  /\ task[b][k] = "executing"
  /\ process[b][k] = "running"
  /\ process' = [process EXCEPT ![b][k] = "terminated"]
  /\ UNCHANGED <<phase, turn, task, lock, status>>

Kill(b, k) ==
  /\ task[b][k] = "executing"
  /\ process[b][k] = "terminated"
  /\ process' = [process EXCEPT ![b][k] = "killed"]
  /\ UNCHANGED <<phase, turn, task, lock, status>>

\* Mutant of Return: the engine does not wait for a process it has signalled.
ReturnUnreaped(b, k) ==
  /\ task[b][k] = "executing"
  /\ process[b][k] \in {"exited", "terminated", "killed"}
  /\ \E result \in {"SUCCESS", "FAILED"} : Record(b, k, result)
  /\ lock' = [lock EXCEPT ![b] = Tail(@)]
  /\ UNCHANGED <<phase, turn, process>>

\* The adapter has reaped the process: Post, the finally clause, the result.
\* A process that had to be signalled has failed, whatever it returns.
Return(b, k) ==
  /\ task[b][k] = "executing"
  /\ process[b][k] \in {"exited", "dead"}
  /\ \E result \in {"SUCCESS", "FAILED"} :
       /\ process[b][k] = "dead" => result = "FAILED"
       /\ Record(b, k, result)
  /\ lock' = [lock EXCEPT ![b] = Tail(@)]
  /\ UNCHANGED <<phase, turn, process>>

\* The flush, and those of the artifacts of a successful skill, are done ...
Recorded(b, k) ==
  /\ task[b][k] = "recording"
  /\ task' = [task EXCEPT ![b][k] = "done"]
  /\ UNCHANGED <<phase, turn, lock, process, status>>

\* ... or one of them fails on a locked database.
RecordFails(b, k) ==
  /\ task[b][k] = "recording"
  /\ task' = [task EXCEPT ![b][k] = "broken"]
  /\ UNCHANGED <<phase, turn, lock, process, status>>

-----------------------------------------------------------------------------
(* The batch *)

\* A failed primary does not keep the next one from running.
NextPrimary(b) ==
  /\ phase[b] = "primaries"
  /\ turn[b] \in Primaries
  /\ task[b][turn[b]] = "done"
  /\ turn' = [turn EXCEPT ![b] = @ + 1]
  /\ UNCHANGED <<phase, task, lock, process, status>>

\* An exception leaves the request, and get_db rolls its session back: the
\* executions are what start_stage committed.
RollBack(b) ==
  /\ phase' = [phase EXCEPT ![b] = "raised"]
  /\ status' = [status EXCEPT ![b] = [k \in Skills |-> "RUNNING"]]

PrimaryRaises(b) ==
  /\ phase[b] = "primaries"
  /\ turn[b] \in Primaries
  /\ task[b][turn[b]] \in {"raised", "broken"}
  /\ RollBack(b)
  /\ UNCHANGED <<turn, task, lock, process>>

PrimariesSucceeded(b) == \A k \in Primaries : status[b][k] = "SUCCESS"

\* Mutant of StartAuxiliaries: whatever became of the primaries.
StartAuxiliariesAnyway(b) ==
  /\ phase[b] = "primaries"
  /\ turn[b] = NumPrimary + 1
  /\ NumAuxiliary > 0
  /\ phase' = [phase EXCEPT ![b] = "auxiliaries"]
  /\ UNCHANGED <<turn, task, lock, process, status>>

StartAuxiliaries(b) ==
  /\ phase[b] = "primaries"
  /\ turn[b] = NumPrimary + 1
  /\ PrimariesSucceeded(b)
  /\ NumAuxiliary > 0
  /\ phase' = [phase EXCEPT ![b] = "auxiliaries"]
  /\ UNCHANGED <<turn, task, lock, process, status>>

\* Mutant of BatchDone: the first auxiliary to finish ends the batch.
BatchDoneAtFirst(b) ==
  \/ /\ phase[b] = "primaries"
     /\ turn[b] = NumPrimary + 1
     /\ PrimariesSucceeded(b) => NumAuxiliary = 0
  \/ /\ phase[b] = "auxiliaries"
     /\ \E k \in Auxiliaries : task[b][k] \in Settled

\* gather(return_exceptions=True) waits for all auxiliaries.
BatchDone(b) ==
  \/ /\ phase[b] = "primaries"
     /\ turn[b] = NumPrimary + 1
     /\ PrimariesSucceeded(b) => NumAuxiliary = 0
  \/ /\ phase[b] = "auxiliaries"
     /\ \A k \in Auxiliaries : task[b][k] \in Settled

\* The commit of the batch, in a session no flush of which has failed ...
End(b) ==
  /\ BatchDone(b)
  /\ \A k \in Skills : task[b][k] # "broken"
  /\ phase' = [phase EXCEPT ![b] = "ended"]
  /\ UNCHANGED <<turn, task, lock, process, status>>

\* ... or the commit raises: the session is inactive, or the database locked.
EndRaises(b) ==
  /\ BatchDone(b)
  /\ RollBack(b)
  /\ UNCHANGED <<turn, task, lock, process>>

-----------------------------------------------------------------------------
StepOf(b, k) ==
  \/ ResolveFails(b, k)
  \/ Acquire(b, k)
  \/ Spawn(b, k)
  \/ PrepFails(b, k)
  \/ SpawnRaises(b, k)
  \/ Terminate(b, k)
  \/ Kill(b, k)
  \/ Return(b, k)
  \/ Recorded(b, k)
  \/ RecordFails(b, k)

BatchStep(b) ==
  \/ NextPrimary(b)
  \/ PrimaryRaises(b)
  \/ StartAuxiliaries(b)
  \/ End(b)
  \/ EndRaises(b)

Next == \E b \in Batches :
  \/ Begin(b)
  \/ BatchStep(b)
  \/ \E k \in Skills : StepOf(b, k) \/ Exit(b, k)

Spec == Init /\ [][Next]_vars

\* Coroutines and timers go on, and a killed process exits.  Neither a running
\* nor a terminated process needs to exit by itself.
FairSpec ==
  /\ Spec
  /\ \A b \in Batches : WF_vars(Begin(b)) /\ WF_vars(BatchStep(b))
  /\ \A b \in Batches, k \in Skills :
       /\ WF_vars(StepOf(b, k))
       /\ WF_vars(process[b][k] = "killed" /\ Exit(b, k))

-----------------------------------------------------------------------------
(***************************************************************************)
(* Properties                                                              *)
(***************************************************************************)
\* The lock of an engine admits one skill at a time: the processes of a batch
\* never write into the project's directory together, also when auxiliaries
\* run in parallel, time out or fail.
EngineExclusive ==
  \A b \in Batches : \A j, k \in Skills :
    process[b][j] \in Alive /\ process[b][k] \in Alive => j = k

\* No auxiliary is run unless every primary has succeeded (the results of a
\* batch that raised are rolled back).
AuxiliariesAfterPrimaries ==
  \A b \in Batches : \A k \in Auxiliaries :
    task[b][k] # "idle" /\ phase[b] # "raised" => PrimariesSucceeded(b)

\* A batch leaves nothing behind: when it has ended or raised, no process of
\* it is alive and its lock is free, whichever way its skills failed.
NothingLeftBehind ==
  \A b \in Batches : phase[b] \in {"ended", "raised"} =>
    /\ lock[b] = <<>>
    /\ \A k \in Skills : process[b][k] \notin Alive

\* A process is alive only while the coroutine that holds the lock is there to
\* reap it.
ProcessHasKeeper ==
  \A b \in Batches, k \in Skills :
    process[b][k] \in Alive => task[b][k] = "executing" /\ Holds(b, k)

AuxiliariesSucceeded(b) ==
  \A k \in Auxiliaries : task[b][k] = "done" /\ status[b][k] = "SUCCESS"

\* The summary of the batch: RAISED, or its primary_failed and any_failed.
Outcome(b) ==
  CASE phase[b] = "raised" -> "RAISED"
    [] phase[b] = "ended" /\ ~PrimariesSucceeded(b) -> "FAILED"
    [] phase[b] = "ended" /\ PrimariesSucceeded(b) /\ ~AuxiliariesSucceeded(b) -> "PARTIAL"
    [] phase[b] = "ended" /\ PrimariesSucceeded(b) /\ AuxiliariesSucceeded(b) -> "SUCCESS"
    [] OTHER -> "RUNNING"

\* The refinement mapping: of a batch, StageRun sees the summary.
Abstract == INSTANCE StageRun WITH outcome <- [b \in Batches |-> Outcome(b)]

\* Every batch ends, with one outcome that no late result changes, although
\* processes hang and ignore SIGTERM: the detailed run implements StageRun.
ImplementsStageRun == Abstract!Spec
=============================================================================
