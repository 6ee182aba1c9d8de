-------------------------- MODULE SkillExecutions --------------------------
(***************************************************************************)
(* The rows of skill_executions of one stage, and who writes them: the     *)
(* batches that run the stage's skills, and the /executions routes, which  *)
(* trigger, retry, stop and confirm.                                       *)
(*                                                                         *)
(* An execution is identified with its creator and its skill: a batch      *)
(* creates one for each bound skill, a request at most one for each skill. *)
(*                                                                         *)
(* A batch commits its rows as RUNNING before its skills run, and their    *)
(* results all in one transaction at the end; what it does in between is   *)
(* SkillBatch.  Nobody runs a row that a route has created.                *)
(*                                                                         *)
(* Left out: phases, logs, previous_execution_id of a trigger that is no   *)
(* retry (stored, and read by no one).                                     *)
(***************************************************************************)
EXTENDS Naturals

CONSTANTS
  Skills,      \* the skills of the registry
  Release,     \* those whose name marks them as release-related
  Bound,       \* those bound to the stage
  NamedById,   \* those whose skill_name is their skill_id
  Requests,    \* requests to the routes, each served once
  Batches      \* executions of the stage

ASSUME SkillsAssumption ==
  /\ Release \subseteq Skills
  /\ Bound \subseteq Skills
  /\ NamedById \subseteq Skills
ASSUME OwnersAssumption == Requests \cap Batches = {}

Owners      == Requests \cup Batches
Executions  == Owners \X Skills
NoSkill     == "none"
NoExecution == <<"none", NoSkill>>
RetryLimit  == 3

Status  == {"absent", "NOT_STARTED", "RUNNING", "SUCCESS", "FAILED", "STOPPED"}
Action  == {"SINGLE_EXECUTE", "BATCH_EXECUTE", "RETRY"}
Row     == [status : Status, action : Action, retries : 0 .. RetryLimit,
            previous : Executions \cup {NoExecution}, confirmed : BOOLEAN]

VARIABLES
  row,     \* skill_executions
  batch,   \* how far each batch is
  pc,      \* how far each request is
  arg      \* what it has read or still has to do

vars == <<row, batch, pc, arg>>

Arg == [skill : Skills \cup {NoSkill}, planned : Row,
        target : Executions \cup {NoExecution}, todo : SUBSET Skills]

Blank == [status |-> "absent", action |-> "BATCH_EXECUTE", retries |-> 0,
          previous |-> NoExecution, confirmed |-> FALSE]
NoArg == [skill |-> NoSkill, planned |-> Blank, target |-> NoExecution, todo |-> {}]

Exists == {x \in Executions : row[x].status # "absent"}

TypeOK ==
  /\ row \in [Executions -> Row]
  /\ batch \in [Batches -> {"new", "running", "ended"}]
  /\ pc \in [Requests -> {"new", "triggering", "creating", "stopping", "done"}]
  /\ arg \in [Requests -> Arg]

Init ==
  /\ row = [x \in Executions |-> Blank]
  /\ batch = [b \in Batches |-> "new"]
  /\ pc = [r \in Requests |-> "new"]
  /\ arg = [r \in Requests |-> NoArg]

-----------------------------------------------------------------------------
(* The batches *)

\* start_stage: a row for each binding, whatever rows there are, release
\* skills included.
StartBatch(b) ==
  /\ batch[b] = "new"
  /\ batch' = [batch EXCEPT ![b] = "running"]
  /\ row' = [x \in Executions |-> IF x[1] = b /\ x[2] \in Bound
               THEN [Blank EXCEPT !.status = "RUNNING"] ELSE row[x]]
  /\ UNCHANGED <<pc, arg>>

\* Mutant of EndBatch: stopped executions are run again, in a second round.
EndBatchTwice(b) ==
  /\ batch[b] \in {"running", "ended"}
  /\ batch' = [batch EXCEPT ![b] = "ended"]
  /\ \E ran \in SUBSET Bound : \E result \in [ran -> {"SUCCESS", "FAILED"}] :
       row' = [x \in Executions |-> IF x[1] = b /\ x[2] \in ran
                 THEN [row[x] EXCEPT !.status = result[x[2]]] ELSE row[x]]
  /\ UNCHANGED <<pc, arg>>

\* The results of the skills that ran, whatever their rows say by now; the
\* others keep theirs.
EndBatch(b) ==
  /\ batch[b] = "running"
  /\ batch' = [batch EXCEPT ![b] = "ended"]
  /\ \E ran \in SUBSET Bound : \E result \in [ran -> {"SUCCESS", "FAILED"}] :
       row' = [x \in Executions |-> IF x[1] = b /\ x[2] \in ran
                 THEN [row[x] EXCEPT !.status = result[x[2]]] ELSE row[x]]
  /\ UNCHANGED <<pc, arg>>

-----------------------------------------------------------------------------
(* The routes *)

\* _has_running_execution compares names.  Only the rows of batches are ever
\* RUNNING, and their name is the skill's id.
HasRunning(s) ==
  s \in NamedById /\ \E x \in Executions : x[2] = s /\ row[x].status = "RUNNING"

\* Mutant of Valid: any execution may be the previous one.
ValidAnyPrevious(s, action, previous, confirm) ==
  /\ action = "SINGLE_EXECUTE" => ~HasRunning(s)
  /\ s \in Release => confirm
  /\ action = "RETRY" => previous \in Exists

\* Mutant of Valid: the confirmation is asked for single executions only.
ValidReleaseSingle(s, action, previous, confirm) ==
  /\ action = "SINGLE_EXECUTE" => ~HasRunning(s) /\ (s \in Release => confirm)
  /\ action = "RETRY" =>
       /\ previous \in Exists
       /\ row[previous].status = "FAILED"
       /\ row[previous].retries < RetryLimit

\* validate_trigger.  The previous execution need not be one of the skill.
Valid(s, action, previous, confirm) ==
  /\ action = "SINGLE_EXECUTE" => ~HasRunning(s)
  /\ s \in Release => confirm
  /\ action = "RETRY" =>
       /\ previous \in Exists
       /\ row[previous].status = "FAILED"
       /\ row[previous].retries < RetryLimit

Return(r) ==
  /\ pc' = [pc EXCEPT ![r] = "done"]
  /\ arg' = [arg EXCEPT ![r] = NoArg]

\* batch-trigger goes on with the skills that are left.
Proceed(r, todo) ==
  IF todo = {} THEN Return(r)
  ELSE /\ pc' = [pc EXCEPT ![r] = "triggering"]
       /\ arg' = [arg EXCEPT ![r].todo = todo]

Plan(action, previous, confirm) ==
  [status |-> "NOT_STARTED", action |-> action, retries |-> 0,
   previous |-> previous, confirmed |-> confirm]

\* trigger: what was valid is inserted by a later step.
BeginTrigger(r) ==
  \E s \in Skills, action \in Action, confirm \in BOOLEAN,
     previous \in Exists \cup {NoExecution} :
    /\ pc[r] = "new"
    /\ action # "RETRY" => previous = NoExecution
    /\ Valid(s, action, previous, confirm)
    /\ pc' = [pc EXCEPT ![r] = "creating"]
    /\ arg' = [arg EXCEPT ![r].skill = s, ![r].planned = Plan(action, previous, confirm)]
    /\ UNCHANGED <<row, batch>>

\* batch-trigger: the skills of the stage and of the executions it has had.
BeginBatchTrigger(r) ==
  \E action \in {"SINGLE_EXECUTE", "BATCH_EXECUTE"}, confirm \in BOOLEAN :
    /\ pc[r] = "new"
    /\ pc' = [pc EXCEPT ![r] = "triggering"]
    /\ arg' = [arg EXCEPT ![r].todo = Bound \cup {x[2] : x \in Exists},
                          ![r].planned = Plan(action, NoExecution, confirm)]
    /\ UNCHANGED <<row, batch>>

\* One skill of it; an invalid one is skipped.
TriggerNext(r) ==
  \E s \in arg[r].todo :
    /\ pc[r] = "triggering"
    /\ IF Valid(s, arg[r].planned.action, NoExecution, arg[r].planned.confirmed)
       THEN /\ pc' = [pc EXCEPT ![r] = "creating"]
            /\ arg' = [arg EXCEPT ![r].todo = @ \ {s}, ![r].skill = s]
       ELSE Proceed(r, arg[r].todo \ {s})
    /\ UNCHANGED <<row, batch>>

\* Mutant of BeginRetry: the status of the original is not looked at.
BeginRetryAny(r) ==
  \E x \in Exists :
    /\ pc[r] = "new"
    /\ row[x].retries < RetryLimit
    /\ pc' = [pc EXCEPT ![r] = "creating"]
    /\ arg' = [arg EXCEPT ![r].skill = x[2], ![r].planned =
                 [Plan("RETRY", x, row[x].confirmed) EXCEPT !.retries = row[x].retries + 1]]
    /\ UNCHANGED <<row, batch>>

\* attempt_retry reads the original, which stays as it is.
BeginRetry(r) ==
  \E x \in Exists :
    /\ pc[r] = "new"
    /\ row[x].status = "FAILED"
    /\ row[x].retries < RetryLimit
    /\ pc' = [pc EXCEPT ![r] = "creating"]
    /\ arg' = [arg EXCEPT ![r].skill = x[2], ![r].planned =
                 [Plan("RETRY", x, row[x].confirmed) EXCEPT !.retries = row[x].retries + 1]]
    /\ UNCHANGED <<row, batch>>

\* SkillExecutionRepository.create: a commit for each row.
Create(r) ==
  /\ pc[r] = "creating"
  /\ row' = [row EXCEPT ![<<r, arg[r].skill>>] = arg[r].planned]
  /\ Proceed(r, arg[r].todo)
  /\ UNCHANGED batch

\* stop looks at the status it has read, and writes later.
BeginStop(r) ==
  \E x \in Exists :
    /\ pc[r] = "new"
    /\ row[x].status \in {"RUNNING", "NOT_STARTED"}
    /\ pc' = [pc EXCEPT ![r] = "stopping"]
    /\ arg' = [arg EXCEPT ![r].target = x]
    /\ UNCHANGED <<row, batch>>

CommitStop(r) ==
  /\ pc[r] = "stopping"
  /\ row' = [row EXCEPT ![arg[r].target].status = "STOPPED"]
  /\ Return(r)
  /\ UNCHANGED batch

\* confirm-release, whatever the skill and the status.
Confirm(r) ==
  \E x \in Exists :
    /\ pc[r] = "new"
    /\ row' = [row EXCEPT ![x].confirmed = TRUE]
    /\ Return(r)
    /\ UNCHANGED batch

\* An exception or a lost connection; what has been committed stays.
Fail(r) ==
  /\ pc[r] \notin {"new", "done"}
  /\ Return(r)
  /\ UNCHANGED <<row, batch>>

Serve(r) ==
  \/ BeginTrigger(r) \/ BeginBatchTrigger(r) \/ TriggerNext(r) \/ BeginRetry(r)
  \/ Create(r)
  \/ BeginStop(r) \/ CommitStop(r)
  \/ Confirm(r)
  \/ Fail(r)

Next ==
  \/ \E b \in Batches : StartBatch(b) \/ EndBatch(b)
  \/ \E r \in Requests : Serve(r)

Spec == Init /\ [][Next]_vars

-----------------------------------------------------------------------------
(***************************************************************************)
(* Properties.                                                             *)
(***************************************************************************)
\* Only what a batch runs can fail, so a retry is never retried: retry_count
\* stays at most 1, whoever overlaps, and the limit of the validator and of the
\* CHECK constraint is never the reason for a refusal.
NoRetryOfRetry ==
  \A x \in Exists :
    /\ row[x].retries <= 1
    /\ row[x].previous # NoExecution => row[x].previous[1] \in Batches

\* A retry never repeats what has succeeded or may still succeed: the result
\* that was read as FAILED stays, or is overwritten by a late stop.
RetriesAfterFailure ==
  \A x \in Exists : row[x].previous # NoExecution =>
    row[row[x].previous].status \in {"FAILED", "STOPPED"}

\* An execution of a release skill nobody has confirmed was created by a batch
\* or repeats one that was: no race of the routes lets one slip through.
UnconfirmedFromBatch ==
  \A x \in Exists : x[2] \in Release /\ ~row[x].confirmed =>
    \/ x[1] \in Batches
    \/ row[x].retries = 1 /\ row[x].previous[1] \in Batches

\* What a stopped execution can still become is the result of the batch that
\* runs it, once; a route's own execution, and one whose batch has ended, stays
\* stopped.
StoppedForGood ==
  [][\A x \in Executions : row[x].status = "STOPPED" /\ row'[x].status # "STOPPED" =>
       x[1] \in Batches /\ batch[x[1]] = "running" /\ batch'[x[1]] = "ended"]_vars
=============================================================================
