--------------------------- MODULE GateApprovals ---------------------------
(***************************************************************************)
(* The second writer of gate_decisions: the /gates routes, their           *)
(* GateController and BypassService, beside the stage pipeline.            *)
(*                                                                         *)
(* A request of /gates builds a GateController of its own, so its memory   *)
(* of pending gates is empty and every gate is loaded from its row.  The   *)
(* row is written whatever its status was, and the stage behind it is not  *)
(* looked at.  Between the read and the write other requests may commit;   *)
(* the write is then emitted only for a status that differs from the one   *)
(* read.  The transition of the skill's state that accompanies a decision  *)
(* updates no row (it takes the gate's name for an execution's id), but    *)
(* commits what the session has flushed so far.                            *)
(*                                                                         *)
(* Left out: the audit log, the event, the read-only routes.               *)
(***************************************************************************)
EXTENDS StagePipeline

CONSTANT Calls   \* the requests to /gates of a behaviour, each served once

ASSUME CallsAssumption == Calls \cap Requests = {}

Decision     == {"none", "approved", "rejected", "retry", "bypassed"}
BypassStatus == {"none", "PENDING_POST_APPROVAL", "CLOSED"}

VARIABLES
  call,    \* where each request to /gates is, and the gate it works on
  bypass   \* the BypassRecord row it has committed

apiVars == <<call, bypass>>
allVars == <<vars, apiVars>>

Call == [step : {"new", "applying", "resolving", "done"},
         by : Requests \cup {"none"}, stage : Stage,  \* the gate row: who created it, for which stage
         decision : Decision,
         loaded : GateStatus]            \* its status in the identity map

GateTypeOK ==
  /\ TypeOK
  /\ call \in [Calls -> Call]
  /\ bypass \in [Calls -> BypassStatus]

GateInit ==
  /\ Init
  /\ call = [c \in Calls |-> [step |-> "new", by |-> "none",
                              stage |-> 1, decision |-> "none", loaded |-> "none"]]
  /\ bypass = [c \in Calls |-> "none"]

-----------------------------------------------------------------------------
\* Mutants of StatusOf: a retry rejects the gate; an approval leaves it pending.
StatusOfRetryRejects(d) ==
  IF d = "bypassed" THEN d ELSE IF d = "approved" THEN "passed" ELSE "rejected"

StatusOfApprovalPends(d) ==
  IF d \in {"bypassed", "rejected"} THEN d ELSE "pending"

\* _decision_to_db_status
StatusOf(d) ==
  CASE d = "approved" -> "passed"
    [] d = "rejected" -> "rejected"
    [] d = "retry"    -> "pending"
    [] d = "bypassed" -> "bypassed"

\* The gate rows a client can name.
Persisted == {g \in Requests \X Stage : gate[g[1]][g[2]] # "none"}

TakeCall(c, g, d, step) ==
  /\ call[c].step = "new"
  /\ call' = [call EXCEPT ![c] = [step |-> step, by |-> g[1], stage |-> g[2],
                                  decision |-> d, loaded |-> gate[g[1]][g[2]]]]
  /\ UNCHANGED <<vars, bypass>>

\* approve, reject and retry read the row once more before they write it.
BeginResolve(c, g, d) ==
  /\ g \in Persisted
  /\ d \in {"approved", "rejected", "retry"}
  /\ TakeCall(c, g, d, "resolving")

\* Mutant of BeginBypass: the application is skipped.
BeginBypassUnrecorded(c, g) ==
  /\ g \in Persisted
  /\ TakeCall(c, g, "bypassed", "resolving")

\* The bypass route keeps the row it has read first.
BeginBypass(c, g) ==
  /\ g \in Persisted
  /\ TakeCall(c, g, "bypassed", "applying")

\* apply_bypass flushes the record; the skill transition commits it.
CommitApplication(c) ==
  /\ call[c].step = "applying"
  /\ bypass' = [bypass EXCEPT ![c] = "PENDING_POST_APPROVAL"]
  /\ call' = [call EXCEPT ![c].step = "resolving"]
  /\ UNCHANGED vars

CommitResolve(c) ==
  /\ call[c].step = "resolving"
  /\ gate' = [gate EXCEPT ![call[c].by][call[c].stage] =
                Flush(@, call[c].loaded, StatusOf(call[c].decision))]
  /\ call' = [call EXCEPT ![c].step = "done"]
  /\ UNCHANGED <<config, projectActive, current, runtime, run, artifacts, pc, locals, bypass>>

\* approve_bypass: no guard on the status, and the gate is not looked at.
ApproveBypass(c) ==
  /\ bypass[c] # "none"
  /\ bypass' = [bypass EXCEPT ![c] = "CLOSED"]
  /\ UNCHANGED <<vars, call>>

\* An exception between two commits.
FailCall(c) ==
  /\ call[c].step \in {"applying", "resolving"}
  /\ call' = [call EXCEPT ![c].step = "done", ![c].decision = "none"]
  /\ UNCHANGED <<vars, bypass>>

Serve(c) ==
  \/ \E g \in Requests \X Stage :
       \/ \E d \in Decision : BeginResolve(c, g, d)
       \/ BeginBypass(c, g)
  \/ CommitApplication(c)
  \/ CommitResolve(c)
  \/ ApproveBypass(c)
  \/ FailCall(c)

GateNext ==
  \/ Next /\ UNCHANGED apiVars
  \/ \E c \in Calls : Serve(c)

GateSpec == GateInit /\ [][GateNext]_allVars

-----------------------------------------------------------------------------
(***************************************************************************)
(* What both writers together keep.                                        *)
(***************************************************************************)
\* The calls that have decided a gate of the stage.
Decided(s, decisions) ==
  {c \in Calls : call[c].step = "done" /\ call[c].stage = s /\ call[c].decision \in decisions}

\* A stage under review that has no pending gate left lost it to /gates: the
\* orchestrator alone never strands a stage.  The gate is still there, so a
\* retry through the same routes makes the stage decidable again.
StrandedByCall ==
  \A s \in Stage : runtime[s] \in Pending /\ PendingGates(s) = {} =>
    Decided(s, {"approved", "rejected", "bypassed"}) # {}

\* Likewise two pending gates of one stage mean that a call reopened one.
DoubledByRetry ==
  \A s \in Stage : \A p, q \in PendingGates(s) : p # q =>
    Decided(s, {"retry"}) # {}

\* The sign-off of a passed stage disappears only when a call overrules it.
SignedOffUnlessOverruled ==
  \A s \in Stage : runtime[s] = "passed" /\ NeedsDecision(s) =>
    \/ \E q \in Requests : gate[q][s] = "passed"
    \/ Decided(s, {"rejected", "retry", "bypassed"}) # {}

\* A gate is bypassed only with an application on record, also when the
\* request fails half way.
BypassOnRecord ==
  \A q \in Requests, s \in Stage : gate[q][s] = "bypassed" =>
    \E c \in Calls : bypass[c] # "none" /\ call[c].by = q /\ call[c].stage = s
=============================================================================
