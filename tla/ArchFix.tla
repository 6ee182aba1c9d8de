------------------------------ MODULE ArchFix ------------------------------
(***************************************************************************)
(* Fixes of architecture issues: handle_change_action writes files of the  *)
(* project on a git branch of their own, validates the project, and        *)
(* commits or rolls back.  All fixes share one working tree, one index and *)
(* one database.                                                           *)
(*                                                                         *)
(* git and file operations block the event loop; a fix can be overtaken    *)
(* only where it awaits: the language model, the socket, the validation,   *)
(* a flush.  What the model answers and how the validation ends is local   *)
(* to the fix, and chosen in the step that uses it.                        *)
(*                                                                         *)
(* A fix started from a decision card has flushed its message first, and   *)
(* so holds SQLite's write lock until its transaction ends; one that a     *)
(* chat plan starts for a known issue writes nothing before its end.       *)
(*                                                                         *)
(* Each fix has a branch (named by second and issue), backups (kept by     *)
(* session) and an issue of its own.  Left out: registry extraction, which *)
(* touches no project file; failing restores; what users do with git.      *)
(***************************************************************************)
EXTENDS Naturals, FiniteSets

CONSTANTS
  Fixes,      \* calls of handle_change_action
  Cards,      \* those started from a decision card
  Files,      \* files that fixes or users write
  Tracked,    \* those in the repository at the start
  MaxEdits    \* bounds the edits users make

ASSUME CardsAssumption == Cards \subseteq Fixes
ASSUME TrackedAssumption == Tracked \subseteq Files
ASSUME EditsAssumption == MaxEdits \in Nat

Main     == "main"
Nobody   == "nobody"
Branches == Fixes \cup {Main}
Absent   == "absent"
Content  == Fixes \cup {"base", "user", Absent}
Snapshot == [Files -> Content]

ASSUME NamesAssumption ==
  Fixes \cap {Main, Nobody, "base", "user", Absent} = {}

VARIABLES
  (* The repository *)
  tree,      \* the working tree
  index,
  snap,      \* the commit each branch points to
  head,      \* the branch checked out
  edits,     \* how many edits users have made
  (* The handlers *)
  pc,
  onBranch,  \* branch_name is set
  origin,    \* original_branch
  todo,      \* file_changes not applied yet
  applied, erred,
  backup,
  (* The database *)
  issue,     \* status of the issue, as the fix's transaction sees it
  writer     \* who holds the write lock

repo     == <<tree, index, snap, head, edits>>
plan     == <<onBranch, origin, todo, applied, erred, backup>>
database == <<issue, writer>>
vars     == <<repo, pc, plan, database>>

AtWork == {"generating", "applying", "failing", "succeeding", "raised"}

TypeOK ==
  /\ tree \in Snapshot /\ index \in Snapshot
  /\ snap \in [Branches -> Snapshot]
  /\ head \in Branches
  /\ edits \in 0 .. MaxEdits
  /\ pc \in [Fixes -> AtWork \cup {"new", "ended", "closed", "crashed"}]
  /\ onBranch \in [Fixes -> BOOLEAN]
  /\ origin \in [Fixes -> Branches]
  /\ todo \in [Fixes -> SUBSET Files]
  /\ applied \in [Fixes -> SUBSET Files]
  /\ erred \in [Fixes -> BOOLEAN]
  /\ backup \in [Fixes -> Snapshot]
  /\ issue \in [Fixes -> {"detected", "executed", "skipped"}]
  /\ writer \in Fixes \cup {Nobody}

Nothing == [f \in Files |-> Absent]
Start   == [f \in Files |-> IF f \in Tracked THEN "base" ELSE Absent]

Init ==
  /\ tree = Start /\ index = Start
  /\ snap = [b \in Branches |-> IF b = Main THEN Start ELSE Nothing]
  /\ head = Main
  /\ edits = 0
  /\ pc = [r \in Fixes |-> "new"]
  /\ onBranch = [r \in Fixes |-> FALSE]
  /\ origin = [r \in Fixes |-> Main]
  /\ todo = [r \in Fixes |-> {}]
  /\ applied = [r \in Fixes |-> {}]
  /\ erred = [r \in Fixes |-> FALSE]
  /\ backup = [r \in Fixes |-> Nothing]
  /\ issue = [r \in Fixes |-> "detected"]
  /\ writer = Nobody

Goto(r, step) == pc' = [pc EXCEPT ![r] = step]

\* A flush waits until nobody else holds the write lock.
Lock(r) ==
  /\ writer \in {Nobody, r}
  /\ writer' = r

-----------------------------------------------------------------------------
(* handle_change_action up to its first file *)

\* Mutant of Begin: the message is committed at once, as in a chat.
BeginUnlocked(r) ==
  /\ pc[r] = "new"
  /\ Goto(r, "generating")
  /\ UNCHANGED <<repo, plan, database>>

Begin(r) ==
  /\ pc[r] = "new"
  /\ IF r \in Cards THEN Lock(r) ELSE UNCHANGED writer
  /\ Goto(r, "generating")
  /\ UNCHANGED <<repo, plan, issue>>

\* 'skip' on a card records the decision.
Skip(r) ==
  /\ r \in Cards
  /\ pc[r] = "generating"
  /\ Lock(r)
  /\ issue' = [issue EXCEPT ![r] = "skipped"]
  /\ Goto(r, "ended")
  /\ UNCHANGED <<repo, plan>>

\* DELETE_FILE: verify finds that the file does not exist, so the file is
\* restored and the deletion reported as failed.
DeleteFile(r) ==
  /\ pc[r] = "generating"
  /\ Goto(r, "failing")
  /\ UNCHANGED <<repo, plan, database>>

\* The language model's answer may name any files, or none; if it fails, the
\* plan's own content is used.  git checkout -b keeps tree and index; if it
\* fails, the fix goes on without a branch.
OpenBranch(r) ==
  \E changes \in SUBSET Files, created \in BOOLEAN :
    /\ pc[r] = "generating"
    /\ todo' = [todo EXCEPT ![r] = changes]
    /\ onBranch' = [onBranch EXCEPT ![r] = created]
    /\ origin' = [origin EXCEPT ![r] = head]
    /\ IF created THEN head' = r /\ snap' = [snap EXCEPT ![r] = snap[head]]
                  ELSE UNCHANGED <<head, snap>>
    /\ Goto(r, "applying")
    /\ UNCHANGED <<tree, index, edits, applied, erred, backup, database>>

-----------------------------------------------------------------------------
(* Applying, and what follows *)

\* _apply_file_change: backup and write.
ApplyFile(r) ==
  \E f \in todo[r] :
    /\ pc[r] = "applying"
    /\ backup' = [backup EXCEPT ![r][f] = tree[f]]
    /\ tree' = [tree EXCEPT ![f] = r]
    /\ applied' = [applied EXCEPT ![r] = @ \cup {f}]
    /\ todo' = [todo EXCEPT ![r] = @ \ {f}]
    /\ UNCHANGED <<index, snap, head, edits, pc, onBranch, origin, erred, database>>

\* A path outside the project, no content, a syntax error: the file stays, or
\* is restored, in the same step.
ApplyRefused(r) ==
  \E f \in todo[r] :
    /\ pc[r] = "applying"
    /\ erred' = [erred EXCEPT ![r] = TRUE]
    /\ todo' = [todo EXCEPT ![r] = @ \ {f}]
    /\ UNCHANGED <<repo, pc, onBranch, origin, applied, backup, database>>

\* The tree with the files of r restored from their backups.
Restored(r) == [f \in Files |-> IF f \in applied[r] THEN backup[r][f] ELSE tree[f]]

\* git reset --hard HEAD leaves only what is untracked.
AfterReset(t) ==
  [f \in Files |-> IF index[f] # Absent \/ snap[head][f] # Absent
                   THEN snap[head][f] ELSE t[f]]

\* git checkout keeps what does not differ between the branches, and refuses
\* to overwrite a change.
Checkout(t, b) ==
  LET old == snap[head]
      new == snap[b]
      refused == \E f \in Files : old[f] # new[f] /\ t[f] \notin {old[f], new[f]}
  IN IF refused
     THEN tree' = t /\ index' = old /\ UNCHANGED head
     ELSE /\ tree' = [f \in Files |-> IF old[f] = new[f] THEN t[f] ELSE new[f]]
          /\ index' = new
          /\ head' = b

\* reset_hard and checkout, both only on a branch of the fix.
LeaveBranch(r, t) ==
  /\ IF onBranch[r] THEN Checkout(AfterReset(t), origin[r])
     ELSE tree' = t /\ UNCHANGED <<index, head>>
  /\ UNCHANGED <<snap, edits>>

\* errors and not applied
GiveUp(r) ==
  /\ pc[r] = "applying"
  /\ todo[r] = {} /\ applied[r] = {} /\ erred[r]
  /\ LeaveBranch(r, tree)
  /\ Goto(r, "failing")
  /\ UNCHANGED <<plan, database>>

Validated(r) ==
  /\ pc[r] = "applying"
  /\ todo[r] = {}
  /\ applied[r] # {} \/ ~erred[r]

\* Mutant of Reject: the branch stays checked out.
RejectOnBranch(r) ==
  /\ Validated(r)
  /\ IF onBranch[r] THEN tree' = AfterReset(Restored(r)) /\ index' = snap[head]
     ELSE tree' = Restored(r) /\ UNCHANGED index
  /\ Goto(r, "failing")
  /\ UNCHANGED <<snap, head, edits, plan, database>>

\* The validation fails.
Reject(r) ==
  /\ Validated(r)
  /\ LeaveBranch(r, Restored(r))
  /\ Goto(r, "failing")
  /\ UNCHANGED <<plan, database>>

\* git add -A and git commit, on whatever branch is checked out; the commit
\* may fail.
CommitAll ==
  /\ index' = tree
  /\ snap' \in {snap, [snap EXCEPT ![head] = tree]}

\* Mutant of Accept: the fix is committed without a branch, too.
AcceptAnywhere(r) ==
  /\ Validated(r)
  /\ CommitAll
  /\ Goto(r, IF applied[r] = {} THEN "raised" ELSE "succeeding")
  /\ UNCHANGED <<tree, head, edits, plan, database>>

\* After a successful validation.  An answer without files leads to applied[0]
\* of an empty list.
Accept(r) ==
  /\ Validated(r)
  /\ IF onBranch[r] THEN CommitAll ELSE UNCHANGED <<index, snap>>
  /\ Goto(r, IF applied[r] = {} THEN "raised" ELSE "succeeding")
  /\ UNCHANGED <<tree, head, edits, plan, database>>

Outcome(r) == IF pc[r] = "failing" THEN "detected" ELSE "executed"

\* The last flush of the handler.
Record(r) ==
  /\ pc[r] \in {"failing", "succeeding"}
  /\ Lock(r)
  /\ issue' = [issue EXCEPT ![r] = Outcome(r)]
  /\ Goto(r, "ended")
  /\ UNCHANGED <<repo, plan>>

\* The transaction ends: after the message in a chat, with the connection in
\* the terminal.
Close(r) ==
  /\ pc[r] = "ended"
  /\ writer' = Nobody
  /\ Goto(r, "closed")
  /\ UNCHANGED <<repo, plan, issue>>

\* The endpoint catches the exception of applied[0], and its commit flushes
\* the status that was assigned before.
CloseRaised(r) ==
  /\ pc[r] = "raised"
  /\ writer \in {Nobody, r}
  /\ issue' = [issue EXCEPT ![r] = Outcome(r)]
  /\ writer' = Nobody
  /\ Goto(r, "closed")
  /\ UNCHANGED <<repo, plan>>

\* "database is locked" after 30 seconds: the transaction is rolled back.
LockTimeout(r) ==
  /\ pc[r] \in {"failing", "succeeding", "raised"} \/ (pc[r] = "new" /\ r \in Cards)
  /\ writer \notin {Nobody, r}
  /\ Goto(r, "closed")
  /\ UNCHANGED <<repo, plan, database>>

-----------------------------------------------------------------------------
(* The environment *)

\* The process dies: what was not committed in the database is lost, files
\* and git stay as they are.
Crash ==
  /\ \E r \in Fixes : pc[r] \notin {"new", "closed", "crashed"}
  /\ pc' = [r \in Fixes |-> IF pc[r] \in {"new", "closed"} THEN pc[r] ELSE "crashed"]
  /\ issue' = [r \in Fixes |-> IF pc[r] \in {"new", "closed"} THEN issue[r] ELSE "detected"]
  /\ writer' = Nobody
  /\ UNCHANGED <<repo, plan>>

\* A user saves a file.
Edit(f) ==
  /\ edits < MaxEdits
  /\ edits' = edits + 1
  /\ tree' = [tree EXCEPT ![f] = "user"]
  /\ UNCHANGED <<index, snap, head, pc, plan, database>>

Fix(r) ==
  \/ Begin(r) \/ Skip(r) \/ DeleteFile(r) \/ OpenBranch(r)
  \/ ApplyFile(r) \/ ApplyRefused(r) \/ GiveUp(r)
  \/ Reject(r) \/ Accept(r)
  \/ Record(r) \/ Close(r) \/ CloseRaised(r) \/ LockTimeout(r)

Next ==
  \/ \E r \in Fixes : Fix(r)
  \/ Crash
  \/ \E f \in Files : Edit(f)

Spec == Init /\ [][Next]_vars

-----------------------------------------------------------------------------
(***************************************************************************)
(* Properties.  Those below the first hold for fixes started from decision *)
(* cards, which the write lock keeps apart.                                *)
(***************************************************************************)
\* Two fixes that overlap are not both from cards: the lock that was taken for
\* a chat message keeps the second one from touching the working tree.
OneCardAtWork ==
  \A p, q \in Cards : pc[p] \in AtWork /\ pc[q] \in AtWork => p = q

\* No fix commits to the branch the user was on.
MainUntouched == snap[Main] = Start

\* The handler has reported a failure.
Failed(r) == pc[r] \in {"failing", "ended", "closed"} /\ issue[r] # "executed"

\* A fix that has failed, and was not cut off by a crash, leaves nothing
\* behind: its content is in no file and on no branch.
FailureLeavesNothing ==
  \A r \in Fixes : Failed(r) =>
    \A f \in Files : tree[f] # r /\ \A b \in Branches : snap[b][f] # r

\* What an executed fix has committed stays on its branch, whatever later
\* fixes, their rollbacks and crashes do; a user's edit may be in its place.
ExecutedStays ==
  \A r \in Fixes : issue[r] = "executed" /\ snap[r] # Nothing =>
    \/ \A f \in applied[r] : snap[r][f] \in {r, "user"}
    \/ \A f \in applied[r] : snap[r][f] = snap[origin[r]][f]    \* the commit failed

\* Between fixes, the user's branch is checked out, or that of a fix that was
\* executed or cut off.
NoStrayBranch ==
  (\A r \in Fixes : pc[r] \notin AtWork) =>
    \/ head = Main
    \/ issue[head] = "executed"
    \/ pc[head] = "crashed"

\* The roll-back of a fix: neither its files nor its branch stay behind.
LeavesNothingBehind == FailureLeavesNothing /\ NoStrayBranch
=============================================================================
