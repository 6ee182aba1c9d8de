--------------------------- MODULE ArchFixProofs ---------------------------
(***************************************************************************)
(* What ArchFix guarantees for any files, any number of fixes and any      *)
(* edits.  The lock keeps fixes from cards apart (Locked) whatever others  *)
(* do; if all fixes come from cards, each has repository and index for     *)
(* itself, which gives the rest.                                           *)
(*                                                                         *)
(* The strengthening says where the content of a fix can be (Clean), what  *)
(* a fix knows of its branch and of the one it came from (Branching), and  *)
(* that between fixes a settled branch is checked out (HeadSettled).       *)
(***************************************************************************)
EXTENDS ArchFix, TLAPS

Locked ==
  \A r \in Fixes : (r \in Cards /\ pc[r] \in AtWork) \/ pc[r] = "ended" => writer = r

NotStored(r) ==
  /\ \A f \in Files : index[f] # r
  /\ \A b \in Branches, f \in Files : snap[b][f] # r
  /\ \A q \in Fixes, f \in Files : backup[q][f] # r

NotInTree(r) == \A f \in Files : tree[f] # r

\* The fix has not written anything yet, or has taken it back.
Harmless(r) ==
  \/ pc[r] \in {"new", "generating", "failing"}
  \/ pc[r] \in {"ended", "closed"} /\ issue[r] # "executed"

Clean(r) ==
  /\ Harmless(r) => NotStored(r) /\ NotInTree(r)
  /\ pc[r] = "applying" =>
       /\ NotStored(r)
       /\ \A f \in Files : tree[f] = r => f \in applied[r]
       /\ \A f \in applied[r] : tree[f] \in {r, "user"}
       /\ todo[r] \cap applied[r] = {}

\* A branch no fix is going to change.
Settled(b) == b = Main \/ issue[b] = "executed" \/ pc[b] = "crashed"

Kept(r) ==
  \/ snap[r] = Nothing
  \/ \A f \in applied[r] : snap[r][f] \in {r, "user"}
  \/ \A f \in applied[r] : snap[r][f] = snap[origin[r]][f]

Branching(r) ==
  /\ issue[r] = "executed" => pc[r] \in {"ended", "closed"}
  /\ pc[r] \in {"new", "generating"} => applied[r] = {} /\ ~onBranch[r]
  /\ ~onBranch[r] => snap[r] = Nothing
  /\ onBranch[r] => Settled(origin[r]) /\ origin[r] # r
  /\ pc[r] = "applying" =>
       IF onBranch[r] THEN head = r /\ snap[r] = snap[origin[r]] ELSE Settled(head)
  /\ pc[r] \in {"succeeding", "raised"} => head = r \/ Settled(head)
  /\ pc[r] \in {"succeeding", "raised"} \/ issue[r] = "executed" => Kept(r)

HeadSettled ==
  (\A r \in Fixes : pc[r] \notin {"applying", "succeeding", "raised"}) => Settled(head)

IndInv ==
  /\ TypeOK
  /\ Locked
  /\ MainUntouched
  /\ HeadSettled
  /\ \A r \in Fixes : Clean(r) /\ Branching(r)
-----------------------------------------------------------------------------
(* Types and the lock, whoever starts the fixes *)

LEMMA TypeInit == Init => TypeOK
BY TrackedAssumption, EditsAssumption
DEF Init, TypeOK, Start, Nothing, Snapshot, Content, Branches

\* A path through git leaves files with contents of some fix or user.
LEMMA RestoredType ==
  ASSUME TypeOK, NEW r \in Fixes
  PROVE  Restored(r) \in Snapshot
BY DEF TypeOK, Restored, Snapshot

LEMMA ResetType ==
  ASSUME TypeOK, NEW t \in Snapshot
  PROVE  AfterReset(t) \in Snapshot
BY DEF TypeOK, AfterReset, Snapshot

LEMMA CheckoutType ==
  ASSUME TypeOK, NEW t \in Snapshot, NEW b \in Branches, Checkout(t, b)
  PROVE  tree' \in Snapshot /\ index' \in Snapshot /\ head' \in Branches
<1>1. snap[head] \in Snapshot /\ snap[b] \in Snapshot
  BY DEF TypeOK
<1>2. [f \in Files |-> IF snap[head][f] = snap[b][f] THEN t[f] ELSE snap[b][f]] \in Snapshot
  BY <1>1 DEF Snapshot
<1>3. CASE \E f \in Files : snap[head][f] # snap[b][f] /\ t[f] \notin {snap[head][f], snap[b][f]}
  BY <1>1, <1>3 DEF Checkout, TypeOK
<1>4. CASE ~ \E f \in Files : snap[head][f] # snap[b][f] /\ t[f] \notin {snap[head][f], snap[b][f]}
  BY <1>1, <1>2, <1>4 DEF Checkout
<1> QED BY <1>3, <1>4

LEMMA LeaveType ==
  ASSUME TypeOK, NEW r \in Fixes, NEW t \in Snapshot, LeaveBranch(r, t)
  PROVE  /\ tree' \in Snapshot /\ index' \in Snapshot /\ head' \in Branches
         /\ UNCHANGED <<snap, edits>>
<1>1. CASE onBranch[r]
  <2>1. AfterReset(t) \in Snapshot /\ origin[r] \in Branches
    BY ResetType DEF TypeOK
  <2> QED BY <1>1, <2>1, CheckoutType DEF LeaveBranch
<1>2. CASE ~onBranch[r]
  BY <1>2 DEF LeaveBranch, TypeOK
<1> QED BY <1>1, <1>2

LEMMA TypeNext == TypeOK /\ [Next]_vars => TypeOK'
<1> SUFFICES ASSUME TypeOK, [Next]_vars PROVE TypeOK'
  OBVIOUS
<1>1. ASSUME NEW r \in Fixes, Begin(r) \/ Skip(r) \/ DeleteFile(r) PROVE TypeOK'
  BY <1>1 DEF TypeOK, Begin, Skip, DeleteFile, Goto, Lock, repo, plan, database, AtWork
<1>2. ASSUME NEW r \in Fixes, OpenBranch(r) PROVE TypeOK'
  <2>1. PICK changes \in SUBSET Files, created \in BOOLEAN : OpenBranch(r)!(changes, created)
    BY <1>2 DEF OpenBranch
  <2>2. snap[head] \in Snapshot /\ r \in Branches
    BY DEF TypeOK, Branches
  <2>3. snap' \in [Branches -> Snapshot] /\ head' \in Branches
    BY <2>1, <2>2 DEF TypeOK
  <2> QED BY <2>1, <2>3 DEF TypeOK, Goto, database, AtWork
<1>3. ASSUME NEW r \in Fixes, ApplyFile(r) PROVE TypeOK'
  <2>1. PICK f \in todo[r] : ApplyFile(r)!(f)
    BY <1>3 DEF ApplyFile
  <2>2. f \in Files /\ r \in Content
    BY DEF TypeOK, Content
  <2>3. tree' \in Snapshot
    BY <2>1, <2>2 DEF TypeOK, Snapshot
  <2>4. backup' \in [Fixes -> Snapshot]
    BY <2>1, <2>2 DEF TypeOK, Snapshot
  <2> QED BY <2>1, <2>2, <2>3, <2>4 DEF TypeOK, database
<1>4. ASSUME NEW r \in Fixes, ApplyRefused(r) PROVE TypeOK'
  BY <1>4 DEF TypeOK, ApplyRefused, repo, database
<1>5. ASSUME NEW r \in Fixes, GiveUp(r) \/ Reject(r) PROVE TypeOK'
  <2>1. tree' \in Snapshot /\ index' \in Snapshot /\ head' \in Branches /\ UNCHANGED <<snap, edits>>
    BY <1>5, LeaveType, RestoredType DEF TypeOK, GiveUp, Reject
  <2>2. Goto(r, "failing") /\ UNCHANGED <<plan, database>>
    BY <1>5 DEF GiveUp, Reject
  <2> QED BY <2>1, <2>2 DEF TypeOK, Goto, plan, database, AtWork
<1>6. ASSUME NEW r \in Fixes, Accept(r) PROVE TypeOK'
  <2>1. index' \in Snapshot /\ snap' \in [Branches -> Snapshot]
    BY <1>6 DEF Accept, CommitAll, TypeOK
  <2>2. pc' \in [Fixes -> AtWork \cup {"new", "ended", "closed", "crashed"}]
    BY <1>6 DEF Accept, Goto, TypeOK, AtWork
  <2> QED BY <1>6, <2>1, <2>2 DEF Accept, TypeOK, plan, database
<1>7. ASSUME NEW r \in Fixes, Record(r) \/ Close(r) \/ CloseRaised(r) \/ LockTimeout(r)
      PROVE TypeOK'
  BY <1>7 DEF TypeOK, Record, Close, CloseRaised, LockTimeout, Outcome, Goto, Lock,
              repo, plan, database, AtWork
<1>8. CASE Crash
  BY <1>8 DEF TypeOK, Crash, repo, plan
<1>9. ASSUME NEW f \in Files, Edit(f) PROVE TypeOK'
  <2>1. tree' \in Snapshot
    BY <1>9 DEF Edit, TypeOK, Snapshot, Content
  <2>2. edits' \in 0 .. MaxEdits
    BY <1>9, EditsAssumption DEF Edit, TypeOK
  <2> QED BY <1>9, <2>1, <2>2 DEF Edit, TypeOK, plan, database
<1>10. CASE UNCHANGED vars
  BY <1>10 DEF TypeOK, vars, repo, plan, database
<1> QED
  BY <1>1, <1>2, <1>3, <1>4, <1>5, <1>6, <1>7, <1>8, <1>9, <1>10 DEF Next, Fix

LEMMA LockedNext == TypeOK /\ Locked /\ [Next]_vars => Locked'
<1> SUFFICES ASSUME TypeOK, Locked, [Next]_vars PROVE Locked'
  OBVIOUS
<1> USE NamesAssumption DEF Nobody
<1>1. ASSUME NEW r \in Fixes, Begin(r) \/ Skip(r) \/ DeleteFile(r) PROVE Locked'
  BY <1>1 DEF Locked, TypeOK, Begin, Skip, DeleteFile, Goto, Lock, AtWork, database
<1>2. ASSUME NEW r \in Fixes, OpenBranch(r) \/ ApplyFile(r) \/ ApplyRefused(r) PROVE Locked'
  BY <1>2 DEF Locked, TypeOK, OpenBranch, ApplyFile, ApplyRefused, Goto, AtWork, database
<1>3. ASSUME NEW r \in Fixes, GiveUp(r) \/ Reject(r) PROVE Locked'
  BY <1>3 DEF Locked, TypeOK, GiveUp, Reject, Validated, Goto, AtWork, database
<1>4. ASSUME NEW r \in Fixes, Accept(r) PROVE Locked'
  BY <1>4 DEF Locked, TypeOK, Accept, Validated, Goto, AtWork, database
<1>5. ASSUME NEW r \in Fixes, Record(r) PROVE Locked'
  BY <1>5 DEF Locked, TypeOK, Record, Goto, Lock, AtWork
<1>6. ASSUME NEW r \in Fixes, Close(r) \/ CloseRaised(r) PROVE Locked'
  BY <1>6 DEF Locked, TypeOK, Close, CloseRaised, Goto, AtWork
<1>7. ASSUME NEW r \in Fixes, LockTimeout(r) PROVE Locked'
  BY <1>7 DEF Locked, TypeOK, LockTimeout, Goto, AtWork, database
<1>8. CASE Crash
  BY <1>8 DEF Locked, TypeOK, Crash, AtWork
<1>9. ASSUME NEW f \in Files, Edit(f) PROVE Locked'
  BY <1>9 DEF Locked, Edit, database
<1>10. CASE UNCHANGED vars
  BY <1>10 DEF Locked, vars, database
<1> QED
  BY <1>1, <1>2, <1>3, <1>4, <1>5, <1>6, <1>7, <1>8, <1>9, <1>10 DEF Next, Fix

\* Every variable keeps its type, also with fixes that a chat plan starts.
THEOREM TypeCorrect == Spec => []TypeOK
<1> QED BY TypeInit, TypeNext, PTL DEF Spec

\* Two fixes from decision cards never overlap: what keeps them apart is the
\* database lock of the transaction that saved their messages.
THEOREM CardsExclude == Spec => []OneCardAtWork
<1>1. Init => Locked
  BY DEF Init, Locked, AtWork
<1>2. TypeOK /\ Locked => OneCardAtWork
  BY CardsAssumption DEF Locked, OneCardAtWork
<1> QED BY <1>1, <1>2, TypeInit, TypeNext, LockedNext, PTL DEF Spec

-----------------------------------------------------------------------------
(* All fixes from decision cards: what each step does to the repository *)

Waiting(q) == pc[q] \in {"new", "closed", "crashed"}

\* Nowhere in the repository or in a backup.
Without(q) == NotStored(q) /\ NotInTree(q)

\* The holder of the lock, and whoever may take it, is the only fix at work.
LEMMA Alone ==
  ASSUME Cards = Fixes, IndInv, NEW r \in Fixes,
         writer \in {Nobody, r} \/ pc[r] \in AtWork \cup {"ended"}
  PROVE  \A q \in Fixes : q # r => Waiting(q)
BY NamesAssumption DEF IndInv, TypeOK, Locked, Waiting, Nobody

\* A settled branch stays settled: only a crash changes the issue of a fix
\* that has ended.
LEMMA SettledStays ==
  ASSUME Cards = Fixes, IndInv, Next, NEW b \in Branches, Settled(b)
  PROVE  Settled(b)'
<1>1. CASE b = Main
  BY <1>1 DEF Settled
<1>2. ASSUME b # Main PROVE Settled(b)'
  <2>1. /\ b \in Fixes
        /\ pc[b] = "crashed" \/ (issue[b] = "executed" /\ pc[b] \in {"ended", "closed"})
    BY <1>2 DEF Branches, Settled, IndInv, Branching
  <2>2. ASSUME NEW r \in Fixes, Fix(r) PROVE Settled(b)'
    <3>1. CASE r = b
      <4>1. Close(b)
        BY <2>1, <2>2, <3>1
        DEF Fix, Begin, Skip, DeleteFile, OpenBranch, ApplyFile, ApplyRefused, GiveUp, Reject,
            Accept, Validated, Record, Close, CloseRaised, LockTimeout, Goto
      <4> QED BY <2>1, <4>1 DEF Close, Settled, IndInv, TypeOK, Goto
    <3>2. CASE r # b
      <4>1. pc'[b] = pc[b] /\ issue'[b] = issue[b]
        BY <2>1, <2>2, <3>2
        DEF Fix, Begin, Skip, DeleteFile, OpenBranch, ApplyFile, ApplyRefused, GiveUp, Reject,
            Accept, Record, Close, CloseRaised, LockTimeout, Goto, database, IndInv, TypeOK
      <4> QED BY <2>1, <4>1 DEF Settled
    <3> QED BY <3>1, <3>2
  <2>3. CASE Crash
    BY <2>1, <2>3 DEF Crash, Settled
  <2>4. ASSUME NEW f \in Files, Edit(f) PROVE Settled(b)'
    BY <2>1, <2>4 DEF Edit, Settled, database
  <2> QED BY <2>2, <2>3, <2>4 DEF Next
<1> QED BY <1>1, <1>2

\* A step of r that leaves its repository's parts as they are changes nothing
\* for the fixes that wait.
LEMMA WaitingKeep ==
  ASSUME Cards = Fixes, IndInv, Next, NEW r \in Fixes, NEW q \in Fixes, q # r,
         Waiting(q),
         pc'[q] = pc[q], issue'[q] = issue[q],
         onBranch'[q] = onBranch[q], origin'[q] = origin[q], applied'[q] = applied[q],
         todo'[q] = todo[q],
         \A b \in Branches : b # r => snap'[b] = snap[b],
         Without(q) => Without(q)',
         pc[r] # "crashed", issue[r] = "executed" => snap'[r] = snap[r]
  PROVE  Clean(q)' /\ Branching(q)'
<1>1. Clean(q) /\ Branching(q)
  BY DEF IndInv
<1>2. Clean(q)'
  BY <1>1 DEF Clean, Harmless, Waiting, Without
<1>3. snap'[q] = snap[q]
  BY DEF Branches
<1>4. origin[q] \in Branches
  BY DEF IndInv, TypeOK
<1>5. onBranch[q] => Settled(origin[q])' /\ snap'[origin[q]] = snap[origin[q]]
  <2>1. SUFFICES ASSUME onBranch[q]
                 PROVE  Settled(origin[q])' /\ snap'[origin[q]] = snap[origin[q]]
    OBVIOUS
  <2>2. Settled(origin[q])
    BY <1>1, <2>1 DEF Branching
  <2>3. Settled(origin[q])'
    BY <1>4, <2>2, SettledStays DEF Settled
  <2>4. origin[q] = r => issue[r] = "executed"
    BY <2>2, NamesAssumption DEF Settled
  <2> QED BY <1>4, <2>3, <2>4
<1>6. Kept(q) => Kept(q)'
  BY <1>1, <1>3, <1>5 DEF Kept, Branching
<1>7. Branching(q)'
  <2>1. onBranch'[q] => Settled(origin[q])' /\ origin'[q] # q
    BY <1>1, <1>5 DEF Branching, Settled
  <2> QED BY <1>1, <1>3, <1>6, <2>1 DEF Branching, Waiting
<1> QED BY <1>2, <1>7

\* A step of r that touches neither repository nor plan.
LEMMA QuietStep ==
  ASSUME Cards = Fixes, IndInv, Next, NEW r \in Fixes,
         \A q \in Fixes : q # r => Waiting(q),
         UNCHANGED <<repo, plan>>,
         pc[r] \notin {"applying", "crashed"},
         NEW step \in {"generating", "failing", "ended", "closed"},
         Goto(r, step),
         NEW i, issue' = [issue EXCEPT ![r] = i],
         step = "generating" => pc[r] = "new",
         Harmless(r)' => Harmless(r),
         pc[r] \in {"succeeding", "raised"} => i = "executed",
         i = "executed" => /\ step \in {"ended", "closed"}
                           /\ pc[r] \in {"succeeding", "raised"} \/ issue[r] = "executed"
  PROVE  MainUntouched' /\ HeadSettled' /\ \A q \in Fixes : Clean(q)' /\ Branching(q)'
<1>0. /\ \A q \in Fixes : q # r => pc'[q] = pc[q] /\ issue'[q] = issue[q]
      /\ pc'[r] = step /\ issue'[r] = i
      /\ tree' = tree /\ index' = index /\ snap' = snap /\ head' = head
      /\ onBranch' = onBranch /\ origin' = origin /\ todo' = todo /\ applied' = applied
      /\ backup' = backup
  BY DEF IndInv, TypeOK, Goto, repo, plan
<1>1. \A q \in Fixes : Without(q) <=> Without(q)'
  BY <1>0 DEF Without, NotStored, NotInTree
<1>2. MainUntouched'
  BY <1>0 DEF IndInv, MainUntouched
<1>3. HeadSettled'
  <2>1. head \in Branches
    BY DEF IndInv, TypeOK
  <2>2. Settled(head) => Settled(head)'
    BY <2>1, <1>0, SettledStays DEF Settled
  <2>3. CASE Settled(head)
    BY <2>2, <2>3 DEF HeadSettled
  <2>4. CASE ~Settled(head)
    <3>1. pc[r] \in {"succeeding", "raised"}
      BY <2>4 DEF IndInv, HeadSettled, Waiting
    <3>2. head = r
      BY <2>4, <3>1 DEF IndInv, Branching
    <3> QED BY <1>0, <3>1, <3>2 DEF HeadSettled, Settled
  <2> QED BY <2>3, <2>4
<1>4. ASSUME NEW q \in Fixes, q # r PROVE Clean(q)' /\ Branching(q)'
  BY <1>0, <1>1, <1>4, WaitingKeep
<1>5. Clean(r)'
  <2>1. Harmless(r)' => Without(r)'
    BY <1>1 DEF IndInv, Clean, Without
  <2> QED BY <1>0, <2>1 DEF Clean, Without
<1>6. Branching(r)'
  <2>1. Branching(r) /\ origin[r] \in Branches
    BY DEF IndInv, TypeOK
  <2>2. onBranch[r] => Settled(origin[r])'
    BY <2>1, <1>0, SettledStays DEF Branching, Settled
  <2>3. Kept(r) => Kept(r)'
    BY <1>0 DEF Kept
  <2> QED BY <1>0, <2>1, <2>2, <2>3 DEF Branching
<1> QED BY <1>2, <1>3, <1>4, <1>5, <1>6

\* A fix that has not got the lock gives up; another may be at work.
LEMMA TimeoutStep ==
  ASSUME Cards = Fixes, IndInv, Next, NEW r \in Fixes, LockTimeout(r), pc[r] = "new"
  PROVE  MainUntouched' /\ HeadSettled' /\ \A q \in Fixes : Clean(q)' /\ Branching(q)'
<1>0. /\ \A q \in Fixes : q # r => pc'[q] = pc[q]
      /\ pc'[r] = "closed" /\ issue' = issue
      /\ tree' = tree /\ index' = index /\ snap' = snap /\ head' = head
      /\ onBranch' = onBranch /\ origin' = origin /\ todo' = todo /\ applied' = applied
      /\ backup' = backup
  BY DEF IndInv, TypeOK, LockTimeout, Goto, repo, plan, database
<1>1. \A q \in Fixes : NotStored(q)' = NotStored(q) /\ NotInTree(q)' = NotInTree(q)
  BY <1>0 DEF NotStored, NotInTree
<1>2. MainUntouched'
  BY <1>0 DEF IndInv, MainUntouched
<1>3. Settled(head) => Settled(head)'
  <2>1. head \in Branches
    BY DEF IndInv, TypeOK
  <2> QED BY <2>1, <1>0, SettledStays DEF Settled
<1>4. HeadSettled'
  BY <1>0, <1>3 DEF IndInv, HeadSettled
<1>5. ASSUME NEW q \in Fixes PROVE Clean(q)'
  <2>1. Clean(q) /\ (q = r => issue[r] # "executed")
    BY <1>5 DEF IndInv, Branching
  <2>2. Harmless(q)' => Harmless(q)
    BY <1>0, <2>1 DEF Harmless
  <2> QED BY <1>0, <1>1, <2>1, <2>2 DEF Clean
<1>6. ASSUME NEW q \in Fixes PROVE Branching(q)'
  <2>1. Branching(q) /\ origin[q] \in Branches /\ (q = r => issue[r] # "executed")
    BY <1>6 DEF IndInv, TypeOK, Branching
  <2>2. onBranch[q] => Settled(origin[q])'
    BY <2>1, <1>0, SettledStays DEF Branching, Settled
  <2>3. Kept(q) => Kept(q)'
    BY <1>0 DEF Kept
  <2> QED BY <1>0, <1>3, <2>1, <2>2, <2>3 DEF Branching
<1> QED BY <1>2, <1>4, <1>5, <1>6

LEMMA DatabaseSteps ==
  ASSUME Cards = Fixes, IndInv, Next, NEW r \in Fixes,
         \/ Begin(r) \/ Skip(r) \/ DeleteFile(r)
         \/ Record(r) \/ Close(r) \/ CloseRaised(r) \/ LockTimeout(r)
  PROVE  MainUntouched' /\ HeadSettled' /\ \A q \in Fixes : Clean(q)' /\ Branching(q)'
<1> DEFINE Goal == MainUntouched' /\ HeadSettled' /\ \A q \in Fixes : Clean(q)' /\ Branching(q)'
<1>0. /\ issue[r] = "executed" => pc[r] \in {"ended", "closed"}
      /\ pc[r] \in AtWork => writer = r
      /\ issue = [issue EXCEPT ![r] = issue[r]]
      /\ pc \in [Fixes -> AtWork \cup {"new", "ended", "closed", "crashed"}]
      /\ issue \in [Fixes -> {"detected", "executed", "skipped"}]
  BY DEF IndInv, TypeOK, Branching, Locked
<1> HIDE DEF Goal
<1>1. CASE Begin(r)
  <2>1. \A q \in Fixes : q # r => Waiting(q)
    BY <1>1, Alone DEF Begin, Lock
  <2>2. Harmless(r)
    BY <1>1 DEF Begin, Harmless
  <2> QED BY <1>0, <1>1, <2>1, <2>2, QuietStep DEF Begin, Goal
<1>2. CASE Skip(r)
  <2>1. \A q \in Fixes : q # r => Waiting(q)
    BY <1>2, Alone DEF Skip, AtWork
  <2>2. Harmless(r)
    BY <1>2 DEF Skip, Harmless
  <2> QED BY <1>0, <1>2, <2>1, <2>2, QuietStep DEF Skip, Goal
<1>3. CASE DeleteFile(r)
  <2>1. \A q \in Fixes : q # r => Waiting(q)
    BY <1>3, Alone DEF DeleteFile, AtWork
  <2>2. Harmless(r)
    BY <1>3 DEF DeleteFile, Harmless
  <2> QED BY <1>0, <1>3, <2>1, <2>2, QuietStep DEF DeleteFile, Goal, database
<1>4. CASE Record(r)
  <2>1. \A q \in Fixes : q # r => Waiting(q)
    BY <1>4, Alone DEF Record, AtWork
  <2>2. Harmless(r)' => Harmless(r)
    BY <1>0, <1>4 DEF Record, Harmless, Outcome, Goto
  <2> QED BY <1>0, <1>4, <2>1, <2>2, QuietStep DEF Record, Outcome, Goal
<1>5. CASE Close(r)
  <2>1. \A q \in Fixes : q # r => Waiting(q)
    BY <1>5, Alone DEF Close
  <2>2. Harmless(r)' => Harmless(r)
    BY <1>0, <1>5 DEF Close, Harmless, Goto
  <2> QED BY <1>0, <1>5, <2>1, <2>2, QuietStep DEF Close, Goal
<1>6. CASE CloseRaised(r)
  <2>1. \A q \in Fixes : q # r => Waiting(q)
    BY <1>6, Alone DEF CloseRaised, AtWork
  <2>2. ~Harmless(r)'
    BY <1>0, <1>6 DEF CloseRaised, Harmless, Outcome, Goto
  <2> QED BY <1>0, <1>6, <2>1, <2>2, QuietStep DEF CloseRaised, Outcome, Goal
<1>7. CASE LockTimeout(r)
  <2>1. pc[r] = "new"
    BY <1>0, <1>7 DEF LockTimeout, AtWork
  <2> QED BY <1>7, <2>1, TimeoutStep DEF Goal
<1> QED BY <1>1, <1>2, <1>3, <1>4, <1>5, <1>6, <1>7 DEF Goal

-----------------------------------------------------------------------------
(* The steps that write to the repository *)

LEMMA OpenStep ==
  ASSUME Cards = Fixes, IndInv, Next, NEW r \in Fixes, OpenBranch(r)
  PROVE  MainUntouched' /\ HeadSettled' /\ \A q \in Fixes : Clean(q)' /\ Branching(q)'
<1>1. PICK changes \in SUBSET Files, created \in BOOLEAN : OpenBranch(r)!(changes, created)
  BY DEF OpenBranch
<1>2. \A q \in Fixes : q # r => Waiting(q)
  BY <1>1, Alone DEF AtWork
<1>3. /\ head \in Branches /\ r \in Branches /\ Main \in Branches /\ r # Main
      /\ applied[r] = {} /\ ~onBranch[r] /\ issue[r] # "executed"
      /\ Settled(head) /\ head # r /\ Without(r)
  <2>1. Settled(head)
    BY <1>1, <1>2 DEF IndInv, HeadSettled, Waiting
  <2>2. r # Main
    BY NamesAssumption
  <2> QED
    BY <1>1, <2>1, <2>2
    DEF IndInv, TypeOK, Branches, Branching, Clean, Harmless, Without, Settled
<1>4. /\ pc'[r] = "applying"
      /\ \A q \in Fixes : q # r => /\ pc'[q] = pc[q] /\ onBranch'[q] = onBranch[q]
                                   /\ origin'[q] = origin[q] /\ todo'[q] = todo[q]
      /\ onBranch'[r] = created /\ origin'[r] = head
      /\ tree' = tree /\ index' = index /\ issue' = issue /\ applied' = applied
      /\ backup' = backup
  BY <1>1 DEF IndInv, TypeOK, Goto, database
<1>5. /\ \A b \in Branches : b # r => snap'[b] = snap[b]
      /\ created => head' = r /\ snap'[r] = snap[head]
      /\ ~created => head' = head /\ snap' = snap
  BY <1>1, <1>3 DEF IndInv, TypeOK
<1>6. \A q \in Fixes : Without(q) => Without(q)'
  BY <1>3, <1>4, <1>5 DEF Without, NotStored, NotInTree
<1>7. MainUntouched'
  BY <1>3, <1>5 DEF IndInv, MainUntouched
<1>8. HeadSettled'
  BY <1>4 DEF HeadSettled
<1>9. ASSUME NEW q \in Fixes, q # r PROVE Clean(q)' /\ Branching(q)'
  BY <1>1, <1>2, <1>3, <1>4, <1>5, <1>6, <1>9, WaitingKeep
<1>10. Clean(r)'
  BY <1>3, <1>4, <1>6 DEF Clean, Harmless, Without, NotInTree
<1>11. Branching(r)'
  <2>1. Settled(head) => \A b \in Branches : b = head => Settled(b)'
    BY SettledStays
  <2>2. ~created => Settled(head)'
    BY <1>3, <1>5, <2>1 DEF Settled
  <2>3. Settled(origin[r])'
    BY <1>3, <1>4, <2>1 DEF Settled
  <2>4. snap[r] = Nothing
    BY <1>3 DEF IndInv, Branching
  <2> QED BY <1>3, <1>4, <1>5, <2>2, <2>3, <2>4 DEF Branching
<1> QED BY <1>7, <1>8, <1>9, <1>10, <1>11

LEMMA FileSteps ==
  ASSUME Cards = Fixes, IndInv, Next, NEW r \in Fixes, ApplyFile(r) \/ ApplyRefused(r)
  PROVE  MainUntouched' /\ HeadSettled' /\ \A q \in Fixes : Clean(q)' /\ Branching(q)'
<1>1. pc[r] = "applying"
  BY DEF ApplyFile, ApplyRefused
<1>2. \A q \in Fixes : q # r => Waiting(q)
  BY <1>1, Alone DEF AtWork
<1>3. /\ pc' = pc /\ issue' = issue /\ index' = index /\ snap' = snap /\ head' = head
      /\ onBranch' = onBranch /\ origin' = origin
      /\ \A q \in Fixes : q # r => todo'[q] = todo[q] /\ applied'[q] = applied[q]
  BY DEF ApplyFile, ApplyRefused, repo, database, IndInv, TypeOK
<1>4. Clean(r) /\ Branching(r) /\ issue[r] # "executed" /\ todo[r] \subseteq Files
  BY <1>1 DEF IndInv, TypeOK, Branching
<1>5. Clean(r)' /\ \A q \in Fixes : q # r /\ Without(q) => Without(q)'
  <2>1. ASSUME NEW f \in todo[r], ApplyFile(r)!(f)
        PROVE  Clean(r)' /\ \A q \in Fixes : q # r /\ Without(q) => Without(q)'
    <3>1. f \in Files /\ f \notin applied[r] /\ tree[f] # r
      BY <1>1, <1>4 DEF Clean
    <3>2. /\ \A g \in Files : tree'[g] = IF g = f THEN r ELSE tree[g]
          /\ \A q \in Fixes, g \in Files :
               backup'[q][g] = IF q = r /\ g = f THEN tree[f] ELSE backup[q][g]
          /\ applied'[r] = applied[r] \cup {f} /\ todo'[r] = todo[r] \ {f}
      BY <2>1, <3>1 DEF IndInv, TypeOK, Snapshot
    <3>3. NotStored(r)'
      BY <1>1, <1>3, <1>4, <3>1, <3>2 DEF Clean, NotStored
    <3>4. Clean(r)'
      <4>1. applied[r] \subseteq Files
        BY DEF IndInv, TypeOK
      <4>2. todo'[r] \cap applied'[r] = {}
        BY <1>1, <1>4, <3>2 DEF Clean
      <4>3. /\ \A g \in Files : tree'[g] = r => g \in applied'[r]
            /\ \A g \in applied'[r] : tree'[g] \in {r, "user"}
        BY <1>1, <1>4, <3>1, <3>2, <4>1 DEF Clean
      <4> QED BY <1>1, <1>3, <3>3, <4>2, <4>3 DEF Clean, Harmless
    <3>5. ASSUME NEW q \in Fixes, q # r, Without(q) PROVE Without(q)'
      BY <1>3, <3>1, <3>2, <3>5 DEF Without, NotStored, NotInTree
    <3> QED BY <3>4, <3>5
  <2>2. ASSUME NEW f \in todo[r], ApplyRefused(r)!(f)
        PROVE  Clean(r)' /\ \A q \in Fixes : q # r /\ Without(q) => Without(q)'
    <3>1. /\ tree' = tree /\ backup' = backup /\ applied' = applied
          /\ todo'[r] = todo[r] \ {f}
      BY <2>2 DEF repo, IndInv, TypeOK
    <3>2. \A q \in Fixes : /\ NotStored(q) => NotStored(q)'
                           /\ NotInTree(q) => NotInTree(q)'
      BY <1>3, <3>1 DEF NotStored, NotInTree
    <3> QED BY <1>1, <1>3, <1>4, <3>1, <3>2 DEF Clean, Harmless, Without
  <2> QED BY <2>1, <2>2 DEF ApplyFile, ApplyRefused
<1>6. MainUntouched' /\ HeadSettled'
  BY <1>1, <1>3 DEF IndInv, MainUntouched, HeadSettled
<1>7. ASSUME NEW q \in Fixes, q # r PROVE Clean(q)' /\ Branching(q)'
  BY <1>1, <1>2, <1>3, <1>5, <1>7, WaitingKeep
<1>8. Branching(r)'
  BY <1>1, <1>3, <1>4 DEF Branching, Settled
<1> QED BY <1>5, <1>6, <1>7, <1>8

\* Leaving the branch is never refused, as no fix commits while another is
\* at work: the branch still is where it started, and git reset has made the
\* tree the same.  Afterwards nothing of r is left, and a settled branch is
\* checked out.
LEMMA LeaveStep ==
  ASSUME IndInv, NEW r \in Fixes, pc[r] = "applying",
         NEW t \in Snapshot, LeaveBranch(r, t)
  PROVE  /\ snap' = snap
         /\ head' \in Branches /\ Settled(head') /\ head' # r
         /\ \A q \in Fixes :
              NotStored(q) /\ (\A f \in Files : t[f] # q) =>
                \A f \in Files : tree'[f] # q /\ index'[f] # q
<1>1. Branching(r) /\ issue[r] # "executed" /\ r # Main
  BY NamesAssumption DEF IndInv, Branching
<1>2. CASE onBranch[r]
  <2>1. head = r /\ snap[r] = snap[origin[r]] /\ Settled(origin[r]) /\ origin[r] # r
    BY <1>1, <1>2 DEF Branching
  <2>2. origin[r] \in Branches /\ snap[origin[r]] \in Snapshot /\ AfterReset(t) \in Snapshot
    BY ResetType DEF IndInv, TypeOK
  <2>3. Checkout(AfterReset(t), origin[r]) /\ snap' = snap
    BY <1>2 DEF LeaveBranch
  <2>4. /\ tree' = [f \in Files |-> AfterReset(t)[f]]
        /\ index' = snap[origin[r]] /\ head' = origin[r]
    BY <2>1, <2>3 DEF Checkout
  <2>5. ASSUME NEW q \in Fixes, NotStored(q), \A f \in Files : t[f] # q, NEW f \in Files
        PROVE  tree'[f] # q /\ index'[f] # q
    <3>1. snap[origin[r]][f] # q
      BY <2>2, <2>5 DEF NotStored
    <3>2. AfterReset(t)[f] \in {snap[origin[r]][f], t[f]}
      BY <2>1 DEF AfterReset
    <3> QED BY <2>4, <2>5, <3>1, <3>2
  <2> QED BY <2>1, <2>2, <2>3, <2>4, <2>5
<1>3. CASE ~onBranch[r]
  <2>1. Settled(head) /\ head \in Branches
    BY <1>1, <1>3 DEF Branching, IndInv, TypeOK
  <2>2. tree' = t /\ index' = index /\ head' = head /\ snap' = snap
    BY <1>3 DEF LeaveBranch
  <2>3. head # r
    BY <1>1, <2>1 DEF Settled
  <2> QED BY <2>1, <2>2, <2>3 DEF NotStored
<1> QED BY <1>2, <1>3

LEMMA FailSteps ==
  ASSUME Cards = Fixes, IndInv, Next, NEW r \in Fixes, GiveUp(r) \/ Reject(r)
  PROVE  MainUntouched' /\ HeadSettled' /\ \A q \in Fixes : Clean(q)' /\ Branching(q)'
<1>1. pc[r] = "applying"
  BY DEF GiveUp, Reject, Validated
<1>2. \A q \in Fixes : q # r => Waiting(q)
  BY <1>1, Alone DEF AtWork
<1>3. PICK t \in {tree, Restored(r)} : LeaveBranch(r, t) /\ (t = tree => applied[r] = {} \/ tree = Restored(r))
  BY DEF GiveUp, Reject
<1>4. t \in Snapshot /\ tree \in Snapshot /\ Branching(r) /\ Clean(r) /\ issue[r] # "executed"
  BY <1>1, RestoredType DEF IndInv, TypeOK, Branching
<1>5. /\ pc'[r] = "failing" /\ issue' = issue
      /\ \A q \in Fixes : q # r => pc'[q] = pc[q]
      /\ onBranch' = onBranch /\ origin' = origin /\ todo' = todo
      /\ applied' = applied /\ backup' = backup
  BY DEF GiveUp, Reject, Goto, plan, database, IndInv, TypeOK
<1>6. ASSUME NEW q \in Fixes, NotStored(q), q = r \/ NotInTree(q)
      PROVE  \A f \in Files : t[f] # q
  <2>1. ASSUME NEW f \in Files PROVE Restored(r)[f] # q
    <3>1. Restored(r)[f] = IF f \in applied[r] THEN backup[r][f] ELSE tree[f]
      BY DEF Restored
    <3>2. backup[r][f] # q
      BY <1>6 DEF NotStored
    <3>3. f \notin applied[r] => tree[f] # q
      BY <1>1, <1>4, <1>6 DEF Clean, NotInTree
    <3> QED BY <3>1, <3>2, <3>3
  <2>2. ASSUME applied[r] = {} PROVE \A f \in Files : tree[f] # q
    BY <1>1, <1>4, <1>6, <2>2 DEF Clean, NotInTree
  <2> QED BY <1>3, <2>1, <2>2
<1>7. /\ snap' = snap
      /\ head' \in Branches /\ Settled(head') /\ head' # r
      /\ \A q \in Fixes : NotStored(q) /\ (\A f \in Files : t[f] # q) =>
                            \A f \in Files : tree'[f] # q /\ index'[f] # q
  BY <1>1, <1>3, <1>4, LeaveStep
<1>8. \A q \in Fixes : NotStored(q) /\ (q = r \/ NotInTree(q)) => Without(q)'
  BY <1>5, <1>6, <1>7 DEF Without, NotStored, NotInTree
<1>9. MainUntouched'
  BY <1>7 DEF IndInv, MainUntouched
<1>10. HeadSettled'
  <2>1. \A b \in Branches : Settled(b) /\ b # r => b = Main \/ issue'[b] = "executed" \/ pc'[b] = "crashed"
    BY <1>5 DEF Settled, Branches
  <2>2. head' = Main \/ issue'[head'] = "executed" \/ pc'[head'] = "crashed"
    BY <1>7, <2>1
  <2> QED BY <2>2 DEF HeadSettled, Settled
<1>11. ASSUME NEW q \in Fixes, q # r PROVE Clean(q)' /\ Branching(q)'
  BY <1>1, <1>2, <1>5, <1>7, <1>8, <1>11, WaitingKeep DEF Without
<1>12. Clean(r)'
  BY <1>1, <1>4, <1>5, <1>8 DEF Clean, Without
<1>13. Branching(r)'
  <2>1. onBranch[r] => Settled(origin[r])'
    BY <1>4, <1>5, SettledStays DEF IndInv, TypeOK, Branching, Settled
  <2> QED BY <1>4, <1>5, <1>7, <2>1 DEF Branching
<1> QED BY <1>9, <1>10, <1>11, <1>12, <1>13

LEMMA AcceptStep ==
  ASSUME Cards = Fixes, IndInv, Next, NEW r \in Fixes, Accept(r)
  PROVE  MainUntouched' /\ HeadSettled' /\ \A q \in Fixes : Clean(q)' /\ Branching(q)'
<1>1. pc[r] = "applying"
  BY DEF Accept, Validated
<1>2. \A q \in Fixes : q # r => Waiting(q)
  BY <1>1, Alone DEF AtWork
<1>3. /\ Branching(r) /\ Clean(r) /\ issue[r] # "executed" /\ r # Main
      /\ r \in Branches /\ Main \in Branches /\ applied[r] \subseteq Files
  BY <1>1, NamesAssumption DEF IndInv, TypeOK, Branches, Branching
<1>4. /\ pc'[r] \in {"raised", "succeeding"} /\ issue' = issue
      /\ \A q \in Fixes : q # r => pc'[q] = pc[q]
      /\ onBranch' = onBranch /\ origin' = origin /\ todo' = todo
      /\ applied' = applied /\ backup' = backup /\ tree' = tree /\ head' = head
  BY DEF Accept, Goto, plan, database, IndInv, TypeOK
<1>5. /\ \A b \in Branches : b # r => snap'[b] = snap[b]
      /\ index' = index \/ index' = tree
      /\ snap' = snap \/ (onBranch[r] /\ snap'[r] = tree)
  <2>1. CASE onBranch[r]
    <3>1. head = r
      BY <1>1, <1>3, <2>1 DEF Branching
    <3> QED BY <1>3, <2>1, <3>1 DEF Accept, CommitAll, IndInv, TypeOK
  <2>2. CASE ~onBranch[r]
    BY <2>2 DEF Accept
  <2> QED BY <2>1, <2>2
<1>6. \A q \in Fixes : Without(q) => Without(q)'
  BY <1>4, <1>5 DEF Without, NotStored, NotInTree
<1>7. MainUntouched' /\ HeadSettled'
  BY <1>3, <1>4, <1>5 DEF IndInv, MainUntouched, HeadSettled
<1>8. ASSUME NEW q \in Fixes, q # r PROVE Clean(q)' /\ Branching(q)'
  BY <1>1, <1>2, <1>3, <1>4, <1>5, <1>6, <1>8, WaitingKeep
<1>9. Clean(r)'
  BY <1>3, <1>4 DEF Clean, Harmless
<1>10. Branching(r)'
  <2>1. onBranch[r] => Settled(origin[r])' /\ origin[r] \in Branches
    BY <1>3, <1>4, SettledStays DEF IndInv, TypeOK, Branching, Settled
  <2>2. ~onBranch[r] => Settled(head)'
    BY <1>1, <1>3, <1>4, SettledStays DEF IndInv, TypeOK, Branching, Settled
  <2>3. Kept(r)'
    <3>1. CASE ~onBranch[r]
      BY <1>3, <1>5, <3>1 DEF Branching, Kept
    <3>2. CASE onBranch[r] /\ snap' = snap
      BY <1>1, <1>3, <1>4, <3>2 DEF Branching, Kept
    <3>3. CASE snap'[r] = tree
      BY <1>1, <1>3, <1>4, <3>3 DEF Clean, Kept
    <3> QED BY <1>5, <3>1, <3>2, <3>3
  <2> QED BY <1>1, <1>3, <1>4, <1>5, <2>1, <2>2, <2>3 DEF Branching
<1> QED BY <1>7, <1>8, <1>9, <1>10

\* The process dies: what is on a branch of a fix stays as it is.
LEMMA CrashStep ==
  ASSUME Cards = Fixes, IndInv, Next, Crash
  PROVE  MainUntouched' /\ HeadSettled' /\ \A q \in Fixes : Clean(q)' /\ Branching(q)'
<1>1. /\ \A q \in Fixes : pc[q] \in {"new", "closed"} => pc'[q] = pc[q] /\ issue'[q] = issue[q]
      /\ \A q \in Fixes : pc[q] \notin {"new", "closed"} =>
                            pc'[q] = "crashed" /\ issue'[q] = "detected"
      /\ tree' = tree /\ index' = index /\ snap' = snap /\ head' = head
      /\ onBranch' = onBranch /\ origin' = origin /\ todo' = todo
      /\ applied' = applied /\ backup' = backup
  BY DEF Crash, repo, plan
<1>2. MainUntouched'
  BY <1>1 DEF IndInv, MainUntouched
<1>3. HeadSettled'
  <2>1. head \in Branches
    BY DEF IndInv, TypeOK
  <2>2. CASE Settled(head)
    BY <1>1, <2>1, <2>2, SettledStays DEF HeadSettled, Settled
  <2>3. CASE ~Settled(head)
    <3>1. PICK r \in Fixes : pc[r] \in {"applying", "succeeding", "raised"}
      BY <2>3 DEF IndInv, HeadSettled
    <3>2. head = r
      BY <2>3, <3>1 DEF IndInv, Branching
    <3> QED BY <1>1, <3>1, <3>2 DEF HeadSettled, Settled
  <2> QED BY <2>2, <2>3
<1>4. ASSUME NEW q \in Fixes PROVE Clean(q)' /\ Branching(q)'
  <2>1. Clean(q) /\ Branching(q) /\ origin[q] \in Branches
    BY <1>4 DEF IndInv, TypeOK
  <2>2. NotStored(q) /\ NotInTree(q) => NotStored(q)' /\ NotInTree(q)'
    BY <1>1 DEF NotStored, NotInTree
  <2>3. onBranch[q] => Settled(origin[q])'
    BY <1>1, <2>1, SettledStays DEF Branching, Settled
  <2>4. Kept(q) => Kept(q)'
    BY <1>1 DEF Kept
  <2>5. Clean(q)'
    BY <1>1, <1>4, <2>1, <2>2 DEF Clean, Harmless
  <2>6. Branching(q)'
    BY <1>1, <1>4, <2>1, <2>3, <2>4 DEF Branching
  <2> QED BY <2>5, <2>6
<1> QED BY <1>2, <1>3, <1>4

\* A user's edit is no fix's content.
LEMMA EditStep ==
  ASSUME Cards = Fixes, IndInv, Next, NEW f \in Files, Edit(f)
  PROVE  MainUntouched' /\ HeadSettled' /\ \A q \in Fixes : Clean(q)' /\ Branching(q)'
<1>1. /\ pc' = pc /\ issue' = issue /\ index' = index /\ snap' = snap /\ head' = head
      /\ onBranch' = onBranch /\ origin' = origin /\ todo' = todo
      /\ applied' = applied /\ backup' = backup
      /\ \A g \in Files : tree'[g] = IF g = f THEN "user" ELSE tree[g]
  BY DEF Edit, plan, database, IndInv, TypeOK, Snapshot
<1>2. MainUntouched' /\ HeadSettled'
  BY <1>1 DEF IndInv, MainUntouched, HeadSettled, Settled
<1>3. ASSUME NEW q \in Fixes PROVE Clean(q)' /\ Branching(q)'
  <2>1. Clean(q) /\ Branching(q) /\ q # "user" /\ applied[q] \subseteq Files
    BY <1>3, NamesAssumption DEF IndInv, TypeOK
  <2>2. /\ NotStored(q) => NotStored(q)'
        /\ NotInTree(q) => NotInTree(q)'
    BY <1>1, <2>1 DEF NotStored, NotInTree
  <2>3. Clean(q)'
    BY <1>1, <2>1, <2>2 DEF Clean, Harmless
  <2>4. Branching(q)'
    BY <1>1, <2>1 DEF Branching, Settled, Kept
  <2> QED BY <2>3, <2>4
<1> QED BY <1>2, <1>3

LEMMA IndInit == Init => IndInv
<1> SUFFICES ASSUME Init PROVE IndInv
  OBVIOUS
<1>1. TypeOK
  BY TypeInit
<1>2. Locked /\ HeadSettled
  BY DEF Init, Locked, AtWork, HeadSettled, Settled
<1>3. MainUntouched
  BY DEF Init, MainUntouched, Branches
<1>4. ASSUME NEW r \in Fixes PROVE Clean(r) /\ Branching(r)
  <2>1. r \notin {Main, "base", Absent} /\ r \in Branches
    BY <1>4, NamesAssumption DEF Branches
  <2>2. \A f \in Files : Start[f] # r /\ Nothing[f] # r
    BY <2>1 DEF Start, Nothing
  <2>3. NotStored(r) /\ NotInTree(r)
    BY <2>1, <2>2 DEF Init, NotStored, NotInTree
  <2>4. snap[r] = Nothing
    BY <2>1 DEF Init
  <2> QED BY <2>3, <2>4 DEF Init, Clean, Branching
<1> QED BY <1>1, <1>2, <1>3, <1>4 DEF IndInv

LEMMA IndNext ==
  ASSUME Cards = Fixes
  PROVE  IndInv /\ [Next]_vars => IndInv'
<1> SUFFICES ASSUME IndInv, [Next]_vars PROVE IndInv'
  OBVIOUS
<1>1. TypeOK' /\ Locked'
  BY TypeNext, LockedNext DEF IndInv
<1>2. CASE Next
  <2>1. MainUntouched' /\ HeadSettled' /\ \A q \in Fixes : Clean(q)' /\ Branching(q)'
    BY <1>2, DatabaseSteps, OpenStep, FileSteps, FailSteps, AcceptStep, CrashStep, EditStep
    DEF Next, Fix
  <2> QED BY <1>1, <2>1 DEF IndInv
<1>3. CASE UNCHANGED vars
  BY <1>1, <1>3
  DEF IndInv, MainUntouched, HeadSettled, Clean, Branching, Harmless, NotStored, NotInTree,
      Settled, Kept, vars, repo, plan, database
<1> QED BY <1>2, <1>3

LEMMA Inductive ==
  ASSUME Cards = Fixes
  PROVE  Spec => []IndInv
<1> QED BY IndInit, IndNext, PTL DEF Spec

-----------------------------------------------------------------------------
(* What it gives *)

\* Fixes from decision cards never commit to the branch the user was on.
THEOREM UserBranchKept ==
  ASSUME Cards = Fixes
  PROVE  Spec => []MainUntouched
<1>1. IndInv => MainUntouched
  BY DEF IndInv
<1> QED BY <1>1, Inductive, PTL

\* What an executed fix has committed is still on its branch.
THEOREM CommitsKept ==
  ASSUME Cards = Fixes
  PROVE  Spec => []ExecutedStays
<1>1. IndInv => ExecutedStays
  BY DEF IndInv, Branching, Kept, ExecutedStays
<1> QED BY <1>1, Inductive, PTL

\* A failed fix leaves nothing behind, in no file and on no branch, and its
\* branch does not stay checked out.
THEOREM RolledBack ==
  ASSUME Cards = Fixes
  PROVE  Spec => []LeavesNothingBehind
<1>1. IndInv => FailureLeavesNothing
  BY DEF IndInv, Clean, Harmless, Failed, FailureLeavesNothing, NotStored, NotInTree
<1>2. IndInv => NoStrayBranch
  BY DEF IndInv, HeadSettled, NoStrayBranch, AtWork, Settled
<1> QED BY <1>1, <1>2, Inductive, PTL DEF LeavesNothingBehind
=============================================================================
