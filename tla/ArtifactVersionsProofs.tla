----------------------- MODULE ArtifactVersionsProofs -----------------------
(***************************************************************************)
(* What ArtifactVersions guarantees for any number of calls.               *)
(*                                                                         *)
(* SavedIsKept is almost inductive, since versions only grow.  OneAtATime  *)
(* speaks of what calls leave that did not overlap.  Its strengthening     *)
(* says so much of a call in flight: the numbers it counts from are the    *)
(* rows' own as long as nobody else is in flight (Counting), and the file  *)
(* is the one it has compared, or has written (Writing).                   *)
(***************************************************************************)
EXTENDS ArtifactVersions, SequenceTheorems, TLAPS

Before == {"checking", "selecting", "reading", "writing", "filling", "filled"}
Opened == {"filling", "filled", "updated", "numbered"}

InOrder == \A i, j \in DOMAIN versions : i < j => versions[i].number < versions[j].number
UpTo(n) == \A i \in DOMAIN versions : versions[i].number \in 2 .. n

Alone == \A p, q \in Requests : InFlight(p) /\ InFlight(q) => p = q

\* The numbers of a call in flight, if none overlap.
Counting(r) ==
  /\ call[r].step \in Before => call[r].base = current
  /\ call[r].step \in {"updated", "numbered"} =>
       current = call[r].base + 1 /\ UpTo(call[r].base)
  /\ call[r].step = "numbered" => call[r].number = current

\* What the calls know of the file, if none overlap and nobody else writes it.
Writing(r) ==
  /\ call[r].step = "writing" /\ call[r].expected # NoHash => file = call[r].expected
  /\ call[r].step \in Opened \cup {"done"} /\ call[r].expected # NoHash =>
       call[r].replaced = call[r].expected
  /\ call[r].step = "writing" /\ call[r].kind = "edit" /\ ~call[r].conflict =>
       call[r].synced \in {NoHash, file}
  /\ call[r].step \in Opened \cup {"done"} /\ call[r].kind = "edit" /\ ~call[r].conflict =>
       call[r].synced \in {NoHash, call[r].replaced}
  /\ call[r].step = "filling" => file = Empty
  /\ call[r].step \in {"filled", "updated", "numbered"} => file = call[r].content

\* Only a save checks a hash, only an edit looks for a conflict.
Kinded(r) ==
  /\ call[r].step \in {"selecting", "reading"} => call[r].expected = NoHash
  /\ call[r].step \in {"checking", "selecting"} => call[r].kind # "edit"

LastIsOnDisk ==
  NoneFailed /\ versions # <<>> /\ (\A r \in Requests : call[r].step \notin Opened) =>
    file = versions[Len(versions)].content

Saved(r) ==
  Done(r) => \E i \in DOMAIN versions :
    versions[i] = [number |-> call[r].number, content |-> call[r].content]

IndInv ==
  /\ TypeOK
  /\ \A r \in Requests : Kinded(r) /\ Saved(r)
  /\ ~overlapped =>
       Alone /\ InOrder /\ UpTo(current) /\ \A r \in Requests : Counting(r)
  /\ ~overlapped /\ externals = 0 =>
       file # Absent /\ LastIsOnDisk /\ \A r \in Requests : Writing(r)

-----------------------------------------------------------------------------
(* What a step does to the calls *)

LEMMA Moved ==
  ASSUME TypeOK, NEW r \in Requests, NEW s \in Steps, Goto(r, s)
  PROVE  /\ call' \in [Requests -> Call]
         /\ call'[r].step = s
         /\ call'[r].kind = call[r].kind
         /\ call'[r].expected = call[r].expected
         /\ call'[r].base = call[r].base
         /\ call'[r].synced = call[r].synced
         /\ call'[r].content = call[r].content
         /\ call'[r].number = call[r].number
         /\ call'[r].conflict = call[r].conflict
         /\ call'[r].replaced = call[r].replaced
         /\ \A q \in Requests \ {r} : call'[q] = call[q]
BY DEF Goto, TypeOK, Call

LEMMA Loaded ==
  ASSUME TypeOK, NEW r \in Requests, NEW k \in Kinds, NEW s \in Steps,
         NEW e \in Content \cup {NoHash}, NEW c \in Content,
         Load(r, k, s, [expected |-> e, content |-> c])
  PROVE  /\ call' \in [Requests -> Call]
         /\ call'[r].step = s
         /\ call'[r].kind = k
         /\ call'[r].expected = e
         /\ call'[r].base = current
         /\ \A q \in Requests \ {r} : call'[q] = call[q]
BY DEF Load, TypeOK, Call

LEMMA Typed ==
  ASSUME TypeOK, NEW r \in Requests
  PROVE  /\ call[r].step \in Steps /\ call[r].kind \in Kinds
         /\ call[r].expected \in Content \cup {NoHash}
         /\ call[r].base \in Nat \ {0} /\ current \in Nat \ {0}
         /\ call[r].synced \in Content \cup {NoHash}
         /\ call[r].content \in Content
         /\ call[r].number \in Nat
         /\ call[r].replaced \in Content \cup {Absent}
BY DEF TypeOK, Call

LEMMA VersionsTyped ==
  ASSUME TypeOK
  PROVE  \A i \in DOMAIN versions :
           versions[i] \in Version /\ versions[i].content \in Content
<1>1. versions \in Seq(Version) BY DEF TypeOK
<1>2. \A i \in DOMAIN versions : versions[i] \in Version BY <1>1
<1>3. \A v \in Version : v.content \in Content BY DEF Version
<1> QED BY <1>2, <1>3

\* While r is in flight and no calls overlap, the others have nothing to lose.
LEMMA OthersKept ==
  ASSUME IndInv, NEW r \in Requests, InFlight(r),
         \A q \in Requests \ {r} : call'[q] = call[q],
         ~overlapped, overlapped' = overlapped
  PROVE  /\ Alone'
         /\ \A q \in Requests \ {r} : Counting(q)' /\ ~InFlight(q) /\ ~InFlight(q)'
         /\ externals = 0 => \A q \in Requests \ {r} : Writing(q)'
<1>1. \A q \in Requests \ {r} : ~InFlight(q) BY DEF IndInv, Alone
<1>2. \A q \in Requests \ {r} : ~InFlight(q)' BY <1>1 DEF InFlight
<1>3. \A q \in Requests \ {r} : call[q].step \notin Before \cup Opened
  BY <1>1 DEF InFlight, Before, Opened, Finished, IndInv, TypeOK, Call, Steps
<1>4. Alone' BY <1>2 DEF Alone
<1>5. \A q \in Requests \ {r} : Counting(q)' BY <1>3 DEF Counting, Before, Opened
<1>6. externals = 0 => \A q \in Requests \ {r} : Writing(q)'
  <2> SUFFICES ASSUME externals = 0, NEW q \in Requests \ {r} PROVE Writing(q)' OBVIOUS
  <2>1. Writing(q) BY DEF IndInv
  <2> QED BY <1>3, <2>1 DEF Writing, Before, Opened
<1> QED BY <1>1, <1>2, <1>4, <1>5, <1>6

LEMMA OthersSaved ==
  ASSUME IndInv, NEW r \in Requests, versions' = versions,
         \A q \in Requests \ {r} : call'[q] = call[q]
  PROVE  \A q \in Requests \ {r} : Kinded(q)' /\ Saved(q)'
BY DEF IndInv, Kinded, Saved, Done

\* Steps that touch neither the file nor the tables.
LEMMA Quiet ==
  ASSUME IndInv, NEW r \in Requests, InFlight(r),
         call' \in [Requests -> Call],
         \A q \in Requests \ {r} : call'[q] = call[q],
         UNCHANGED <<file, current, synced, versions, externals, overlapped>>,
         Kinded(r)', Saved(r)',
         ~overlapped => Counting(r)',
         ~overlapped /\ externals = 0 => Writing(r)',
         call[r].step \in Opened => call'[r].step \in Opened \cup {"failed"}
  PROVE  IndInv'
<1>1. TypeOK' BY DEF IndInv, TypeOK
<1>2. \A q \in Requests : Kinded(q)' /\ Saved(q)' BY OthersSaved
<1>3. ~overlapped' =>
        Alone' /\ InOrder' /\ UpTo(current)' /\ \A q \in Requests : Counting(q)'
  BY OthersKept DEF IndInv, InOrder, UpTo
<1>4. ~overlapped' /\ externals' = 0 =>
        file' # Absent /\ LastIsOnDisk' /\ \A q \in Requests : Writing(q)'
  <2> SUFFICES ASSUME ~overlapped, externals = 0
               PROVE  file # Absent /\ LastIsOnDisk' /\ \A q \in Requests : Writing(q)'
    OBVIOUS
  <2>1. LastIsOnDisk'
    <3> SUFFICES ASSUME NoneFailed', versions # <<>>,
                        \A q \in Requests : call'[q].step \notin Opened
                 PROVE  file = versions[Len(versions)].content
      BY DEF LastIsOnDisk
    <3>1. call[r].step \notin Opened BY DEF NoneFailed
    <3>2. call[r].step # "failed" BY DEF InFlight, Finished
    <3>3. NoneFailed BY <3>2 DEF NoneFailed
    <3> QED BY <3>1, <3>3 DEF IndInv, LastIsOnDisk
  <2> QED BY <2>1, OthersKept DEF IndInv
<1> QED BY <1>1, <1>2, <1>3, <1>4 DEF IndInv

-----------------------------------------------------------------------------
(* One lemma for each kind of step *)

LEMMA LoadInv ==
  ASSUME IndInv, NEW r \in Requests, NEW k \in Kinds, NEW s \in Steps,
         NEW e \in Content \cup {NoHash}, NEW c \in Content,
         Load(r, k, s, [expected |-> e, content |-> c]),
         \/ k = "save" /\ s = (IF e = NoHash THEN "writing" ELSE "checking")
         \/ k = "rollback" /\ s = "selecting" /\ e = NoHash
         \/ k = "edit" /\ s = "reading" /\ e = NoHash
  PROVE  IndInv'
<1>1. /\ call' \in [Requests -> Call]
      /\ call'[r].step = s /\ call'[r].kind = k /\ call'[r].expected = e
      /\ call'[r].base = current
      /\ \A q \in Requests \ {r} : call'[q] = call[q]
  BY Loaded DEF IndInv
<1>2. /\ call[r].step = "new"
      /\ UNCHANGED <<file, current, synced, versions, externals>>
      /\ overlapped' = (overlapped \/ \E q \in Requests : InFlight(q))
  BY DEF Load
<1>3. TypeOK' BY <1>1, <1>2 DEF IndInv, TypeOK
<1>4. Kinded(r)' /\ Saved(r)'
  BY <1>1 DEF Kinded, Saved, Done
<1>5. \A q \in Requests : Kinded(q)' /\ Saved(q)' BY <1>1, <1>2, <1>4, OthersSaved
<1>6. ASSUME ~overlapped'
      PROVE  /\ ~overlapped
             /\ \A q \in Requests : ~InFlight(q)
             /\ \A q \in Requests \ {r} : ~InFlight(q)'
             /\ \A q \in Requests : call[q].step \notin Before \cup Opened
  <2>1. ~overlapped /\ \A q \in Requests : ~InFlight(q) BY <1>2, <1>6
  <2> QED BY <1>1, <2>1
          DEF InFlight, Before, Opened, Finished, IndInv, TypeOK, Call, Steps
<1>7. ~overlapped' =>
        Alone' /\ InOrder' /\ UpTo(current)' /\ \A q \in Requests : Counting(q)'
  <2> SUFFICES ASSUME ~overlapped'
               PROVE  Alone' /\ InOrder' /\ UpTo(current)' /\ \A q \in Requests : Counting(q)'
    OBVIOUS
  <2>1. Alone' BY <1>6 DEF Alone
  <2>2. InOrder' /\ UpTo(current)' BY <1>2, <1>6 DEF IndInv, InOrder, UpTo
  <2>3. Counting(r)' BY <1>1, <1>2 DEF Counting, Before
  <2>4. \A q \in Requests \ {r} : Counting(q)'
    BY <1>1, <1>6 DEF Counting, Before, Opened
  <2> QED BY <2>1, <2>2, <2>3, <2>4
<1>8. ~overlapped' /\ externals' = 0 =>
        file' # Absent /\ LastIsOnDisk' /\ \A q \in Requests : Writing(q)'
  <2> SUFFICES ASSUME ~overlapped', externals = 0
               PROVE  file # Absent /\ LastIsOnDisk' /\ \A q \in Requests : Writing(q)'
    BY <1>2
  <2>1. file # Absent /\ LastIsOnDisk /\ \A q \in Requests : Writing(q)
    BY <1>6 DEF IndInv
  <2>2. LastIsOnDisk'
    <3>1. NoneFailed' => NoneFailed BY <1>1, <1>2 DEF NoneFailed
    <3> QED BY <1>2, <1>6, <2>1, <3>1 DEF LastIsOnDisk
  <2>3. Writing(r)' BY <1>1 DEF Writing, Opened
  <2>4. \A q \in Requests \ {r} : Writing(q)'
    BY <1>1, <1>2, <1>6, <2>1 DEF Writing, Before, Opened
  <2> QED BY <2>1, <2>2, <2>3, <2>4
<1> QED BY <1>3, <1>5, <1>7, <1>8 DEF IndInv

LEMMA BeginInv ==
  ASSUME IndInv, NEW r \in Requests, BeginSave(r) \/ BeginRollback(r) \/ BeginEdit(r)
  PROVE  IndInv'
<1>0. r \in Content /\ Empty \in Content /\ NoHash \in Content \cup {NoHash}
  BY DEF Content
<1>1. CASE BeginSave(r)
  <2>1. PICK e \in {NoHash, "made"} \cup Readable \cup {v.content : v \in Recorded} :
          Load(r, "save", IF e = NoHash THEN "writing" ELSE "checking",
               [expected |-> e, content |-> r])
    BY <1>1 DEF BeginSave
  <2>2. \A v \in Recorded : v.content \in Content
    BY VersionsTyped DEF Recorded, IndInv
  <2>3. Readable \subseteq Content
    BY <2>2 DEF Readable, IndInv, TypeOK, Content
  <2>4. e \in Content \cup {NoHash} BY <2>2, <2>3 DEF Content
  <2> QED BY <1>0, <2>1, <2>4, LoadInv DEF Kinds, Steps
<1>2. CASE BeginRollback(r) BY <1>0, <1>2, LoadInv DEF BeginRollback, Kinds, Steps
<1>3. CASE BeginEdit(r) BY <1>0, <1>3, LoadInv DEF BeginEdit, Kinds, Steps
<1> QED BY <1>1, <1>2, <1>3

LEMMA CheckInv == ASSUME IndInv, NEW r \in Requests, Check(r) PROVE IndInv'
<1>1. PICK c \in Readable : Goto(r, IF c = call[r].expected THEN "writing" ELSE "refused")
  BY DEF Check
<1> DEFINE s == IF c = call[r].expected THEN "writing" ELSE "refused"
<1>2. s \in Steps BY DEF Steps
<1>3. Goto(r, s) BY <1>1
<1> HIDE DEF s
<1>4. /\ call' \in [Requests -> Call] /\ call'[r].step = s
      /\ call'[r].kind = call[r].kind /\ call'[r].expected = call[r].expected
      /\ call'[r].base = call[r].base
      /\ \A q \in Requests \ {r} : call'[q] = call[q]
  BY <1>2, <1>3, Moved DEF IndInv
<1>5. /\ call[r].step = "checking" /\ s \in {"writing", "refused"}
      /\ UNCHANGED <<file, current, synced, versions, externals, overlapped>>
  BY DEF Check, s
<1>6. call[r].kind # "edit" BY <1>5 DEF IndInv, Kinded
<1>7. InFlight(r) BY <1>5 DEF InFlight, Finished
<1>8. Kinded(r)' /\ Saved(r)' BY <1>4, <1>5 DEF Kinded, Saved, Done
<1>9. ~overlapped => Counting(r)'
  BY <1>4, <1>5 DEF IndInv, Counting, Before
<1>10. ~overlapped /\ externals = 0 => Writing(r)'
  <2> SUFFICES ASSUME ~overlapped, externals = 0 PROVE Writing(r)' OBVIOUS
  <2>1. file # Absent BY DEF IndInv
  <2>2. s = "writing" => file = call[r].expected BY <2>1 DEF Readable, s
  <2> QED BY <1>4, <1>5, <1>6, <2>2 DEF Writing, Opened
<1> QED BY <1>4, <1>5, <1>7, <1>8, <1>9, <1>10, Quiet DEF Opened

LEMMA SelectVersionInv == ASSUME IndInv, NEW r \in Requests, SelectVersion(r) PROVE IndInv'
<1>1. /\ call[r].step = "selecting"
      /\ UNCHANGED <<file, current, synced, versions, externals, overlapped>>
      /\ \/ \E i \in DOMAIN versions :
              call' = [call EXCEPT ![r].step = "writing", ![r].content = versions[i].content]
         \/ Goto(r, "refused") \/ Goto(r, "failed")
  BY DEF SelectVersion, Numbered
<1>2. /\ call' \in [Requests -> Call]
      /\ call'[r].step \in {"writing", "refused", "failed"}
      /\ call'[r].kind = call[r].kind /\ call'[r].expected = call[r].expected
      /\ call'[r].base = call[r].base
      /\ \A q \in Requests \ {r} : call'[q] = call[q]
  <2>1. CASE Goto(r, "refused") \/ Goto(r, "failed")
    BY <2>1, Moved DEF IndInv, Steps
  <2>2. CASE \E i \in DOMAIN versions :
          call' = [call EXCEPT ![r].step = "writing", ![r].content = versions[i].content]
    <3>1. PICK i \in DOMAIN versions :
            call' = [call EXCEPT ![r].step = "writing", ![r].content = versions[i].content]
      BY <2>2
    <3>2. versions[i].content \in Content BY VersionsTyped DEF IndInv
    <3>3. call \in [Requests -> Call] BY DEF IndInv, TypeOK
    <3> QED BY <3>1, <3>2, <3>3 DEF Call, Steps
  <2> QED BY <1>1, <2>1, <2>2
<1>3. call[r].kind # "edit" /\ call[r].expected = NoHash BY <1>1 DEF IndInv, Kinded
<1>4. InFlight(r) BY <1>1 DEF InFlight, Finished
<1>5. Kinded(r)' /\ Saved(r)' BY <1>2 DEF Kinded, Saved, Done
<1>6. ~overlapped => Counting(r)' BY <1>1, <1>2 DEF IndInv, Counting, Before
<1>7. Writing(r)' BY <1>2, <1>3 DEF Writing, Opened
<1> QED BY <1>1, <1>2, <1>4, <1>5, <1>6, <1>7, Quiet DEF Opened

LEMMA ReadForEditInv == ASSUME IndInv, NEW r \in Requests, ReadForEdit(r) PROVE IndInv'
<1> DEFINE seen == IF file = Absent THEN Empty ELSE file
           told == call[r].synced \notin {NoHash, seen}
<1>1. /\ call[r].step = "reading"
      /\ call' = [call EXCEPT ![r].step = "writing", ![r].conflict = told]
      /\ UNCHANGED <<file, current, synced, versions, externals, overlapped>>
  BY DEF ReadForEdit
<1>2. /\ call' \in [Requests -> Call]
      /\ call'[r].step = "writing" /\ call'[r].conflict = told
      /\ call'[r].kind = call[r].kind /\ call'[r].expected = call[r].expected
      /\ call'[r].base = call[r].base /\ call'[r].synced = call[r].synced
      /\ \A q \in Requests \ {r} : call'[q] = call[q]
  <2>1. call \in [Requests -> Call] BY DEF IndInv, TypeOK
  <2>2. told \in BOOLEAN OBVIOUS
  <2> HIDE DEF told
  <2> QED BY <1>1, <2>1, <2>2 DEF Call, Steps
<1>3. call[r].expected = NoHash BY <1>1 DEF IndInv, Kinded
<1>4. InFlight(r) BY <1>1 DEF InFlight, Finished
<1>5. Kinded(r)' /\ Saved(r)' BY <1>2 DEF Kinded, Saved, Done
<1>6. ~overlapped => Counting(r)' BY <1>1, <1>2 DEF IndInv, Counting, Before
<1>7. ~overlapped /\ externals = 0 => Writing(r)'
  <2>1. ~overlapped /\ externals = 0 => file # Absent BY DEF IndInv
  <2> QED BY <1>1, <1>2, <1>3, <2>1 DEF Writing, Opened
<1> QED BY <1>1, <1>2, <1>4, <1>5, <1>6, <1>7, Quiet DEF Opened

LEMMA RefreshInv == ASSUME IndInv, NEW r \in Requests, Refresh(r) PROVE IndInv'
<1> DEFINE n == IF call[r].kind = "edit" THEN current ELSE call[r].base + 1
<1>1. /\ call[r].step = "updated"
      /\ call' = [call EXCEPT ![r].step = "numbered", ![r].number = n]
      /\ UNCHANGED <<file, current, synced, versions, externals, overlapped>>
  BY DEF Refresh
<1>2. /\ call' \in [Requests -> Call]
      /\ call'[r].step = "numbered" /\ call'[r].number = n
      /\ call'[r].kind = call[r].kind /\ call'[r].expected = call[r].expected
      /\ call'[r].base = call[r].base /\ call'[r].synced = call[r].synced
      /\ call'[r].content = call[r].content /\ call'[r].conflict = call[r].conflict
      /\ call'[r].replaced = call[r].replaced
      /\ \A q \in Requests \ {r} : call'[q] = call[q]
  <2>1. call \in [Requests -> Call] BY DEF IndInv, TypeOK
  <2>2. n \in Nat BY Typed DEF IndInv
  <2> HIDE DEF n
  <2> QED BY <1>1, <2>1, <2>2 DEF Call, Steps
<1>3. InFlight(r) BY <1>1 DEF InFlight, Finished
<1>4. Kinded(r)' /\ Saved(r)' BY <1>2 DEF Kinded, Saved, Done
<1>5. ~overlapped => Counting(r)' BY <1>1, <1>2 DEF IndInv, Counting, Before, UpTo
<1>6. ~overlapped /\ externals = 0 => Writing(r)'
  <2> SUFFICES ASSUME ~overlapped, externals = 0 PROVE Writing(r)' OBVIOUS
  <2>1. Writing(r) BY DEF IndInv
  <2> QED BY <1>1, <1>2, <2>1 DEF Writing, Opened
<1> QED BY <1>1, <1>2, <1>3, <1>4, <1>5, <1>6, Quiet DEF Opened

LEMMA FailInv == ASSUME IndInv, NEW r \in Requests, Fail(r) PROVE IndInv'
<1>1. /\ InFlight(r) /\ Goto(r, "failed")
      /\ UNCHANGED <<file, current, synced, versions, externals, overlapped>>
  BY DEF Fail
<1>2. /\ call' \in [Requests -> Call] /\ call'[r].step = "failed"
      /\ \A q \in Requests \ {r} : call'[q] = call[q]
  BY <1>1, Moved DEF IndInv, Steps
<1>3. Kinded(r)' /\ Saved(r)' BY <1>2 DEF Kinded, Saved, Done
<1>4. Counting(r)' /\ Writing(r)' BY <1>2 DEF Counting, Writing, Before, Opened
<1> QED BY <1>1, <1>2, <1>3, <1>4, Quiet

LEMMA OpenInv == ASSUME IndInv, NEW r \in Requests, Open(r) PROVE IndInv'
<1>1. /\ call[r].step = "writing"
      /\ call' = [call EXCEPT ![r].step = "filling", ![r].replaced = file]
      /\ file' = Empty
      /\ UNCHANGED <<current, synced, versions, externals, overlapped>>
  BY DEF Open
<1>2. /\ call' \in [Requests -> Call]
      /\ call'[r].step = "filling" /\ call'[r].replaced = file
      /\ call'[r].kind = call[r].kind /\ call'[r].expected = call[r].expected
      /\ call'[r].base = call[r].base /\ call'[r].synced = call[r].synced
      /\ call'[r].conflict = call[r].conflict
      /\ \A q \in Requests \ {r} : call'[q] = call[q]
  <2>1. call \in [Requests -> Call] /\ file \in Content \cup {Absent} BY DEF IndInv, TypeOK
  <2> QED BY <1>1, <2>1 DEF Call, Steps
<1>3. InFlight(r) BY <1>1 DEF InFlight, Finished
<1>4. TypeOK' BY <1>1, <1>2 DEF IndInv, TypeOK, Content
<1>5. Kinded(r)' /\ Saved(r)' BY <1>2 DEF Kinded, Saved, Done
<1>6. \A q \in Requests : Kinded(q)' /\ Saved(q)' BY <1>1, <1>2, <1>5, OthersSaved
<1>7. ~overlapped => Counting(r)' BY <1>1, <1>2 DEF IndInv, Counting, Before
<1>8. ~overlapped' =>
        Alone' /\ InOrder' /\ UpTo(current)' /\ \A q \in Requests : Counting(q)'
  BY <1>1, <1>2, <1>3, <1>7, OthersKept DEF IndInv, InOrder, UpTo
<1>9. ~overlapped /\ externals = 0 => Writing(r)'
  <2> SUFFICES ASSUME ~overlapped, externals = 0 PROVE Writing(r)' OBVIOUS
  <2>1. Writing(r) BY DEF IndInv
  <2> QED BY <1>1, <1>2, <2>1 DEF Writing, Opened
<1>10. file' # Absent /\ LastIsOnDisk'
  BY <1>1, <1>2 DEF LastIsOnDisk, Opened, Absent, Empty
<1> QED BY <1>1, <1>2, <1>3, <1>4, <1>6, <1>8, <1>9, <1>10, OthersKept DEF IndInv

LEMMA FillInv == ASSUME IndInv, NEW r \in Requests, Fill(r) PROVE IndInv'
<1>1. /\ call[r].step = "filling" /\ Goto(r, "filled")
      /\ file' \in {call[r].content} \cup (IF file = Empty THEN {} ELSE {"torn"})
      /\ UNCHANGED <<current, synced, versions, externals, overlapped>>
  BY DEF Fill
<1>2. /\ call' \in [Requests -> Call]
      /\ call'[r].step = "filled" /\ call'[r].replaced = call[r].replaced
      /\ call'[r].kind = call[r].kind /\ call'[r].expected = call[r].expected
      /\ call'[r].base = call[r].base /\ call'[r].synced = call[r].synced
      /\ call'[r].conflict = call[r].conflict /\ call'[r].content = call[r].content
      /\ \A q \in Requests \ {r} : call'[q] = call[q]
  BY <1>1, Moved DEF IndInv, Steps
<1>3. InFlight(r) BY <1>1 DEF InFlight, Finished
<1>4. call[r].content \in Content BY Typed DEF IndInv
<1>5. TypeOK'
  <2>1. file' \in Content \cup {Absent} BY <1>1, <1>4 DEF Content
  <2> QED BY <1>1, <1>2, <2>1 DEF IndInv, TypeOK
<1>6. Kinded(r)' /\ Saved(r)' BY <1>2 DEF Kinded, Saved, Done
<1>7. \A q \in Requests : Kinded(q)' /\ Saved(q)' BY <1>1, <1>2, <1>6, OthersSaved
<1>8. ~overlapped => Counting(r)' BY <1>1, <1>2 DEF IndInv, Counting, Before
<1>9. ~overlapped' =>
        Alone' /\ InOrder' /\ UpTo(current)' /\ \A q \in Requests : Counting(q)'
  BY <1>1, <1>2, <1>3, <1>8, OthersKept DEF IndInv, InOrder, UpTo
<1>10. ~overlapped /\ externals = 0 => Writing(r)' /\ file' # Absent
  <2> SUFFICES ASSUME ~overlapped, externals = 0 PROVE Writing(r)' /\ file' # Absent
    OBVIOUS
  <2>1. Writing(r) BY DEF IndInv
  <2>2. file' = call[r].content BY <1>1, <2>1 DEF Writing
  <2>3. call[r].content # Absent
    BY <1>4, NamesAssumption DEF Content, Absent, Empty
  <2> QED BY <1>1, <1>2, <2>1, <2>2, <2>3 DEF Writing, Opened
<1>11. LastIsOnDisk' BY <1>2 DEF LastIsOnDisk, Opened
<1> QED BY <1>1, <1>2, <1>3, <1>5, <1>7, <1>9, <1>10, <1>11, OthersKept DEF IndInv

LEMMA UpdateArtifactInv ==
  ASSUME IndInv, NEW r \in Requests, UpdateArtifact(r) PROVE IndInv'
<1>1. /\ call[r].step = "filled" /\ Goto(r, "updated")
      /\ current' = call[r].base + 1
      /\ synced' = IF call[r].kind = "edit" THEN call[r].content ELSE synced
      /\ UNCHANGED <<file, versions, externals, overlapped>>
  BY DEF UpdateArtifact
<1>2. /\ call' \in [Requests -> Call]
      /\ call'[r].step = "updated" /\ call'[r].replaced = call[r].replaced
      /\ call'[r].kind = call[r].kind /\ call'[r].expected = call[r].expected
      /\ call'[r].base = call[r].base /\ call'[r].synced = call[r].synced
      /\ call'[r].conflict = call[r].conflict /\ call'[r].content = call[r].content
      /\ \A q \in Requests \ {r} : call'[q] = call[q]
  BY <1>1, Moved DEF IndInv, Steps
<1>3. InFlight(r) BY <1>1 DEF InFlight, Finished
<1>4. call[r].base \in Nat \ {0} /\ call[r].content \in Content BY Typed DEF IndInv
<1>5. TypeOK'
  <2>1. current' \in Nat \ {0} BY <1>1, <1>4
  <2> QED BY <1>1, <1>2, <1>4, <2>1 DEF IndInv, TypeOK
<1>6. Kinded(r)' /\ Saved(r)' BY <1>2 DEF Kinded, Saved, Done
<1>7. \A q \in Requests : Kinded(q)' /\ Saved(q)' BY <1>1, <1>2, <1>6, OthersSaved
<1>8. ~overlapped => Counting(r)' /\ InOrder' /\ UpTo(current)'
  <2> SUFFICES ASSUME ~overlapped PROVE Counting(r)' /\ InOrder' /\ UpTo(current)'
    OBVIOUS
  <2>1. call[r].base = current /\ UpTo(current) /\ InOrder
    BY <1>1 DEF IndInv, Counting, Before
  <2>2. InOrder' BY <1>1, <2>1 DEF InOrder
  <2>3. UpTo(current)' BY <1>1, <1>4, <2>1 DEF UpTo
  <2>4. Counting(r)' BY <1>1, <1>2, <2>1 DEF Counting, Before, UpTo
  <2> QED BY <2>2, <2>3, <2>4
<1>9. ~overlapped' =>
        Alone' /\ InOrder' /\ UpTo(current)' /\ \A q \in Requests : Counting(q)'
  BY <1>1, <1>2, <1>3, <1>8, OthersKept
<1>10. ~overlapped /\ externals = 0 => Writing(r)'
  <2> SUFFICES ASSUME ~overlapped, externals = 0 PROVE Writing(r)' OBVIOUS
  <2>1. Writing(r) BY DEF IndInv
  <2> QED BY <1>1, <1>2, <2>1 DEF Writing, Opened
<1>11. LastIsOnDisk' BY <1>2 DEF LastIsOnDisk, Opened
<1> QED BY <1>1, <1>2, <1>3, <1>5, <1>7, <1>9, <1>10, <1>11, OthersKept DEF IndInv

LEMMA CreateVersionInv ==
  ASSUME IndInv, NEW r \in Requests, CreateVersion(r) PROVE IndInv'
<1> DEFINE v == [number |-> call[r].number, content |-> call[r].content]
           n == Len(versions)
<1>1. /\ call[r].step = "numbered" /\ Goto(r, "done")
      /\ versions' = Append(versions, v)
      /\ UNCHANGED <<file, current, synced, externals, overlapped>>
  BY DEF CreateVersion
<1>2. /\ call' \in [Requests -> Call]
      /\ call'[r].step = "done" /\ call'[r].replaced = call[r].replaced
      /\ call'[r].kind = call[r].kind /\ call'[r].expected = call[r].expected
      /\ call'[r].synced = call[r].synced /\ call'[r].number = call[r].number
      /\ call'[r].conflict = call[r].conflict /\ call'[r].content = call[r].content
      /\ \A q \in Requests \ {r} : call'[q] = call[q]
  BY <1>1, Moved DEF IndInv, Steps
<1>3. InFlight(r) BY <1>1 DEF InFlight, Finished
<1>4. v \in Version BY Typed DEF IndInv, Version
<1>5. /\ versions' \in Seq(Version)
      /\ n \in Nat /\ DOMAIN versions = 1 .. n
      /\ Len(versions') = n + 1 /\ DOMAIN versions' = 1 .. n + 1
      /\ \A i \in 1 .. n : versions'[i] = versions[i]
      /\ versions'[n + 1] = v
  <2>1. versions \in Seq(Version) BY DEF IndInv, TypeOK
  <2> HIDE DEF v
  <2> QED BY <1>1, <1>4, <2>1, AppendProperties, LenProperties
<1>6. TypeOK' BY <1>1, <1>2, <1>5 DEF IndInv, TypeOK
<1>7. \A q \in Requests : Kinded(q)' /\ Saved(q)'
  <2>1. Kinded(r)' BY <1>2 DEF Kinded
  <2>2. Saved(r)' BY <1>2, <1>5 DEF Saved, Done
  <2>3. ASSUME NEW q \in Requests \ {r} PROVE Kinded(q)' /\ Saved(q)'
    <3>1. call'[q] = call[q] BY <1>2
    <3>2. Kinded(q) /\ Saved(q) BY DEF IndInv
    <3>3. Done(q) => \E i \in 1 .. n :
            versions[i] = [number |-> call[q].number, content |-> call[q].content]
      BY <1>5, <3>2 DEF Saved
    <3>4. Saved(q)'
      BY <1>5, <3>1, <3>3 DEF Saved, Done
    <3> QED BY <3>1, <3>2, <3>4 DEF Kinded
  <2> QED BY <2>1, <2>2, <2>3
<1>8. ~overlapped => Counting(r)' /\ InOrder' /\ UpTo(current)'
  <2> SUFFICES ASSUME ~overlapped PROVE Counting(r)' /\ InOrder' /\ UpTo(current)'
    OBVIOUS
  <2>1. /\ InOrder /\ UpTo(call[r].base) /\ current = call[r].base + 1
        /\ v.number = current /\ call[r].base \in Nat \ {0} /\ current \in Nat \ {0}
    BY <1>1, Typed DEF IndInv, Counting
  <2>2. \A i \in 1 .. n : versions[i].number \in 2 .. current - 1
    BY <1>5, <2>1 DEF UpTo
  <2> HIDE DEF v
  <2>3. UpTo(current)' BY <1>1, <1>5, <2>1, <2>2 DEF UpTo
  <2>4. InOrder'
    <3> SUFFICES ASSUME NEW i \in 1 .. n + 1, NEW j \in 1 .. n + 1, i < j
                 PROVE  versions'[i].number < versions'[j].number
      BY <1>5 DEF InOrder
    <3>1. CASE j = n + 1 BY <1>5, <2>1, <2>2, <3>1
    <3>2. CASE j # n + 1
      <4>1. i \in 1 .. n /\ j \in 1 .. n BY <1>5, <3>2
      <4> QED BY <1>5, <2>1, <4>1 DEF InOrder
    <3> QED BY <3>1, <3>2
  <2>5. Counting(r)' BY <1>2 DEF Counting, Before
  <2> QED BY <2>3, <2>4, <2>5
<1>9. ~overlapped' =>
        Alone' /\ InOrder' /\ UpTo(current)' /\ \A q \in Requests : Counting(q)'
  BY <1>1, <1>2, <1>3, <1>8, OthersKept
<1>10. ~overlapped /\ externals = 0 => Writing(r)' /\ file' # Absent /\ LastIsOnDisk'
  <2> SUFFICES ASSUME ~overlapped, externals = 0
               PROVE  Writing(r)' /\ file' # Absent /\ LastIsOnDisk'
    OBVIOUS
  <2>1. Writing(r) /\ file # Absent BY DEF IndInv
  <2>2. file = call[r].content BY <1>1, <2>1 DEF Writing
  <2>3. versions'[Len(versions')].content = call[r].content BY <1>5
  <2>4. Writing(r)' BY <1>1, <1>2, <2>1 DEF Writing, Opened
  <2> QED BY <1>1, <2>1, <2>2, <2>3, <2>4 DEF LastIsOnDisk
<1> QED BY <1>1, <1>2, <1>3, <1>6, <1>7, <1>9, <1>10, OthersKept DEF IndInv

LEMMA ExternalInv == ASSUME IndInv, External PROVE IndInv'
<1>1. /\ externals < MaxExternal /\ externals' = externals + 1
      /\ file' \in {"external", Absent}
      /\ UNCHANGED <<current, synced, versions, call, overlapped>>
  BY DEF External
<1>2. externals' \in 0 .. MaxExternal /\ externals' # 0
  BY <1>1, ExternalAssumption DEF IndInv, TypeOK
<1>3. TypeOK'
  <2>1. file' \in Content \cup {Absent} BY <1>1 DEF Content
  <2> QED BY <1>1, <1>2, <2>1 DEF IndInv, TypeOK
<1>4. \A r \in Requests : Kinded(r)' /\ Saved(r)'
  BY <1>1 DEF IndInv, Kinded, Saved, Done
<1>5. ~overlapped' =>
        Alone' /\ InOrder' /\ UpTo(current)' /\ \A r \in Requests : Counting(r)'
  BY <1>1 DEF IndInv, Alone, InFlight, InOrder, UpTo, Counting
<1> QED BY <1>2, <1>3, <1>4, <1>5 DEF IndInv

LEMMA IndInit == Init => IndInv
<1> SUFFICES ASSUME Init PROVE IndInv OBVIOUS
<1>1. /\ \A r \in Requests : call[r].step = "new"
      /\ call \in [Requests -> Call]
  BY DEF Init, Call, Steps, Kinds, Content
<1>2. versions = <<>> /\ versions \in Seq(Version) /\ DOMAIN versions = {}
  BY DEF Init
<1>3. externals \in 0 .. MaxExternal BY ExternalAssumption DEF Init
<1>4. TypeOK
  <2>1. file \in Content /\ synced = NoHash
    BY DEF Init, Content
  <2>2. current \in Nat \ {0} BY DEF Init
  <2>3. overlapped \in BOOLEAN BY DEF Init
  <2> QED BY <1>1, <1>2, <1>3, <2>1, <2>2, <2>3 DEF TypeOK
<1>5. \A r \in Requests : Kinded(r) /\ Saved(r) /\ Counting(r) /\ Writing(r) /\ ~InFlight(r)
  BY <1>1 DEF Kinded, Saved, Done, Counting, Writing, Before, Opened, InFlight
<1>6. InOrder /\ UpTo(current) /\ LastIsOnDisk /\ Alone
  BY <1>2, <1>5 DEF InOrder, UpTo, LastIsOnDisk, Alone
<1>7. file # Absent BY DEF Init, Absent
<1> QED BY <1>4, <1>5, <1>6, <1>7 DEF IndInv

LEMMA IndNext == IndInv /\ [Next]_vars => IndInv'
<1> SUFFICES ASSUME IndInv, [Next]_vars PROVE IndInv' OBVIOUS
<1>1. CASE UNCHANGED vars
  BY <1>1 DEF vars, IndInv, TypeOK, Kinded, Saved, Done, Alone, InFlight, InOrder, UpTo,
              Counting, Writing, LastIsOnDisk, NoneFailed
<1>2. ASSUME NEW r \in Requests, Serve(r) PROVE IndInv'
  BY <1>2, BeginInv, CheckInv, SelectVersionInv, ReadForEditInv, OpenInv, FillInv,
     UpdateArtifactInv, RefreshInv, CreateVersionInv, FailInv DEF Serve
<1> QED BY <1>1, <1>2, ExternalInv DEF Next

-----------------------------------------------------------------------------
\* IndInv is inductive.
THEOREM Inductive == Spec => []IndInv
BY IndInit, IndNext, PTL DEF Spec

\* Every variable keeps its type, for any number of calls.
THEOREM TypeCorrect == Spec => []TypeOK
BY Inductive, PTL DEF IndInv

\* What a caller was told is saved is among the versions, under its number,
\* whatever overlaps or fails.
THEOREM SavedStays == Spec => []SavedIsKept
<1>1. IndInv => SavedIsKept
  BY DEF IndInv, Saved, SavedIsKept, Recorded
<1> QED BY <1>1, Inductive, PTL

\* Calls that do not overlap number their versions upwards, replace what they
\* have compared, tell conflicts, and leave their version on disk.
THEOREM OneAfterTheOther == Spec => []OneAtATime
<1>1. IndInv => NumberedOnce
  <2> SUFFICES ASSUME IndInv, ~overlapped
               PROVE  InOrder /\ \A v \in Recorded : v.number \in 2 .. current
    BY DEF NumberedOnce, InOrder
  <2>1. InOrder /\ UpTo(current) BY DEF IndInv
  <2>2. \A v \in Recorded : v.number \in 2 .. current BY <2>1 DEF UpTo, Recorded
  <2> QED BY <2>1, <2>2
<1>2. IndInv => NoBlindSave
  BY DEF IndInv, NoBlindSave, Writing, Done
<1>3. IndInv => EditsTellConflicts
  BY DEF IndInv, EditsTellConflicts, Writing, Done
<1>4. IndInv => LatestOnDisk
  <2> SUFFICES ASSUME IndInv, ~overlapped, NoneFailed, Idle, externals = 0, versions # <<>>
               PROVE  file = versions[Len(versions)].content
    BY DEF LatestOnDisk
  <2>1. \A r \in Requests : call[r].step \notin Opened
    BY DEF Idle, InFlight, Opened, Finished
  <2> QED BY <2>1 DEF IndInv, LastIsOnDisk
<1> QED BY <1>1, <1>2, <1>3, <1>4, Inductive, PTL DEF OneAtATime
=============================================================================
