-------------------------- MODULE ArtifactVersions --------------------------
(***************************************************************************)
(* Editing one artifact: the file a skill has made, the row of             *)
(* artifact_files and the rows of artifact_versions.  Content is saved     *)
(* through the artifact browser (save_content), restored from a version    *)
(* (rollback) or edited in the requirement studio (edit_artifact).         *)
(*                                                                         *)
(* Each call checks, writes the file, and then commits the two tables one  *)
(* after the other; calls overlap at every await.  A content stands for    *)
(* its hash.  The row of an artifact that a skill has made says version 1, *)
(* and no version is recorded for it.                                      *)
(***************************************************************************)
EXTENDS Naturals, Sequences, FiniteSets

CONSTANTS
  Requests,
  MaxExternal   \* bounds what users and skills do to the file

ASSUME ExternalAssumption == MaxExternal \in Nat

Absent   == "absent"     \* there is no file
Empty    == "empty"
NoHash   == "no hash"
Content  == Requests \cup {"made", "external", "torn", Empty}

ASSUME NamesAssumption ==
  Requests \cap {Absent, Empty, NoHash, "made", "external", "torn"} = {}

Kinds == {"save", "rollback", "edit"}
Steps == {"new", "checking", "selecting", "reading", "writing", "filling",
          "filled", "updated", "numbered", "done", "refused", "failed"}

Call ==
  [step: Steps, kind: Kinds,
   expected: Content \cup {NoHash},  \* expected_hash of the client
   base: Nat \ {0},                  \* current_version as loaded
   synced: Content \cup {NoHash},            \* last_synced_hash as loaded
   content: Content,
   number: Nat,                             \* new_version_number
   conflict: BOOLEAN,                       \* has_conflict
   replaced: Content \cup {Absent}]          \* what the file held; not in the code

VARIABLES
  file,
  current,      \* current_version
  synced,       \* last_synced_hash
  versions,     \* artifact_versions
  call,
  externals,
  overlapped    \* two calls have been in flight at once; not in the code

vars == <<file, current, synced, versions, call, externals, overlapped>>

Version == [number: Nat, content: Content]

TypeOK ==
  /\ file \in Content \cup {Absent}
  /\ current \in Nat \ {0}
  /\ synced \in Content \cup {NoHash}
  /\ versions \in Seq(Version)
  /\ call \in [Requests -> Call]
  /\ externals \in 0 .. MaxExternal
  /\ overlapped \in BOOLEAN

Init ==
  /\ file = "made"
  /\ current = 1
  /\ synced = NoHash
  /\ versions = <<>>
  /\ call = [r \in Requests |->
       [step |-> "new", kind |-> "save", expected |-> NoHash, base |-> 1,
        synced |-> NoHash, content |-> Empty, number |-> 0, conflict |-> FALSE,
        replaced |-> Empty]]
  /\ externals = 0
  /\ overlapped = FALSE

Finished == {"done", "refused", "failed"}
InFlight(r) == call[r].step \notin {"new"} \cup Finished

Recorded == {versions[i] : i \in DOMAIN versions}

\* get_version, which fails if there are several.
Numbered(n) == {i \in DOMAIN versions : versions[i].number = n}

\* _read_file_or_fallback
Readable ==
  IF file # Absent THEN {file}
  ELSE IF versions = <<>> THEN {Empty}
  ELSE {v.content : v \in {w \in Recorded : \A x \in Recorded : x.number <= w.number}}

Goto(r, step) == call' = [call EXCEPT ![r].step = step]

\* A call loads the artifact.
Load(r, kind, step, changes) ==
  /\ call[r].step = "new"
  /\ call' = [call EXCEPT ![r] =
       [@ EXCEPT !.step = step, !.kind = kind, !.base = current, !.synced = synced,
                 !.expected = changes.expected, !.content = changes.content]]
  /\ overlapped' = (overlapped \/ \E q \in Requests : InFlight(q))
  /\ UNCHANGED <<file, current, synced, versions, externals>>

-----------------------------------------------------------------------------
(* Before the file is written *)

\* The client has seen the file as it is or as it was, or sends no hash.
BeginSave(r) ==
  \E e \in {NoHash, "made"} \cup Readable \cup {v.content : v \in Recorded} :
    Load(r, "save", IF e = NoHash THEN "writing" ELSE "checking",
         [expected |-> e, content |-> r])

\* Mutant of Check: the hash is compared with the last version saved.
CheckVersion(r) ==
  /\ call[r].step = "checking"
  /\ LET last == IF versions = <<>> THEN file ELSE versions[Len(versions)].content
     IN Goto(r, IF last = call[r].expected THEN "writing" ELSE "refused")
  /\ UNCHANGED <<file, current, synced, versions, externals, overlapped>>

\* expected_hash against the file.
Check(r) ==
  /\ call[r].step = "checking"
  /\ \E c \in Readable : Goto(r, IF c = call[r].expected THEN "writing" ELSE "refused")
  /\ UNCHANGED <<file, current, synced, versions, externals, overlapped>>

BeginRollback(r) ==
  Load(r, "rollback", "selecting", [expected |-> NoHash, content |-> Empty])

\* The version asked for exists, does not, or is ambiguous.
SelectVersion(r) ==
  \E n \in 1 .. Cardinality(Requests) + 1 :
    /\ call[r].step = "selecting"
    /\ \/ /\ Cardinality(Numbered(n)) = 1
          /\ \E i \in Numbered(n) :
               call' = [call EXCEPT ![r].step = "writing", ![r].content = versions[i].content]
       \/ Numbered(n) = {} /\ Goto(r, "refused")
       \/ Cardinality(Numbered(n)) > 1 /\ Goto(r, "failed")
    /\ UNCHANGED <<file, current, synced, versions, externals, overlapped>>

BeginEdit(r) ==
  Load(r, "edit", "reading", [expected |-> NoHash, content |-> r])

\* A conflict is reported; the file is overwritten all the same.
ReadForEdit(r) ==
  LET seen == IF file = Absent THEN Empty ELSE file
  IN /\ call[r].step = "reading"
     /\ call' = [call EXCEPT ![r].step = "writing",
                             ![r].conflict = call[r].synced \notin {NoHash, seen}]
     /\ UNCHANGED <<file, current, synced, versions, externals, overlapped>>

-----------------------------------------------------------------------------
(* _write_file and the two commits *)

\* open(..., "w") truncates the file.
Open(r) ==
  /\ call[r].step = "writing"
  /\ call' = [call EXCEPT ![r].step = "filling", ![r].replaced = file]
  /\ file' = Empty
  /\ UNCHANGED <<current, synced, versions, externals, overlapped>>

\* The content is written when the file is closed.  Over a longer content that
\* another call has put there meanwhile, it leaves a mixture.
Fill(r) ==
  /\ call[r].step = "filling"
  /\ file' \in {call[r].content} \cup (IF file = Empty THEN {} ELSE {"torn"})
  /\ Goto(r, "filled")
  /\ UNCHANGED <<current, synced, versions, externals, overlapped>>

\* repo.update commits the row.
UpdateArtifact(r) ==
  /\ call[r].step = "filled"
  /\ current' = call[r].base + 1
  /\ synced' = IF call[r].kind = "edit" THEN call[r].content ELSE synced
  /\ Goto(r, "updated")
  /\ UNCHANGED <<file, versions, externals, overlapped>>

\* repo.update then reloads the row; only the studio numbers its version by it.
Refresh(r) ==
  /\ call[r].step = "updated"
  /\ call' = [call EXCEPT ![r].step = "numbered",
       ![r].number = IF call[r].kind = "edit" THEN current ELSE call[r].base + 1]
  /\ UNCHANGED <<file, current, synced, versions, externals, overlapped>>

\* Mutant of CreateVersion: the snapshot is read from the file.
CreateVersionOfFile(r) ==
  /\ call[r].step = "numbered"
  /\ versions' = Append(versions, [number |-> call[r].number,
                                   content |-> IF file = Absent THEN Empty ELSE file])
  /\ Goto(r, "done")
  /\ UNCHANGED <<file, current, synced, externals, overlapped>>

\* create_version commits, too.
CreateVersion(r) ==
  /\ call[r].step = "numbered"
  /\ versions' = Append(versions, [number |-> call[r].number, content |-> call[r].content])
  /\ Goto(r, "done")
  /\ UNCHANGED <<file, current, synced, externals, overlapped>>

\* An I/O error, a locked database or the end of the process; what has been
\* written and committed stays.
Fail(r) ==
  /\ InFlight(r)
  /\ Goto(r, "failed")
  /\ UNCHANGED <<file, current, synced, versions, externals, overlapped>>

-----------------------------------------------------------------------------
\* A skill or a user writes or deletes the file, not while a call is writing.
External ==
  /\ externals < MaxExternal
  /\ \A r \in Requests : call[r].step # "filling"
  /\ externals' = externals + 1
  /\ file' \in {"external", Absent}
  /\ UNCHANGED <<current, synced, versions, call, overlapped>>

Serve(r) ==
  \/ BeginSave(r) \/ Check(r)
  \/ BeginRollback(r) \/ SelectVersion(r)
  \/ BeginEdit(r) \/ ReadForEdit(r)
  \/ Open(r) \/ Fill(r)
  \/ UpdateArtifact(r) \/ Refresh(r) \/ CreateVersion(r)
  \/ Fail(r)

Next == External \/ \E r \in Requests : Serve(r)

Spec == Init /\ [][Next]_vars

-----------------------------------------------------------------------------
(* Properties *)

Done(r) == call[r].step = "done"
NoneFailed == \A r \in Requests : call[r].step # "failed"
Idle == \A r \in Requests : ~InFlight(r)

\* Whatever overlaps or fails, what a caller was told is saved can be found
\* among the versions, under the number it was told.
SavedIsKept ==
  \A r \in Requests : Done(r) =>
    [number |-> call[r].number, content |-> call[r].content] \in Recorded

\* Calls that do not overlap number their versions upwards, up to the current
\* one.  A call that fails between the commits leaves a gap, never a number
\* that is used twice.
NumberedOnce ==
  ~overlapped =>
    /\ \A i, j \in DOMAIN versions : i < j => versions[i].number < versions[j].number
    /\ \A v \in Recorded : v.number \in 2 .. current

\* A save that carries a hash has replaced the content with that hash, unless
\* calls overlapped or somebody else wrote the file.
NoBlindSave ==
  ~overlapped /\ externals = 0 =>
    \A r \in Requests : Done(r) /\ call[r].expected # NoHash =>
      call[r].replaced = call[r].expected

\* If no call failed or overlapped and nobody else touched the file, it holds
\* the last version.
LatestOnDisk ==
  ~overlapped /\ NoneFailed /\ Idle /\ externals = 0 /\ versions # <<>> =>
    file = versions[Len(versions)].content

\* An edit that reports no conflict has replaced the content that the studio
\* had written last, if calls do not overlap and nobody writes the file.
EditsTellConflicts ==
  ~overlapped /\ externals = 0 =>
    \A r \in Requests : call[r].kind = "edit" /\ Done(r) /\ ~call[r].conflict =>
      call[r].synced \in {NoHash, call[r].replaced}

\* What browser, rollback and studio promise to callers one after the other,
\* all at once: each holds of the file and the rows the previous call left,
\* also when that call failed half way.
OneAtATime == NumberedOnce /\ NoBlindSave /\ LatestOnDisk /\ EditsTellConflicts
=============================================================================
