-------------------------- MODULE SkillBatchProofs --------------------------
(***************************************************************************)
(* What SkillBatch guarantees for any number of batches and skills.        *)
(*                                                                         *)
(* Exclusion rests on two facts: a live process is the one its coroutine   *)
(* is executing, and an executing coroutine is at the head of the queue of *)
(* its lock.  That a batch leaves nothing behind needs more: that the      *)
(* queue holds each waiter once, and that only coroutines the orchestrator *)
(* is awaiting are in it.                                                  *)
(***************************************************************************)
EXTENDS SkillBatch, SequenceTheorems, TLAPS

Active == {"locking", "executing", "recording"}

Reaped   == \A b \in Batches, k \in Skills :
              process[b][k] \in Alive => task[b][k] = "executing"
Head1st  == \A b \in Batches, k \in Skills :
              task[b][k] = "executing" => Holds(b, k)
Queued   == \A b \in Batches : \A i \in 1 .. Len(lock[b]) :
              task[b][lock[b][i]] \in {"locking", "executing"}
Once     == \A b \in Batches : \A i, j \in 1 .. Len(lock[b]) :
              lock[b][i] = lock[b][j] => i = j
Awaited  == \A b \in Batches, k \in Skills :
              task[b][k] \in Active => Scheduled(b, k)

LockInv == TypeOK /\ Reaped /\ Head1st /\ Queued /\ Once /\ Awaited

OneStep(b, k) == StepOf(b, k) \/ Exit(b, k)

-----------------------------------------------------------------------------
\* What leaving the head of a queue leaves behind.
LEMMA TailFacts ==
  ASSUME NEW S, NEW s \in Seq(S), s # <<>>
  PROVE  /\ Tail(s) \in Seq(S)
         /\ Len(s) \in Nat
         /\ Len(s) > 0
         /\ Len(Tail(s)) = Len(s) - 1
         /\ \A i \in 1 .. Len(Tail(s)) : i + 1 \in 1 .. Len(s) /\ Tail(s)[i] = s[i + 1]
         /\ Head(s) = s[1]
         /\ Head(s) \in S
  OBVIOUS

\* What joining a queue at its end leaves as it was.
LEMMA AppendFacts ==
  ASSUME NEW S, NEW s \in Seq(S), NEW e \in S
  PROVE  /\ Append(s, e) \in Seq(S)
         /\ Append(s, e) # <<>>
         /\ Len(s) \in Nat
         /\ Len(Append(s, e)) = Len(s) + 1
         /\ \A i \in 1 .. Len(s) : Append(s, e)[i] = s[i]
         /\ Append(s, e)[Len(s) + 1] = e
         /\ s # <<>> => Head(Append(s, e)) = Head(s)
  <1>1. /\ Append(s, e) \in Seq(S)
        /\ Append(s, e) # <<>>
        /\ Len(Append(s, e)) = Len(s) + 1
        /\ \A i \in 1 .. Len(s) : Append(s, e)[i] = s[i]
        /\ Append(s, e)[Len(s) + 1] = e
    BY AppendProperties
  <1>2. Len(s) \in Nat
    BY LenProperties
  <1>3. ASSUME s # <<>> PROVE Head(Append(s, e)) = Head(s)
    <2>1. Head(s) = s[1] /\ Len(s) >= 1
      BY <1>3, <1>2, EmptySeq
    <2>2. Head(Append(s, e)) = Append(s, e)[1]
      BY <1>1
    <2> QED BY <2>1, <2>2, <1>1, <1>2
  <1> QED BY <1>1, <1>2, <1>3

\* Primary and auxiliary bindings are disjoint and make up the skills.
LEMMA SkillSets ==
  /\ Primaries \subseteq Skills
  /\ Auxiliaries \subseteq Skills
  /\ Primaries \cap Auxiliaries = {}
  /\ \A k \in Primaries : k + 1 \in 1 .. NumPrimary + 1
  /\ NumPrimary + 1 \notin Primaries
  /\ 1 \in 1 .. NumPrimary + 1
  BY CountAssumption DEF Primaries, Auxiliaries, Skills

\* Storing a result of the engine keeps the types of task and status.
LEMMA RecordTyped ==
  ASSUME TypeOK, NEW b \in Batches, NEW k \in Skills,
         NEW result \in {"SUCCESS", "FAILED"}, Record(b, k, result)
  PROVE  /\ status' \in [Batches -> [Skills -> {"RUNNING", "SUCCESS", "FAILED"}]]
         /\ task' \in [Batches -> [Skills -> TaskStates]]
  <1>1. status[b] \in [Skills -> {"RUNNING", "SUCCESS", "FAILED"}]
    BY DEF TypeOK
  <1>2. [status[b] EXCEPT ![k] = result] \in [Skills -> {"RUNNING", "SUCCESS", "FAILED"}]
    BY <1>1
  <1>3. status' = [status EXCEPT ![b] = [status[b] EXCEPT ![k] = result]]
    BY DEF Record
  <1>4. status' \in [Batches -> [Skills -> {"RUNNING", "SUCCESS", "FAILED"}]]
    BY <1>2, <1>3 DEF TypeOK
  <1>5. PICK t \in {"raised", "recording"} :
          task' = [task EXCEPT ![b] = [task[b] EXCEPT ![k] = t]]
    BY DEF Record
  <1>6. [task[b] EXCEPT ![k] = t] \in [Skills -> TaskStates]
    BY DEF TypeOK, TaskStates
  <1>7. task' \in [Batches -> [Skills -> TaskStates]]
    BY <1>5, <1>6 DEF TypeOK
  <1> QED BY <1>4, <1>7

-----------------------------------------------------------------------------
(* The queue of a lock *)

\* A binding that leaves the head of the queue, and is active no more, keeps
\* the queue the list of the awaited bindings that are locking or executing.
LEMMA QueueLeft ==
  ASSUME TypeOK, Reaped, Head1st, Queued, Once, Awaited,
         NEW b \in Batches, NEW k \in Skills, NEW t \in {"recording", "raised"},
         Holds(b, k), Scheduled(b, k), process[b][k] \notin Alive,
         task' = [task EXCEPT ![b][k] = t],
         lock' = [lock EXCEPT ![b] = Tail(@)],
         UNCHANGED <<phase, turn, process>>
  PROVE  (Reaped /\ Head1st /\ Queued /\ Once /\ Awaited)'
  <1>1. /\ lock[b] \in Seq(Skills)
        /\ lock[b] # <<>>
        /\ lock[b][1] = k
    BY TailFacts DEF TypeOK, Holds
  <1>2. /\ Len(lock[b]) \in Nat /\ Len(lock[b]) > 0
        /\ Len(lock'[b]) = Len(lock[b]) - 1
        /\ \A i \in 1 .. Len(lock'[b]) : i + 1 \in 1 .. Len(lock[b]) /\ lock'[b][i] = lock[b][i + 1]
    <2>1. lock'[b] = Tail(lock[b])
      BY DEF TypeOK
    <2> QED BY <1>1, <2>1, TailFacts
  <1>3. \A c \in Batches : c # b => lock'[c] = lock[c] /\ task'[c] = task[c]
    BY DEF TypeOK
  <1>4. task'[b][k] = t /\ \A j \in Skills : j # k => task'[b][j] = task[b][j]
    BY DEF TypeOK
  <1>5. \A j \in Skills : j # k => task[b][j] # "executing"
    BY DEF Head1st, Holds
  <1>6. \A i \in 1 .. Len(lock[b]) : lock[b][i] \in Skills
    BY <1>1, ElementOfSeq
  <1>7. \A i \in 1 .. Len(lock'[b]) : lock'[b][i] # k
    <2>1. SUFFICES ASSUME NEW i \in 1 .. Len(lock'[b]), lock[b][i + 1] = k
                   PROVE  FALSE
      BY <1>2
    <2>2. i + 1 \in 1 .. Len(lock[b]) /\ 1 \in 1 .. Len(lock[b])
      BY <1>2
    <2>3. i + 1 = 1
      BY <1>1, <2>1, <2>2 DEF Once
    <2> QED BY <2>3, <1>2
  <1>8. Reaped'
    BY <1>3, <1>4 DEF Reaped
  <1>9. Head1st'
    <2>1. SUFFICES ASSUME NEW c \in Batches, NEW j \in Skills, task'[c][j] = "executing"
                   PROVE  Holds(c, j)'
      BY DEF Head1st
    <2>2. c # b
      BY <2>1, <1>4, <1>5
    <2> QED BY <2>1, <2>2, <1>3 DEF Head1st, Holds
  <1>10. Queued'
    <2>1. SUFFICES ASSUME NEW c \in Batches, NEW i \in 1 .. Len(lock'[c])
                   PROVE  task'[c][lock'[c][i]] \in {"locking", "executing"}
      BY DEF Queued
    <2>2. CASE c # b
      BY <2>2, <1>3 DEF Queued
    <2>3. CASE c = b
      <3>1. i + 1 \in 1 .. Len(lock[b]) /\ lock'[b][i] = lock[b][i + 1]
        BY <2>3, <1>2
      <3>2. lock'[b][i] \in Skills /\ lock'[b][i] # k
        BY <3>1, <1>6, <1>7, <2>3
      <3> QED BY <2>3, <3>1, <3>2, <1>4 DEF Queued
    <2> QED BY <2>2, <2>3
  <1>11. Once'
    <2>1. SUFFICES ASSUME NEW c \in Batches, NEW i \in 1 .. Len(lock'[c]),
                          NEW j \in 1 .. Len(lock'[c]), lock'[c][i] = lock'[c][j]
                   PROVE  i = j
      BY DEF Once
    <2>2. CASE c # b
      BY <2>1, <2>2, <1>3 DEF Once
    <2>3. CASE c = b
      <3>1. /\ i + 1 \in 1 .. Len(lock[b]) /\ j + 1 \in 1 .. Len(lock[b])
            /\ lock[b][i + 1] = lock[b][j + 1]
        BY <2>1, <2>3, <1>2
      <3>2. i + 1 = j + 1
        BY <3>1 DEF Once
      <3> QED BY <3>2, <2>3, <1>2
    <2> QED BY <2>2, <2>3
  <1>12. Awaited'
    BY <1>3, <1>4 DEF Awaited, Scheduled, Active
  <1> QED BY <1>8, <1>9, <1>10, <1>11, <1>12

\* So does a binding that joins the queue at its end.
LEMMA QueueJoined ==
  ASSUME TypeOK, Reaped, Head1st, Queued, Once, Awaited,
         NEW b \in Batches, NEW k \in Skills, Acquire(b, k)
  PROVE  (Reaped /\ Head1st /\ Queued /\ Once /\ Awaited)'
  <1>0. /\ task[b][k] = "idle"
        /\ Scheduled(b, k)
        /\ task' = [task EXCEPT ![b][k] = "locking"]
        /\ lock' = [lock EXCEPT ![b] = Append(@, k)]
        /\ UNCHANGED <<phase, turn, process>>
    BY DEF Acquire
  <1>1. lock[b] \in Seq(Skills)
    BY DEF TypeOK
  <1>2. lock'[b] = Append(lock[b], k)
    BY <1>0 DEF TypeOK
  <1>3. /\ lock'[b] # <<>>
        /\ Len(lock[b]) \in Nat
        /\ Len(lock'[b]) = Len(lock[b]) + 1
        /\ \A i \in 1 .. Len(lock[b]) : lock'[b][i] = lock[b][i]
        /\ lock'[b][Len(lock[b]) + 1] = k
        /\ lock[b] # <<>> => Head(lock'[b]) = Head(lock[b])
    BY <1>1, <1>2, AppendFacts
  <1>4. \A c \in Batches : c # b => lock'[c] = lock[c] /\ task'[c] = task[c]
    BY <1>0 DEF TypeOK
  <1>5. task'[b][k] = "locking" /\ \A j \in Skills : j # k => task'[b][j] = task[b][j]
    BY <1>0 DEF TypeOK
  <1>6. \A i \in 1 .. Len(lock[b]) : lock[b][i] \in Skills /\ lock[b][i] # k
    <2>1. \A i \in 1 .. Len(lock[b]) : lock[b][i] \in Skills
      BY <1>1, ElementOfSeq
    <2> QED BY <2>1, <1>0 DEF Queued
  <1>7. Reaped'
    BY <1>0, <1>4, <1>5 DEF Reaped
  <1>8. Head1st'
    <2>1. SUFFICES ASSUME NEW c \in Batches, NEW j \in Skills, task'[c][j] = "executing"
                   PROVE  Holds(c, j)'
      BY DEF Head1st
    <2>2. task[c][j] = "executing"
      BY <2>1, <1>4, <1>5
    <2>3. Holds(c, j)
      BY <2>2 DEF Head1st
    <2> QED BY <2>3, <1>3, <1>4 DEF Holds
  <1>9. Queued'
    <2>1. SUFFICES ASSUME NEW c \in Batches, NEW i \in 1 .. Len(lock'[c])
                   PROVE  task'[c][lock'[c][i]] \in {"locking", "executing"}
      BY DEF Queued
    <2>2. CASE c # b
      BY <2>2, <1>4 DEF Queued
    <2>3. CASE c = b /\ i = Len(lock[b]) + 1
      BY <2>3, <1>3, <1>5
    <2>4. CASE c = b /\ i # Len(lock[b]) + 1
      <3>1. i \in 1 .. Len(lock[b])
        BY <2>4, <1>3
      <3>2. lock'[b][i] = lock[b][i]
        BY <3>1, <1>3
      <3>3. task'[b][lock[b][i]] = task[b][lock[b][i]]
        BY <3>1, <1>5, <1>6
      <3> QED BY <2>4, <3>1, <3>2, <3>3 DEF Queued
    <2> QED BY <2>2, <2>3, <2>4
  <1>10. Once'
    <2>1. SUFFICES ASSUME NEW c \in Batches, NEW i \in 1 .. Len(lock'[c]),
                          NEW j \in 1 .. Len(lock'[c]), lock'[c][i] = lock'[c][j]
                   PROVE  i = j
      BY DEF Once
    <2>2. CASE c # b
      BY <2>1, <2>2, <1>4 DEF Once
    <2>3. CASE c = b
      <3> DEFINE n == Len(lock[b]) + 1
      <3>1. (i = n \/ i \in 1 .. Len(lock[b])) /\ (j = n \/ j \in 1 .. Len(lock[b]))
        BY <2>3, <1>3
      <3>2. i \in 1 .. Len(lock[b]) => lock'[b][i] = lock[b][i] /\ lock[b][i] # k
        BY <1>3, <1>6
      <3>3. j \in 1 .. Len(lock[b]) => lock'[b][j] = lock[b][j] /\ lock[b][j] # k
        BY <1>3, <1>6
      <3>4. lock'[b][n] = k
        BY <1>3
      <3>5. lock'[b][i] = lock'[b][j]
        BY <2>1, <2>3
      <3> HIDE DEF n
      <3> QED BY <3>1, <3>2, <3>3, <3>4, <3>5 DEF Once
    <2> QED BY <2>2, <2>3
  <1>11. Awaited'
    BY <1>0, <1>4, <1>5 DEF Awaited, Scheduled, Active
  <1> QED BY <1>7, <1>8, <1>9, <1>10, <1>11

-----------------------------------------------------------------------------
(* One step of a binding *)

\* The lock after a release is again a queue of skills.
LEMMA ReturnTails ==
  ASSUME TypeOK, NEW b \in Batches, NEW k \in Skills, Holds(b, k),
         lock' = [lock EXCEPT ![b] = Tail(@)]
  PROVE  lock' \in [Batches -> Seq(Skills)]
  <1>1. Tail(lock[b]) \in Seq(Skills)
    BY TailFacts DEF Holds, TypeOK
  <1> QED BY <1>1 DEF TypeOK

\* A step of one binding keeps the types.
LEMMA BindingStepTyped ==
  ASSUME TypeOK, Head1st, NEW b \in Batches, NEW k \in Skills, OneStep(b, k)
  PROVE  TypeOK'
  <1>1. CASE ResolveFails(b, k)
    BY <1>1 DEF ResolveFails, TypeOK, TaskStates
  <1>2. CASE Acquire(b, k)
    <2>1. Append(lock[b], k) \in Seq(Skills)
      BY AppendFacts DEF TypeOK
    <2> QED BY <1>2, <2>1 DEF Acquire, TypeOK, TaskStates
  <1>3. CASE Spawn(b, k)
    BY <1>3 DEF Spawn, TypeOK, TaskStates, ProcessStates
  <1>4. CASE PrepFails(b, k)
    <2>1. lock' \in [Batches -> Seq(Skills)]
      BY <1>4, ReturnTails DEF PrepFails
    <2>2. Record(b, k, "FAILED")
      BY <1>4 DEF PrepFails
    <2> QED BY <1>4, <2>1, <2>2, RecordTyped DEF PrepFails, TypeOK
  <1>5. CASE SpawnRaises(b, k)
    <2>1. lock' \in [Batches -> Seq(Skills)]
      BY <1>5, ReturnTails DEF SpawnRaises
    <2> QED BY <1>5, <2>1 DEF SpawnRaises, TypeOK, TaskStates
  <1>6. CASE Terminate(b, k)
    BY <1>6 DEF Terminate, TypeOK, ProcessStates
  <1>7. CASE Kill(b, k)
    BY <1>7 DEF Kill, TypeOK, ProcessStates
  <1>8. CASE Return(b, k)
    <2>1. lock' \in [Batches -> Seq(Skills)]
      BY <1>8, ReturnTails DEF Return, Head1st
    <2>2. PICK result \in {"SUCCESS", "FAILED"} : Record(b, k, result)
      BY <1>8 DEF Return
    <2> QED BY <1>8, <2>1, <2>2, RecordTyped DEF Return, TypeOK
  <1>9. CASE Recorded(b, k)
    BY <1>9 DEF Recorded, TypeOK, TaskStates
  <1>10. CASE RecordFails(b, k)
    BY <1>10 DEF RecordFails, TypeOK, TaskStates
  <1>11. CASE Exit(b, k)
    BY <1>11 DEF Exit, TypeOK, ProcessStates
  <1> QED
    BY <1>1, <1>2, <1>3, <1>4, <1>5, <1>6, <1>7, <1>8, <1>9, <1>10, <1>11 DEF OneStep, StepOf

\* A step that moves no queue: k goes on from "locking" to "executing" at the
\* head of it, or is none of its members before and after.
LEMMA QueueUnmoved ==
  ASSUME TypeOK, Queued, Once, NEW b \in Batches, NEW k \in Skills, NEW t,
         task' = [task EXCEPT ![b][k] = t], lock' = lock,
         t \in {"locking", "executing"} \/ task[b][k] \notin {"locking", "executing"}
  PROVE  (Queued /\ Once)'
  <1>1. \A c \in Batches : \A i \in 1 .. Len(lock[c]) : lock[c][i] \in Skills
    BY ElementOfSeq DEF TypeOK
  <1>2. Queued'
    <2>1. SUFFICES ASSUME NEW c \in Batches, NEW i \in 1 .. Len(lock[c])
                   PROVE  task'[c][lock[c][i]] \in {"locking", "executing"}
      BY DEF Queued
    <2>2. task[c][lock[c][i]] \in {"locking", "executing"} /\ lock[c][i] \in Skills
      BY <1>1 DEF Queued
    <2>3. CASE c = b /\ lock[c][i] = k
      BY <2>2, <2>3 DEF TypeOK
    <2>4. CASE ~(c = b /\ lock[c][i] = k)
      BY <2>2, <2>4 DEF TypeOK
    <2> QED BY <2>3, <2>4
  <1>3. Once'
    BY DEF Once
  <1> QED BY <1>2, <1>3

\* A step of one binding keeps the lock invariant, action by action.
LEMMA BindingStepKeeps ==
  ASSUME LockInv, NEW b \in Batches, NEW k \in Skills, OneStep(b, k)
  PROVE  LockInv'
  <1> USE DEF LockInv
  <1>0. TypeOK'
    BY BindingStepTyped
  <1>1. CASE ResolveFails(b, k)
    <2>1. (Queued /\ Once)'
      BY <1>1, QueueUnmoved DEF ResolveFails
    <2>2. (Reaped /\ Head1st /\ Awaited)'
      BY <1>1 DEF ResolveFails, Reaped, Head1st, Awaited, Scheduled, Holds, Active, TypeOK
    <2> QED BY <1>0, <2>1, <2>2
  <1>2. CASE Acquire(b, k)
    BY <1>0, <1>2, QueueJoined
  <1>3. CASE Spawn(b, k)
    <2>1. (Queued /\ Once)'
      BY <1>3, QueueUnmoved DEF Spawn
    <2>2. (Reaped /\ Head1st /\ Awaited)'
      BY <1>3 DEF Spawn, Reaped, Head1st, Awaited, Scheduled, Holds, Active, TypeOK
    <2> QED BY <1>0, <2>1, <2>2
  <1>4. CASE PrepFails(b, k)
    <2>1. PICK t \in {"recording", "raised"} : task' = [task EXCEPT ![b][k] = t]
      BY <1>4 DEF PrepFails, Record
    <2>2. Holds(b, k) /\ Scheduled(b, k) /\ process[b][k] \notin Alive
      BY <1>4 DEF PrepFails, Awaited, Active, Reaped
    <2>3. lock' = [lock EXCEPT ![b] = Tail(@)] /\ UNCHANGED <<phase, turn, process>>
      BY <1>4 DEF PrepFails
    <2> QED BY <1>0, <2>1, <2>2, <2>3, QueueLeft
  <1>5. CASE SpawnRaises(b, k)
    <2>1. Holds(b, k) /\ Scheduled(b, k) /\ process[b][k] \notin Alive
      BY <1>5 DEF SpawnRaises, Awaited, Active, Reaped
    <2>2. /\ task' = [task EXCEPT ![b][k] = "raised"]
          /\ lock' = [lock EXCEPT ![b] = Tail(@)]
          /\ UNCHANGED <<phase, turn, process>>
      BY <1>5 DEF SpawnRaises
    <2> QED BY <1>0, <2>1, <2>2, QueueLeft
  <1>6. CASE Return(b, k)
    <2>1. PICK t \in {"recording", "raised"} : task' = [task EXCEPT ![b][k] = t]
      BY <1>6 DEF Return, Record
    <2>2. Holds(b, k) /\ Scheduled(b, k)
      BY <1>6 DEF Return, Head1st, Awaited, Active
    <2>3. process[b][k] \notin Alive
      BY <1>6 DEF Return, Alive
    <2>4. lock' = [lock EXCEPT ![b] = Tail(@)] /\ UNCHANGED <<phase, turn, process>>
      BY <1>6 DEF Return
    <2> QED BY <1>0, <2>1, <2>2, <2>3, <2>4, QueueLeft
  <1>7. CASE Recorded(b, k)
    <2>1. (Queued /\ Once)'
      BY <1>7, QueueUnmoved DEF Recorded
    <2>2. (Reaped /\ Head1st /\ Awaited)'
      BY <1>7 DEF Recorded, Reaped, Head1st, Awaited, Scheduled, Holds, Active, TypeOK
    <2> QED BY <1>0, <2>1, <2>2
  <1>8. CASE RecordFails(b, k)
    <2>1. (Queued /\ Once)'
      BY <1>8, QueueUnmoved DEF RecordFails
    <2>2. (Reaped /\ Head1st /\ Awaited)'
      BY <1>8 DEF RecordFails, Reaped, Head1st, Awaited, Scheduled, Holds, Active, TypeOK
    <2> QED BY <1>0, <2>1, <2>2
  <1>9. CASE Terminate(b, k) \/ Kill(b, k) \/ Exit(b, k)
    <2>1. \A c \in Batches, j \in Skills : process'[c][j] \in Alive => process[c][j] \in Alive
      <3>1. process[b][k] \in Alive
        BY <1>9 DEF Terminate, Kill, Exit, Alive
      <3>2. PICK p : process' = [process EXCEPT ![b][k] = p]
        BY <1>9 DEF Terminate, Kill, Exit
      <3> QED BY <3>1, <3>2 DEF TypeOK
    <2>2. UNCHANGED <<phase, turn, task, lock, status>>
      BY <1>9 DEF Terminate, Kill, Exit
    <2> QED BY <1>0, <2>1, <2>2 DEF Reaped, Head1st, Holds, Queued, Once, Awaited, Scheduled
  <1> QED
    BY <1>1, <1>2, <1>3, <1>4, <1>5, <1>6, <1>7, <1>8, <1>9 DEF OneStep, StepOf

-----------------------------------------------------------------------------
(* One step of a batch *)

\* A step of the batch keeps the types.
LEMMA BatchStepTyped ==
  ASSUME TypeOK, NEW b \in Batches, Begin(b) \/ BatchStep(b)
  PROVE  TypeOK'
  <1> USE DEF TypeOK, Phases
  <1>1. ASSUME RollBack(b) PROVE phase' \in [Batches -> Phases]
                 /\ status' \in [Batches -> [Skills -> {"RUNNING", "SUCCESS", "FAILED"}]]
    BY <1>1 DEF RollBack
  <1>2. CASE Begin(b)             BY <1>2 DEF Begin
  <1>3. CASE NextPrimary(b)
    <2>1. turn[b] + 1 \in 1 .. NumPrimary + 1
      BY <1>3, SkillSets DEF NextPrimary
    <2> QED BY <1>3, <2>1 DEF NextPrimary
  <1>4. CASE PrimaryRaises(b)     BY <1>1, <1>4 DEF PrimaryRaises
  <1>5. CASE StartAuxiliaries(b)  BY <1>5 DEF StartAuxiliaries
  <1>6. CASE End(b)               BY <1>6 DEF End
  <1>7. CASE EndRaises(b)         BY <1>1, <1>7 DEF EndRaises
  <1> QED BY <1>2, <1>3, <1>4, <1>5, <1>6, <1>7 DEF BatchStep

\* When a batch goes on or ends, nobody it has awaited is active any more.
LEMMA NobodyActive ==
  ASSUME TypeOK, Awaited, NEW b \in Batches, Begin(b) \/ BatchStep(b)
  PROVE  \A k \in Skills : task[b][k] \notin Active
  <1>0. SUFFICES ASSUME NEW k \in Skills, task[b][k] \in Active PROVE FALSE
    OBVIOUS
  <1>1. Scheduled(b, k)
    BY <1>0 DEF Awaited
  <1>2. task[b][k] \notin Settled
    BY <1>0 DEF Active, Settled
  <1>3. CASE Begin(b)             BY <1>1, <1>3 DEF Begin, Scheduled
  <1>4. CASE NextPrimary(b)       BY <1>1, <1>2, <1>4 DEF NextPrimary, Scheduled, Settled
  <1>5. CASE PrimaryRaises(b)     BY <1>1, <1>2, <1>5 DEF PrimaryRaises, Scheduled, Settled
  <1>6. CASE StartAuxiliaries(b)  BY <1>1, <1>6, SkillSets DEF StartAuxiliaries, Scheduled
  <1>7. CASE End(b) \/ EndRaises(b)
    <2>1. BatchDone(b)
      BY <1>7 DEF End, EndRaises
    <2> QED BY <1>1, <1>2, <2>1, SkillSets DEF BatchDone, Scheduled
  <1> QED BY <1>3, <1>4, <1>5, <1>6, <1>7 DEF BatchStep

\* A step of the batch keeps the lock invariant: it comes when the queue is empty.
LEMMA BatchStepKeeps ==
  ASSUME LockInv, NEW b \in Batches, Begin(b) \/ BatchStep(b)
  PROVE  LockInv'
  <1> USE DEF LockInv
  <1>1. TypeOK'
    BY BatchStepTyped
  <1>2. UNCHANGED <<task, lock, process>>
    BY DEF Begin, BatchStep, NextPrimary, PrimaryRaises, StartAuxiliaries, End, EndRaises
  <1>3. \A c \in Batches : c # b => phase'[c] = phase[c] /\ turn'[c] = turn[c]
    BY DEF Begin, BatchStep, NextPrimary, PrimaryRaises, StartAuxiliaries, End, EndRaises,
           RollBack, TypeOK
  <1>4. (Reaped /\ Head1st /\ Queued /\ Once)'
    BY <1>2 DEF Reaped, Head1st, Holds, Queued, Once
  <1>5. Awaited'
    BY <1>2, <1>3, NobodyActive DEF Awaited, Scheduled
  <1> QED BY <1>1, <1>4, <1>5

-----------------------------------------------------------------------------
(* The invariants *)

\* The lock invariant holds before any batch begins.
LEMMA LockInvInit == Init => LockInv
  <1> SUFFICES ASSUME Init PROVE LockInv
    OBVIOUS
  <1>1. \A b \in Batches : lock[b] = <<>> /\ Len(lock[b]) = 0
    BY DEF Init
  <1>2. TypeOK
    BY SkillSets DEF Init, TypeOK, Phases, TaskStates, ProcessStates
  <1>3. Reaped /\ Head1st /\ Awaited
    BY DEF Init, Reaped, Head1st, Awaited, Alive, Active
  <1>4. Queued /\ Once
    BY <1>1 DEF Queued, Once
  <1> QED BY <1>2, <1>3, <1>4 DEF LockInv

\* The lock invariant is inductive.
LEMMA LockInvStep == LockInv /\ [Next]_vars => LockInv'
  <1> SUFFICES ASSUME LockInv, [Next]_vars PROVE LockInv'
    OBVIOUS
  <1>1. CASE UNCHANGED vars
    BY <1>1 DEF vars, LockInv, TypeOK, Reaped, Head1st, Holds, Queued, Once, Awaited, Scheduled
  <1>2. ASSUME NEW b \in Batches, Begin(b) \/ BatchStep(b) PROVE LockInv'
    BY <1>2, BatchStepKeeps
  <1>3. ASSUME NEW b \in Batches, NEW k \in Skills, StepOf(b, k) \/ Exit(b, k) PROVE LockInv'
    BY <1>3, BindingStepKeeps DEF OneStep
  <1> QED BY <1>1, <1>2, <1>3 DEF Next

\* The lock's queue is at all times the list, without repetition, of the awaited
\* bindings between acquire and release, and only its head has a process.
THEOREM LockInvariant == Spec => []LockInv
  BY LockInvInit, LockInvStep, PTL DEF Spec

\* Every variable of a batch keeps its type; statuses are those of the table
\* skill_executions.
THEOREM BatchTyped == Spec => []TypeOK
  <1>1. LockInv => TypeOK
    BY DEF LockInv
  <1> QED BY <1>1, LockInvariant, PTL

\* A live process is always that of the coroutine which holds the lock and
\* waits for it: none outlives the call that spawned it.
THEOREM ProcessesKept == Spec => []ProcessHasKeeper
  <1>1. LockInv => ProcessHasKeeper
    BY DEF LockInv, Reaped, Head1st, ProcessHasKeeper
  <1> QED BY <1>1, LockInvariant, PTL

\* Two skills of a batch never run together, for any number of auxiliaries.
THEOREM Exclusion == Spec => []EngineExclusive
  <1>1. LockInv => EngineExclusive
    BY DEF LockInv, Reaped, Head1st, EngineExclusive, Holds
  <1> QED BY <1>1, LockInvariant, PTL

\* However a batch ends, no process of it is alive and its lock is free.
THEOREM CleanEnd == Spec => []NothingLeftBehind
  <1>1. ASSUME LockInv PROVE NothingLeftBehind
    <2>1. SUFFICES ASSUME NEW b \in Batches, phase[b] \in {"ended", "raised"}
                   PROVE  lock[b] = <<>> /\ \A k \in Skills : process[b][k] \notin Alive
      BY DEF NothingLeftBehind
    <2>2. \A k \in Skills : task[b][k] \notin Active
      BY <1>1, <2>1 DEF LockInv, Awaited, Scheduled
    <2>3. \A k \in Skills : process[b][k] \notin Alive
      BY <1>1, <2>2 DEF LockInv, Reaped, Active
    <2>4. ASSUME lock[b] # <<>> PROVE FALSE
      <3>1. lock[b] \in Seq(Skills) /\ 1 \in 1 .. Len(lock[b]) /\ lock[b][1] \in Skills
        BY <1>1, <2>4, TailFacts DEF LockInv, TypeOK
      <3>2. task[b][lock[b][1]] \in {"locking", "executing"}
        BY <1>1, <3>1 DEF LockInv, Queued
      <3> QED BY <3>1, <3>2, <2>2 DEF Active
    <2> QED BY <2>3, <2>4
  <1> QED BY <1>1, LockInvariant, PTL

-----------------------------------------------------------------------------
(* Auxiliaries and outcomes *)

NotBegun(b) == phase[b] \in {"new", "primaries"} =>
                 \A k \in Auxiliaries : task[b][k] = "idle"
Earned(b)   == phase[b] = "auxiliaries" => PrimariesSucceeded(b)
Founded(b)  == \A k \in Auxiliaries :
                 task[b][k] # "idle" /\ phase[b] # "raised" => PrimariesSucceeded(b)

AuxInv == \A b \in Batches : NotBegun(b) /\ Earned(b) /\ Founded(b)

\* A binding that takes a step is awaited by the orchestrator or leaves both
\* its task and its status alone; it touches no other binding.
LEMMA OnlyAwaitedMove ==
  ASSUME LockInv, NEW b \in Batches, NEW k \in Skills, OneStep(b, k)
  PROVE  /\ UNCHANGED <<phase, turn>>
         /\ \A c \in Batches, j \in Skills :
              <<c, j>> # <<b, k>> => task'[c][j] = task[c][j] /\ status'[c][j] = status[c][j]
         /\ ~Scheduled(b, k) => task' = task /\ status' = status
  <1>1. UNCHANGED <<phase, turn>>
    BY DEF OneStep, StepOf, ResolveFails, Acquire, Spawn, PrepFails, SpawnRaises, Terminate,
           Kill, Return, Recorded, RecordFails, Exit
  <1>2. CASE Terminate(b, k) \/ Kill(b, k) \/ Exit(b, k)
    BY <1>1, <1>2 DEF Terminate, Kill, Exit
  <1>3. CASE ResolveFails(b, k) \/ Acquire(b, k) \/ Spawn(b, k) \/ PrepFails(b, k) \/
             SpawnRaises(b, k) \/ Return(b, k) \/ Recorded(b, k) \/ RecordFails(b, k)
    <2>1. Scheduled(b, k)
      BY <1>3 DEF LockInv, Awaited, Active, ResolveFails, Acquire, Spawn, PrepFails,
                  SpawnRaises, Return, Recorded, RecordFails
    <2>2. PICK t : task' = [task EXCEPT ![b][k] = t]
      BY <1>3 DEF ResolveFails, Acquire, Spawn, PrepFails, SpawnRaises, Return, Recorded,
                  RecordFails, Record
    <2>3. PICK s : status' = [status EXCEPT ![b][k] = s] \/ status' = status
      BY <1>3 DEF ResolveFails, Acquire, Spawn, PrepFails, SpawnRaises, Return, Recorded,
                  RecordFails, Record
    <2> QED BY <1>1, <2>1, <2>2, <2>3 DEF LockInv, TypeOK
  <1> QED BY <1>2, <1>3 DEF OneStep, StepOf

\* The invariant about primaries and auxiliaries is inductive given the lock's.
LEMMA AuxInvStep == LockInv /\ AuxInv /\ [Next]_vars => AuxInv'
  <1> SUFFICES ASSUME LockInv, AuxInv, [Next]_vars PROVE AuxInv'
    OBVIOUS
  <1>1. CASE UNCHANGED vars
    BY <1>1 DEF vars, AuxInv, NotBegun, Earned, Founded, PrimariesSucceeded
  <1>2. ASSUME NEW b \in Batches, NEW k \in Skills, OneStep(b, k) PROVE AuxInv'
    <2>1. SUFFICES ASSUME NEW c \in Batches PROVE (NotBegun(c) /\ Earned(c) /\ Founded(c))'
      BY DEF AuxInv
    <2>2. /\ phase'[c] = phase[c]
          /\ \A j \in Skills : <<c, j>> # <<b, k>> =>
               task'[c][j] = task[c][j] /\ status'[c][j] = status[c][j]
          /\ ~Scheduled(b, k) => task' = task /\ status' = status
      BY <1>2, OnlyAwaitedMove
    <2>3. NotBegun(c) /\ Earned(c) /\ Founded(c)
      BY DEF AuxInv
    <2>4. CASE c # b \/ ~Scheduled(b, k)
      BY <2>2, <2>3, <2>4, SkillSets DEF NotBegun, Earned, Founded, PrimariesSucceeded
    <2>5. CASE c = b /\ phase[b] = "primaries" /\ k \in Primaries
      BY <2>2, <2>3, <2>5, SkillSets DEF NotBegun, Earned, Founded, PrimariesSucceeded
    <2>6. CASE c = b /\ phase[b] = "auxiliaries" /\ k \in Auxiliaries
      BY <2>2, <2>3, <2>6, SkillSets DEF NotBegun, Earned, Founded, PrimariesSucceeded
    <2> QED BY <2>4, <2>5, <2>6 DEF Scheduled
  <1>3. ASSUME NEW b \in Batches, Begin(b) \/ BatchStep(b) PROVE AuxInv'
    <2>1. SUFFICES ASSUME NEW c \in Batches PROVE (NotBegun(c) /\ Earned(c) /\ Founded(c))'
      BY DEF AuxInv
    <2>2. NotBegun(c) /\ Earned(c) /\ Founded(c)
      BY DEF AuxInv
    <2>3. UNCHANGED task
      BY <1>3 DEF Begin, BatchStep, NextPrimary, PrimaryRaises, StartAuxiliaries, End, EndRaises
    <2>4. CASE c # b
      <3>1. phase'[c] = phase[c] /\ status'[c] = status[c]
        BY <1>3, <2>4 DEF Begin, BatchStep, NextPrimary, PrimaryRaises, StartAuxiliaries, End,
                          EndRaises, RollBack, LockInv, TypeOK
      <3> QED BY <2>2, <2>3, <3>1 DEF NotBegun, Earned, Founded, PrimariesSucceeded
    <2>5. CASE c = b /\ (PrimaryRaises(b) \/ EndRaises(b))
      <3>1. phase'[b] = "raised"
        BY <2>5 DEF PrimaryRaises, EndRaises, RollBack, LockInv, TypeOK
      <3> QED BY <2>5, <3>1 DEF NotBegun, Earned, Founded
    <2>6. CASE c = b /\ (Begin(b) \/ NextPrimary(b) \/ StartAuxiliaries(b) \/ End(b))
      <3>1. status' = status /\ (PrimariesSucceeded(b)' <=> PrimariesSucceeded(b))
        BY <2>6 DEF Begin, NextPrimary, StartAuxiliaries, End, PrimariesSucceeded
      <3>2. CASE Begin(b) \/ NextPrimary(b)
        <4>1. phase[b] \in {"new", "primaries"} /\ phase'[b] = "primaries"
          BY <3>2 DEF Begin, NextPrimary, LockInv, TypeOK
        <4> QED BY <2>2, <2>3, <2>6, <3>1, <4>1 DEF NotBegun, Earned, Founded
      <3>3. CASE StartAuxiliaries(b)
        <4>1. PrimariesSucceeded(b) /\ phase'[b] = "auxiliaries"
          BY <3>3 DEF StartAuxiliaries, LockInv, TypeOK
        <4> QED BY <2>6, <3>1, <4>1 DEF NotBegun, Earned, Founded
      <3>4. CASE End(b)
        <4>1. phase[b] \in {"primaries", "auxiliaries"} /\ phase'[b] = "ended"
          BY <3>4 DEF End, BatchDone, LockInv, TypeOK
        <4> QED BY <2>2, <2>3, <2>6, <3>1, <4>1 DEF NotBegun, Earned, Founded
      <3> QED BY <2>6, <3>2, <3>3, <3>4
    <2> QED BY <1>3, <2>4, <2>5, <2>6 DEF BatchStep
  <1> QED BY <1>1, <1>2, <1>3 DEF Next, OneStep

\* It holds before any batch begins.
LEMMA AuxInvInit == Init => AuxInv
  <1> SUFFICES ASSUME Init, NEW b \in Batches PROVE NotBegun(b) /\ Earned(b) /\ Founded(b)
    BY DEF AuxInv
  <1>1. phase[b] = "new" /\ \A k \in Skills : task[b][k] = "idle"
    BY DEF Init
  <1> QED BY <1>1, SkillSets DEF NotBegun, Earned, Founded

\* No auxiliary skill runs unless all primary skills of its batch succeeded.
THEOREM PrimariesFirst == Spec => []AuxiliariesAfterPrimaries
  <1>1. AuxInv => AuxiliariesAfterPrimaries
    BY DEF AuxInv, Founded, AuxiliariesAfterPrimaries
  <1>2. Spec => []AuxInv
    BY AuxInvInit, AuxInvStep, LockInvariant, PTL DEF Spec
  <1> QED BY <1>1, <1>2, PTL

\* The refinement's safety: a batch has no outcome until it ends, ends with one
\* of the four, and what other batches or late tasks do never changes it.
THEOREM OneOutcome == Spec => Abstract!Safe
  <1>1. Init => Abstract!Init
    BY DEF Init, Abstract!Init, Outcome
  <1>2. ASSUME LockInv, [Next]_vars PROVE [Abstract!Next]_[b \in Batches |-> Outcome(b)]
    <2>1. CASE UNCHANGED vars
      BY <2>1 DEF vars, Outcome, PrimariesSucceeded, AuxiliariesSucceeded
    <2>2. ASSUME NEW b \in Batches, NEW k \in Skills, OneStep(b, k)
          PROVE  \A c \in Batches : Outcome(c)' = Outcome(c)
      <3>1. SUFFICES ASSUME NEW c \in Batches PROVE Outcome(c)' = Outcome(c)
        OBVIOUS
      <3>2. /\ phase'[c] = phase[c]
            /\ \A j \in Skills : <<c, j>> # <<b, k>> =>
                 task'[c][j] = task[c][j] /\ status'[c][j] = status[c][j]
            /\ ~Scheduled(b, k) => task' = task /\ status' = status
        BY <1>2, <2>2, OnlyAwaitedMove
      <3>3. CASE phase[c] \in {"ended", "raised"}
        <4>1. \A j \in Skills : task'[c][j] = task[c][j] /\ status'[c][j] = status[c][j]
          BY <3>2, <3>3 DEF Scheduled
        <4>2. /\ PrimariesSucceeded(c)' <=> PrimariesSucceeded(c)
              /\ AuxiliariesSucceeded(c)' <=> AuxiliariesSucceeded(c)
          BY <4>1, SkillSets DEF PrimariesSucceeded, AuxiliariesSucceeded
        <4> QED BY <3>2, <4>2 DEF Outcome
      <3>4. CASE phase[c] \notin {"ended", "raised"}
        BY <3>2, <3>4 DEF Outcome
      <3> QED BY <3>3, <3>4
    <2>3. ASSUME NEW b \in Batches, Begin(b) \/ BatchStep(b)
          PROVE  /\ \A c \in Batches : c # b => Outcome(c)' = Outcome(c)
                 /\ Outcome(b) = "RUNNING"
                 /\ Outcome(b)' \in {"RUNNING", "SUCCESS", "PARTIAL", "FAILED", "RAISED"}
      <3>1. \A c \in Batches : c # b =>
              phase'[c] = phase[c] /\ status'[c] = status[c] /\ task' = task
        BY <1>2, <2>3 DEF Begin, BatchStep, NextPrimary, PrimaryRaises, StartAuxiliaries, End,
                          EndRaises, RollBack, LockInv, TypeOK
      <3>2. phase[b] \in {"new", "primaries", "auxiliaries"}
        BY <2>3 DEF Begin, BatchStep, NextPrimary, PrimaryRaises, StartAuxiliaries, End,
                    EndRaises, BatchDone
      <3>3. \A c \in Batches : c # b => Outcome(c)' = Outcome(c)
        BY <3>1 DEF Outcome, PrimariesSucceeded, AuxiliariesSucceeded
      <3>4. Outcome(b) = "RUNNING"
        BY <3>2 DEF Outcome
      <3>5. Outcome(b)' \in {"RUNNING", "SUCCESS", "PARTIAL", "FAILED", "RAISED"}
        BY DEF Outcome
      <3> QED BY <3>3, <3>4, <3>5
    <2>4. ASSUME NEW b \in Batches, Begin(b) \/ BatchStep(b)
          PROVE  [Abstract!Next]_[c \in Batches |-> Outcome(c)]
      <3> DEFINE out == [c \in Batches |-> Outcome(c)]
      <3>1. CASE Outcome(b)' = "RUNNING"
        <4>1. \A c \in Batches : Outcome(c)' = Outcome(c)
          BY <2>3, <2>4, <3>1
        <4> QED BY <4>1
      <3>2. CASE Outcome(b)' # "RUNNING"
        <4>1. out' = [out EXCEPT ![b] = Outcome(b)']
          BY <2>3, <2>4
        <4>2. out[b] = "RUNNING" /\ Outcome(b)' \in Abstract!Outcomes
          BY <2>3, <2>4, <3>2 DEF Abstract!Outcomes
        <4>3. Abstract!End(b)
          BY <4>1, <4>2 DEF Abstract!End
        <4> QED BY <4>3 DEF Abstract!Next
      <3> QED BY <3>1, <3>2
    <2> QED BY <1>2, <2>1, <2>2, <2>4 DEF Next, OneStep
  <1> QED BY <1>1, <1>2, LockInvariant, PTL DEF Spec, Abstract!Safe
=============================================================================
