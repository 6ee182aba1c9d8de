----------------------- MODULE SkillExecutionsProofs -----------------------
(***************************************************************************)
(* What SkillExecutions guarantees for any skills, requests and batches.   *)
(*                                                                         *)
(* The argument: only a batch produces a result, and a batch that has      *)
(* ended writes no more.  So an execution that was read as FAILED is       *)
(* settled (Settled): only a stop can still touch it.  All retries, those  *)
(* that exist and those that a request has planned, hang on settled        *)
(* executions (PlanOK), and so does what their confirmation was copied     *)
(* from.                                                                   *)
(***************************************************************************)
EXTENDS SkillExecutions, TLAPS

Settled(x) ==
  /\ x \in Executions
  /\ x[1] \in Batches
  /\ batch[x[1]] = "ended"
  /\ row[x].status \in {"FAILED", "STOPPED"}

\* A row of a route, planned or inserted, for skill s.
PlanOK(p, s) ==
  /\ p.retries \in {0, 1}
  /\ p.previous # NoExecution => Settled(p.previous)
  /\ p.retries = 1 => Settled(p.previous)
  /\ s \in Release => p.confirmed \/ p.retries = 1

BatchRow(x) ==
  /\ row[x].previous = NoExecution
  /\ row[x].retries = 0
  /\ batch[x[1]] = "new" => row[x].status = "absent"
  /\ batch[x[1]] = "running" => row[x].status \in {"absent", "RUNNING", "STOPPED"}

RouteRow(x) ==
  row[x].status # "absent" =>
    /\ row[x].status \in {"NOT_STARTED", "STOPPED"}
    /\ PlanOK(row[x], x[2])

Rows ==
  \A x \in Executions : (x[1] \in Batches => BatchRow(x)) /\ (x[1] \in Requests => RouteRow(x))

Unused(r, S) == \A s \in S : row[<<r, s>>].status = "absent"

Serving(r) ==
  /\ pc[r] = "new" => Unused(r, Skills) /\ arg[r].todo = {}
  /\ pc[r] \in {"triggering", "creating"} =>
       /\ Unused(r, arg[r].todo)
       /\ arg[r].planned.status = "NOT_STARTED"
       /\ arg[r].planned.retries \in {0, 1}
  /\ pc[r] = "triggering" \/ (pc[r] = "creating" /\ arg[r].todo # {}) =>
       arg[r].planned.previous = NoExecution /\ arg[r].planned.retries = 0
  /\ pc[r] = "creating" =>
       /\ arg[r].skill \in Skills \ arg[r].todo
       /\ Unused(r, {arg[r].skill})
       /\ PlanOK(arg[r].planned, arg[r].skill)
  /\ pc[r] = "stopping" => arg[r].target \in Exists

IndInv ==
  /\ TypeOK
  /\ Rows
  /\ \A r \in Requests : Serving(r)

-----------------------------------------------------------------------------
LEMMA TypeInit == Init => TypeOK
BY DEF Init, TypeOK, Blank, NoArg, Row, Arg, Status, Action, RetryLimit

\* Changes of single columns.
LEMMA RowChanged ==
  ASSUME NEW p \in Row
  PROVE  /\ \A s \in Status : [p EXCEPT !.status = s] \in Row
         /\ [p EXCEPT !.confirmed = TRUE] \in Row
BY DEF Row

LEMMA PlanType ==
  ASSUME NEW a \in Action, NEW p \in Executions \cup {NoExecution}, NEW c \in BOOLEAN
  PROVE  /\ Plan(a, p, c) \in Row
         /\ Plan(a, p, c).status = "NOT_STARTED"
         /\ Plan(a, p, c).retries = 0
         /\ Plan(a, p, c).previous = p
         /\ Plan(a, p, c).confirmed = c
BY DEF Plan, Row, Status, RetryLimit

LEMMA ReturnType ==
  ASSUME TypeOK, NEW r \in Requests, Return(r)
  PROVE  /\ pc' \in [Requests -> {"new", "triggering", "creating", "stopping", "done"}]
         /\ arg' \in [Requests -> Arg]
BY DEF TypeOK, Return, NoArg, Arg, Blank, Row, Status, Action, RetryLimit

LEMMA ProceedType ==
  ASSUME TypeOK, NEW r \in Requests, NEW T \in SUBSET Skills, Proceed(r, T)
  PROVE  /\ pc' \in [Requests -> {"new", "triggering", "creating", "stopping", "done"}]
         /\ arg' \in [Requests -> Arg]
<1>1. CASE T = {}
  BY <1>1, ReturnType DEF Proceed
<1>2. CASE T # {}
  BY <1>2 DEF Proceed, TypeOK, Arg
<1> QED BY <1>1, <1>2

\* A retry of an execution that was read as FAILED.
RetryPlan(x) == [Plan("RETRY", x, row[x].confirmed) EXCEPT !.retries = row[x].retries + 1]

LEMMA RetryPlanType ==
  ASSUME TypeOK, NEW x \in Exists, row[x].retries < RetryLimit
  PROVE  /\ x \in Executions
         /\ RetryPlan(x) \in Row
         /\ RetryPlan(x).status = "NOT_STARTED"
         /\ RetryPlan(x).retries = row[x].retries + 1
         /\ RetryPlan(x).previous = x
BY DEF TypeOK, Exists, RetryPlan, Plan, Row, Status, Action, RetryLimit

\* Every variable keeps its type.
LEMMA TypeNext == TypeOK /\ [Next]_vars => TypeOK'
<1> SUFFICES ASSUME TypeOK, [Next]_vars PROVE TypeOK'
  OBVIOUS
<1>1. ASSUME NEW b \in Batches, StartBatch(b) PROVE TypeOK'
  <2>1. [Blank EXCEPT !.status = "RUNNING"] \in Row
    <3>1. Blank \in Row
      BY DEF Blank, Row, Status, Action, RetryLimit
    <3> QED BY <3>1, RowChanged DEF Status
  <2> QED BY <1>1, <2>1 DEF StartBatch, TypeOK
<1>2. ASSUME NEW b \in Batches, EndBatch(b) PROVE TypeOK'
  <2>0. PICK ran \in SUBSET Bound : \E result \in [ran -> {"SUCCESS", "FAILED"}] :
          row' = [x \in Executions |-> IF x[1] = b /\ x[2] \in ran
                    THEN [row[x] EXCEPT !.status = result[x[2]]] ELSE row[x]]
    BY <1>2 DEF EndBatch
  <2>1. PICK result \in [ran -> {"SUCCESS", "FAILED"}] :
          row' = [x \in Executions |-> IF x[1] = b /\ x[2] \in ran
                    THEN [row[x] EXCEPT !.status = result[x[2]]] ELSE row[x]]
    BY <2>0
  <2>2. ASSUME NEW x \in Executions, x[1] = b, x[2] \in ran
        PROVE  [row[x] EXCEPT !.status = result[x[2]]] \in Row
    <3>1. result[x[2]] \in Status
      BY <2>2 DEF Status
    <3> QED BY <3>1, RowChanged DEF TypeOK
  <2>3. row' \in [Executions -> Row]
    BY <2>1, <2>2 DEF TypeOK
  <2> QED BY <1>2, <2>3 DEF EndBatch, TypeOK
<1>3. ASSUME NEW r \in Requests, BeginTrigger(r) PROVE TypeOK'
  <2>1. PICK s \in Skills, action \in Action, confirm \in BOOLEAN,
             previous \in Exists \cup {NoExecution} :
          /\ pc' = [pc EXCEPT ![r] = "creating"]
          /\ arg' = [arg EXCEPT ![r].skill = s, ![r].planned = Plan(action, previous, confirm)]
    BY <1>3 DEF BeginTrigger
  <2>2. Plan(action, previous, confirm) \in Row
    BY PlanType DEF Exists
  <2>3. arg' \in [Requests -> Arg]
    BY <2>1, <2>2 DEF TypeOK, Arg
  <2> QED BY <1>3, <2>1, <2>3 DEF BeginTrigger, TypeOK
<1>4. ASSUME NEW r \in Requests, BeginBatchTrigger(r) PROVE TypeOK'
  <2>1. PICK action \in {"SINGLE_EXECUTE", "BATCH_EXECUTE"}, confirm \in BOOLEAN :
          /\ pc' = [pc EXCEPT ![r] = "triggering"]
          /\ arg' = [arg EXCEPT ![r].todo = Bound \cup {x[2] : x \in Exists},
                                ![r].planned = Plan(action, NoExecution, confirm)]
    BY <1>4 DEF BeginBatchTrigger
  <2>2. Plan(action, NoExecution, confirm) \in Row
    BY PlanType DEF Action
  <2>3. Bound \cup {x[2] : x \in Exists} \subseteq Skills
    BY SkillsAssumption DEF Exists, Executions
  <2>4. arg' \in [Requests -> Arg]
    BY <2>1, <2>2, <2>3 DEF TypeOK, Arg
  <2> QED BY <1>4, <2>1, <2>4 DEF BeginBatchTrigger, TypeOK
<1>5. ASSUME NEW r \in Requests, TriggerNext(r) PROVE TypeOK'
  <2>1. PICK s \in arg[r].todo :
          IF Valid(s, arg[r].planned.action, NoExecution, arg[r].planned.confirmed)
          THEN /\ pc' = [pc EXCEPT ![r] = "creating"]
               /\ arg' = [arg EXCEPT ![r].todo = @ \ {s}, ![r].skill = s]
          ELSE Proceed(r, arg[r].todo \ {s})
    BY <1>5 DEF TriggerNext
  <2>2. arg[r].todo \subseteq Skills
    BY DEF TypeOK, Arg
  <2>3. CASE Proceed(r, arg[r].todo \ {s})
    BY <1>5, <2>2, <2>3, ProceedType DEF TriggerNext, TypeOK
  <2>4. CASE /\ pc' = [pc EXCEPT ![r] = "creating"]
             /\ arg' = [arg EXCEPT ![r].todo = @ \ {s}, ![r].skill = s]
    <3>1. s \in Skills /\ arg[r].todo \ {s} \in SUBSET Skills
      BY <2>2
    <3>2. [arg[r] EXCEPT !.todo = arg[r].todo \ {s}, !.skill = s] \in Arg
      BY <3>1 DEF TypeOK, Arg
    <3>3. arg' = [arg EXCEPT ![r] = [arg[r] EXCEPT !.todo = arg[r].todo \ {s}, !.skill = s]]
      BY <2>4 DEF TypeOK
    <3>4. arg' \in [Requests -> Arg]
      BY <3>2, <3>3 DEF TypeOK
    <3> QED BY <1>5, <2>4, <3>4 DEF TriggerNext, TypeOK
  <2> QED BY <2>1, <2>3, <2>4
<1>6. ASSUME NEW r \in Requests, BeginRetry(r) PROVE TypeOK'
  <2>1. PICK x \in Exists :
          /\ row[x].retries < RetryLimit
          /\ pc' = [pc EXCEPT ![r] = "creating"]
          /\ arg' = [arg EXCEPT ![r].skill = x[2], ![r].planned = RetryPlan(x)]
    BY <1>6 DEF BeginRetry, RetryPlan
  <2>2. x \in Executions /\ RetryPlan(x) \in Row
    BY <2>1, RetryPlanType
  <2>3. x[2] \in Skills
    BY <2>2 DEF Executions
  <2>4. arg' \in [Requests -> Arg]
    BY <2>1, <2>2, <2>3 DEF TypeOK, Arg
  <2> QED BY <1>6, <2>1, <2>4 DEF BeginRetry, TypeOK
<1>7. ASSUME NEW r \in Requests, Create(r) PROVE TypeOK'
  <2>1. row' \in [Executions -> Row]
    BY <1>7 DEF Create, TypeOK, Arg
  <2>2. arg[r].todo \in SUBSET Skills
    BY DEF TypeOK, Arg
  <2> QED BY <1>7, <2>1, <2>2, ProceedType DEF Create, TypeOK
<1>8. ASSUME NEW r \in Requests, BeginStop(r) PROVE TypeOK'
  <2>1. arg' \in [Requests -> Arg]
    BY <1>8 DEF BeginStop, Exists, TypeOK, Arg
  <2> QED BY <1>8, <2>1 DEF BeginStop, TypeOK
<1>9. ASSUME NEW r \in Requests, CommitStop(r) PROVE TypeOK'
  <2>1. row' \in [Executions -> Row]
    BY <1>9, RowChanged DEF CommitStop, TypeOK, Status
  <2> QED BY <1>9, <2>1, ReturnType DEF CommitStop, TypeOK
<1>10. ASSUME NEW r \in Requests, Confirm(r) PROVE TypeOK'
  <2>1. row' \in [Executions -> Row]
    BY <1>10, RowChanged DEF Confirm, TypeOK
  <2> QED BY <1>10, <2>1, ReturnType DEF Confirm, TypeOK
<1>11. ASSUME NEW r \in Requests, Fail(r) PROVE TypeOK'
  BY <1>11, ReturnType DEF Fail, TypeOK
<1>12. CASE UNCHANGED vars
  BY <1>12 DEF vars, TypeOK
<1> QED
  BY <1>1, <1>2, <1>3, <1>4, <1>5, <1>6, <1>7, <1>8, <1>9, <1>10, <1>11, <1>12 DEF Next, Serve

\* No row holds anything its columns and constraints do not allow.
THEOREM TypeCorrect == Spec => []TypeOK
<1> QED BY TypeInit, TypeNext, PTL DEF Spec

-----------------------------------------------------------------------------
(* The invariant *)

LEMMA IndInit == Init => IndInv
<1> SUFFICES ASSUME Init PROVE IndInv
  OBVIOUS
<1>1. TypeOK
  BY TypeInit
<1>2. \A x \in Executions : row[x].status = "absent" /\ row[x].previous = NoExecution
                            /\ row[x].retries = 0
  BY DEF Init, Blank
<1>3. Rows
  BY <1>2 DEF Rows, BatchRow, RouteRow, Init
<1>4. \A r \in Requests : Serving(r)
  BY <1>2 DEF Serving, Unused, Init, NoArg, Executions, Owners
<1> QED BY <1>1, <1>3, <1>4 DEF IndInv

\* Only a batch that has ended leaves a FAILED execution behind.
LEMMA FailedSettled ==
  ASSUME IndInv, NEW x \in Exists, row[x].status = "FAILED"
  PROVE  Settled(x) /\ row[x].retries = 0
<1>1. x \in Executions /\ x[1] \in Requests \cup Batches
  BY DEF Exists, Executions, Owners
<1>2. x[1] \in Batches
  BY <1>1 DEF IndInv, Rows, RouteRow
<1>3. BatchRow(x) /\ batch[x[1]] \in {"new", "running", "ended"}
  BY <1>1, <1>2 DEF IndInv, Rows, TypeOK
<1> QED BY <1>1, <1>2, <1>3 DEF Settled, BatchRow

\* Steps that leave the rows and the batches alone leave alone what depends on
\* nothing else.
LEMMA RowsStay ==
  ASSUME IndInv, UNCHANGED <<row, batch>>
  PROVE  /\ Rows'
         /\ \A x : Settled(x)' <=> Settled(x)
         /\ \A r, S : Unused(r, S)' <=> Unused(r, S)
         /\ Exists' = Exists
<1>1. \A x : Settled(x)' <=> Settled(x)
  BY DEF Settled
<1>2. Rows'
  BY DEF IndInv, Rows, BatchRow, RouteRow, PlanOK, Settled
<1> QED BY <1>1, <1>2 DEF Unused, Exists

\* A request that only reads disturbs nobody else.
LEMMA OthersStay ==
  ASSUME IndInv, NEW r \in Requests, UNCHANGED <<row, batch>>,
         \A q \in Requests \ {r} : pc'[q] = pc[q] /\ arg'[q] = arg[q],
         TypeOK', Serving(r)'
  PROVE  IndInv'
<1>1. ASSUME NEW q \in Requests, q # r PROVE Serving(q)'
  <2>1. Serving(q) /\ pc'[q] = pc[q] /\ arg'[q] = arg[q]
    BY <1>1 DEF IndInv
  <2> QED BY <2>1, RowsStay DEF Serving, PlanOK
<1> QED BY <1>1, RowsStay DEF IndInv

LEMMA Returned ==
  ASSUME TypeOK, NEW r \in Requests, Return(r)
  PROVE  /\ Serving(r)'
         /\ \A q \in Requests \ {r} : pc'[q] = pc[q] /\ arg'[q] = arg[q]
BY DEF Return, Serving, TypeOK

LEMMA BeginTriggerInv ==
  ASSUME IndInv, NEW r \in Requests, BeginTrigger(r), TypeOK'
  PROVE  IndInv'
<1>1. PICK s \in Skills, action \in Action, confirm \in BOOLEAN,
           previous \in Exists \cup {NoExecution} :
        /\ pc[r] = "new"
        /\ action # "RETRY" => previous = NoExecution
        /\ Valid(s, action, previous, confirm)
        /\ pc' = [pc EXCEPT ![r] = "creating"]
        /\ arg' = [arg EXCEPT ![r].skill = s, ![r].planned = Plan(action, previous, confirm)]
        /\ UNCHANGED <<row, batch>>
  BY Zenon DEF BeginTrigger
<1> DEFINE p == Plan(action, previous, confirm)
<1>2. /\ p.status = "NOT_STARTED" /\ p.retries = 0
      /\ p.previous = previous /\ p.confirmed = confirm
  BY PlanType DEF Exists
<1>3. previous # NoExecution => Settled(previous)
  BY <1>1, FailedSettled DEF Valid
<1>4. PlanOK(p, s)
  BY <1>1, <1>2, <1>3 DEF PlanOK, Valid
<1>5. Unused(r, Skills) /\ arg[r].todo = {}
  BY <1>1 DEF IndInv, Serving
<1>6. /\ pc'[r] = "creating" /\ arg'[r].skill = s /\ arg'[r].planned = p
      /\ arg'[r].todo = {}
  BY <1>1, <1>5 DEF IndInv, TypeOK, Arg
<1>7. UNCHANGED <<row, batch>>
  BY DEF BeginTrigger
<1>8. Serving(r)'
  <2>1. Unused(r, {s}) /\ Unused(r, {})
    BY <1>5 DEF Unused
  <2> QED BY <2>1, <1>2, <1>4, <1>6, <1>7, RowsStay DEF Serving, PlanOK
<1>9. \A q \in Requests \ {r} : pc'[q] = pc[q] /\ arg'[q] = arg[q]
  BY <1>1 DEF IndInv, TypeOK
<1> QED BY <1>7, <1>8, <1>9, OthersStay

LEMMA BeginBatchTriggerInv ==
  ASSUME IndInv, NEW r \in Requests, BeginBatchTrigger(r), TypeOK'
  PROVE  IndInv'
<1> DEFINE T == Bound \cup {x[2] : x \in Exists}
<1>1. PICK action \in {"SINGLE_EXECUTE", "BATCH_EXECUTE"}, confirm \in BOOLEAN :
        /\ pc[r] = "new"
        /\ pc' = [pc EXCEPT ![r] = "triggering"]
        /\ arg' = [arg EXCEPT ![r].todo = T,
                              ![r].planned = Plan(action, NoExecution, confirm)]
  BY DEF BeginBatchTrigger
<1> DEFINE p == Plan(action, NoExecution, confirm)
<1>2. p.status = "NOT_STARTED" /\ p.retries = 0 /\ p.previous = NoExecution
  BY PlanType DEF Action
<1>3. Unused(r, Skills)
  BY <1>1 DEF IndInv, Serving
<1>0. pc \in [Requests -> {"new", "triggering", "creating", "stopping", "done"}]
      /\ arg \in [Requests -> Arg]
  BY DEF IndInv, TypeOK
<1>4. pc'[r] = "triggering" /\ arg'[r].planned = p /\ arg'[r].todo = T
  <2> HIDE DEF T, p
  <2>1. arg' = [arg EXCEPT ![r].todo = T, ![r].planned = p]
    BY <1>1 DEF p
  <2>2. pc'[r] = "triggering"
    BY <1>0, <1>1
  <2> QED BY <1>0, <2>1, <2>2 DEF Arg
<1>5. UNCHANGED <<row, batch>>
  BY DEF BeginBatchTrigger
<1>6. Serving(r)'
  <2>1. arg'[r].todo \subseteq Skills
    BY DEF TypeOK, Arg
  <2>2. Unused(r, arg'[r].todo)
    BY <1>3, <2>1 DEF Unused
  <2> QED BY <2>2, <1>2, <1>4, <1>5, RowsStay DEF Serving
<1>7. \A q \in Requests \ {r} : pc'[q] = pc[q] /\ arg'[q] = arg[q]
  BY <1>1 DEF IndInv, TypeOK
<1> QED BY <1>5, <1>6, <1>7, OthersStay

LEMMA TriggerNextInv ==
  ASSUME IndInv, NEW r \in Requests, TriggerNext(r), TypeOK'
  PROVE  IndInv'
<1>1. PICK s \in arg[r].todo :
        IF Valid(s, arg[r].planned.action, NoExecution, arg[r].planned.confirmed)
        THEN /\ pc' = [pc EXCEPT ![r] = "creating"]
             /\ arg' = [arg EXCEPT ![r].todo = @ \ {s}, ![r].skill = s]
        ELSE Proceed(r, arg[r].todo \ {s})
  BY DEF TriggerNext
<1>2. /\ pc[r] = "triggering" /\ UNCHANGED <<row, batch>>
      /\ arg[r] \in Arg /\ s \in Skills
  BY DEF TriggerNext, IndInv, TypeOK, Arg
<1>3. /\ Unused(r, arg[r].todo)
      /\ arg[r].planned.status = "NOT_STARTED" /\ arg[r].planned.retries = 0
      /\ arg[r].planned.previous = NoExecution
  BY <1>2 DEF IndInv, Serving
<1>4. CASE Valid(s, arg[r].planned.action, NoExecution, arg[r].planned.confirmed)
  <2>1. /\ pc' = [pc EXCEPT ![r] = "creating"]
        /\ arg' = [arg EXCEPT ![r].todo = @ \ {s}, ![r].skill = s]
    BY <1>1, <1>4
  <2>2. /\ pc'[r] = "creating" /\ arg'[r].skill = s /\ arg'[r].planned = arg[r].planned
        /\ arg'[r].todo = arg[r].todo \ {s}
        /\ \A q \in Requests \ {r} : pc'[q] = pc[q] /\ arg'[q] = arg[q]
    BY <1>2, <2>1 DEF IndInv, TypeOK, Arg
  <2>3. PlanOK(arg[r].planned, s)
    BY <1>3, <1>4 DEF PlanOK, Valid
  <2>4. Unused(r, {s}) /\ Unused(r, arg[r].todo \ {s})
    BY <1>3 DEF Unused
  <2>5. Serving(r)'
    BY <1>2, <1>3, <2>2, <2>3, <2>4, RowsStay DEF Serving, PlanOK
  <2> QED BY <1>2, <2>2, <2>5, OthersStay
<1>5. CASE ~Valid(s, arg[r].planned.action, NoExecution, arg[r].planned.confirmed)
  <2>1. Proceed(r, arg[r].todo \ {s})
    BY <1>1, <1>5
  <2>2. CASE arg[r].todo \ {s} = {}
    BY <1>2, <2>1, <2>2, Returned, OthersStay DEF Proceed, IndInv
  <2>3. CASE arg[r].todo \ {s} # {}
    <3>1. /\ pc'[r] = "triggering" /\ arg'[r].planned = arg[r].planned
          /\ arg'[r].todo = arg[r].todo \ {s}
          /\ \A q \in Requests \ {r} : pc'[q] = pc[q] /\ arg'[q] = arg[q]
      BY <2>1, <2>3 DEF Proceed, IndInv, TypeOK, Arg
    <3>2. Unused(r, arg[r].todo \ {s})
      BY <1>3 DEF Unused
    <3>3. Serving(r)'
      BY <1>2, <1>3, <3>1, <3>2, RowsStay DEF Serving
    <3> QED BY <1>2, <3>1, <3>3, OthersStay
  <2> QED BY <2>2, <2>3
<1> QED BY <1>4, <1>5

LEMMA BeginRetryInv ==
  ASSUME IndInv, NEW r \in Requests, BeginRetry(r), TypeOK'
  PROVE  IndInv'
<1>1. PICK x \in Exists :
        /\ pc[r] = "new"
        /\ row[x].status = "FAILED"
        /\ row[x].retries < RetryLimit
        /\ pc' = [pc EXCEPT ![r] = "creating"]
        /\ arg' = [arg EXCEPT ![r].skill = x[2], ![r].planned = RetryPlan(x)]
  BY DEF BeginRetry, RetryPlan
<1>2. Settled(x) /\ row[x].retries = 0
  BY <1>1, FailedSettled
<1>3. /\ x \in Executions /\ RetryPlan(x).status = "NOT_STARTED"
      /\ RetryPlan(x).retries = 1 /\ RetryPlan(x).previous = x
  BY <1>1, <1>2, RetryPlanType DEF IndInv
<1>4. PlanOK(RetryPlan(x), x[2])
  BY <1>2, <1>3 DEF PlanOK
<1>5. Unused(r, Skills) /\ arg[r].todo = {}
  BY <1>1 DEF IndInv, Serving
<1>6. /\ pc'[r] = "creating" /\ arg'[r].skill = x[2] /\ arg'[r].planned = RetryPlan(x)
      /\ arg'[r].todo = {} /\ x[2] \in Skills
  BY <1>1, <1>3, <1>5 DEF IndInv, TypeOK, Arg, Executions
<1>7. UNCHANGED <<row, batch>>
  BY DEF BeginRetry
<1>8. Serving(r)'
  <2>1. Unused(r, {x[2]}) /\ Unused(r, {})
    BY <1>5, <1>6 DEF Unused
  <2> QED BY <2>1, <1>3, <1>4, <1>6, <1>7, RowsStay DEF Serving, PlanOK
<1>9. \A q \in Requests \ {r} : pc'[q] = pc[q] /\ arg'[q] = arg[q]
  BY <1>1 DEF IndInv, TypeOK
<1> QED BY <1>7, <1>8, <1>9, OthersStay

LEMMA BeginStopInv ==
  ASSUME IndInv, NEW r \in Requests, BeginStop(r), TypeOK'
  PROVE  IndInv'
<1>1. PICK x \in Exists :
        /\ pc' = [pc EXCEPT ![r] = "stopping"]
        /\ arg' = [arg EXCEPT ![r].target = x]
        /\ UNCHANGED <<row, batch>>
  BY DEF BeginStop
<1>2. /\ pc'[r] = "stopping" /\ arg'[r].target = x
      /\ \A q \in Requests \ {r} : pc'[q] = pc[q] /\ arg'[q] = arg[q]
  BY <1>1 DEF IndInv, TypeOK, Arg
<1>3. Serving(r)'
  BY <1>1, <1>2, RowsStay DEF Serving
<1> QED BY <1>1, <1>2, <1>3, OthersStay

LEMMA FailInv ==
  ASSUME IndInv, NEW r \in Requests, Fail(r), TypeOK'
  PROVE  IndInv'
BY Returned, OthersStay DEF Fail, IndInv

\* Steps that write rows: settled executions stay settled, nothing is deleted,
\* and nobody inserts a row in the name of another request.
LEMMA ServingStays ==
  ASSUME IndInv, NEW q \in Requests, pc'[q] = pc[q], arg'[q] = arg[q],
         \A x : Settled(x) => Settled(x)',
         Exists \subseteq Exists',
         \A s \in Skills : row[<<q, s>>].status = "absent" => row'[<<q, s>>].status = "absent"
  PROVE  Serving(q)'
<1>1. Serving(q) /\ arg[q].todo \subseteq Skills
  BY DEF IndInv, TypeOK, Arg
<1>2. ASSUME NEW S \in SUBSET Skills, Unused(q, S) PROVE Unused(q, S)'
  BY <1>2 DEF Unused
<1>3. Unused(q, arg[q].todo) => Unused(q, arg[q].todo)'
  BY <1>1, <1>2
<1>4. Unused(q, Skills) => Unused(q, Skills)'
  BY <1>2
<1>5. arg[q].skill \in Skills /\ Unused(q, {arg[q].skill}) => Unused(q, {arg[q].skill})'
  BY <1>2
<1>6. \A p, s : PlanOK(p, s) => PlanOK(p, s)'
  BY DEF PlanOK
<1>7. /\ pc'[q] = "new" => Unused(q, Skills)' /\ arg'[q].todo = {}
      /\ pc'[q] \in {"triggering", "creating"} =>
           /\ Unused(q, arg[q].todo)'
           /\ arg'[q].planned.status = "NOT_STARTED"
           /\ arg'[q].planned.retries \in {0, 1}
      /\ pc'[q] = "triggering" \/ (pc'[q] = "creating" /\ arg'[q].todo # {}) =>
           arg'[q].planned.previous = NoExecution /\ arg'[q].planned.retries = 0
  BY <1>1, <1>3, <1>4 DEF Serving
<1>8. pc'[q] = "creating" =>
        /\ arg'[q].skill \in Skills \ arg'[q].todo
        /\ Unused(q, {arg[q].skill})'
        /\ PlanOK(arg[q].planned, arg[q].skill)'
  BY <1>1, <1>5, <1>6 DEF Serving
<1>9. pc'[q] = "stopping" => arg'[q].target \in Exists'
  BY <1>1 DEF Serving
<1> QED BY <1>7, <1>8, <1>9 DEF Serving, Unused, PlanOK, Settled

LEMMA StartBatchInv ==
  ASSUME IndInv, NEW b \in Batches, StartBatch(b), TypeOK'
  PROVE  IndInv'
<1>1. /\ batch[b] = "new" /\ batch' = [batch EXCEPT ![b] = "running"]
      /\ UNCHANGED <<pc, arg>>
      /\ row \in [Executions -> Row] /\ batch \in [Batches -> {"new", "running", "ended"}]
  BY DEF StartBatch, IndInv, TypeOK
<1>2. \A x \in Executions : row'[x] = IF x[1] = b /\ x[2] \in Bound
                              THEN [Blank EXCEPT !.status = "RUNNING"] ELSE row[x]
  BY DEF StartBatch
<1>3. [Blank EXCEPT !.status = "RUNNING"].status = "RUNNING"
      /\ [Blank EXCEPT !.status = "RUNNING"].previous = NoExecution
      /\ [Blank EXCEPT !.status = "RUNNING"].retries = 0
  BY DEF Blank
<1>4. \A x : Settled(x) => Settled(x)'
  BY <1>1, <1>2 DEF Settled
<1>5. Exists \subseteq Exists'
  BY <1>2, <1>3 DEF Exists
<1>6. ASSUME NEW x \in Executions, x[1] \in Batches PROVE BatchRow(x)'
  <2>1. BatchRow(x)
    BY <1>6 DEF IndInv, Rows
  <2>2. CASE x[1] = b
    BY <1>1, <1>2, <1>3, <2>1, <2>2 DEF BatchRow
  <2>3. CASE x[1] # b
    BY <1>1, <1>2, <1>6, <2>1, <2>3 DEF BatchRow
  <2> QED BY <2>2, <2>3
<1>7. ASSUME NEW x \in Executions, x[1] \in Requests PROVE RouteRow(x)'
  <2>1. row'[x] = row[x]
    BY <1>2, <1>7, OwnersAssumption
  <2> QED BY <1>4, <1>7, <2>1 DEF IndInv, Rows, RouteRow, PlanOK
<1>8. ASSUME NEW q \in Requests PROVE Serving(q)'
  <2>1. \A s \in Skills : row'[<<q, s>>] = row[<<q, s>>]
    BY <1>2, OwnersAssumption DEF Executions, Owners
  <2> QED BY <1>1, <1>4, <1>5, <2>1, ServingStays
<1> QED BY <1>6, <1>7, <1>8 DEF IndInv, Rows

LEMMA EndBatchInv ==
  ASSUME IndInv, NEW b \in Batches, EndBatch(b), TypeOK'
  PROVE  IndInv'
<1>0. PICK ran \in SUBSET Bound : \E result \in [ran -> {"SUCCESS", "FAILED"}] :
        row' = [x \in Executions |-> IF x[1] = b /\ x[2] \in ran
                  THEN [row[x] EXCEPT !.status = result[x[2]]] ELSE row[x]]
  BY DEF EndBatch
<1>00. PICK result \in [ran -> {"SUCCESS", "FAILED"}] :
        row' = [x \in Executions |-> IF x[1] = b /\ x[2] \in ran
                  THEN [row[x] EXCEPT !.status = result[x[2]]] ELSE row[x]]
  BY <1>0
<1>1. /\ batch[b] = "running" /\ batch' = [batch EXCEPT ![b] = "ended"]
      /\ UNCHANGED <<pc, arg>>
      /\ row \in [Executions -> Row] /\ batch \in [Batches -> {"new", "running", "ended"}]
  BY DEF EndBatch, IndInv, TypeOK
<1>2. ASSUME NEW x \in Executions
      PROVE  /\ x[1] # b => row'[x] = row[x]
             /\ row'[x].status \in {row[x].status, "SUCCESS", "FAILED"}
             /\ row'[x].previous = row[x].previous
             /\ row'[x].retries = row[x].retries
  <2>1. CASE x[1] = b /\ x[2] \in ran
    <3>1. row'[x] = [row[x] EXCEPT !.status = result[x[2]]] /\ row[x] \in Row
      BY <1>00, <1>1, <2>1
    <3>2. result[x[2]] \in {"SUCCESS", "FAILED"}
      BY <2>1
    <3> QED BY <2>1, <3>1, <3>2 DEF Row
  <2>2. CASE ~(x[1] = b /\ x[2] \in ran)
    BY <1>00, <2>2
  <2> QED BY <2>1, <2>2
<1>4. \A x : Settled(x) => Settled(x)'
  BY <1>1, <1>2 DEF Settled
<1>5. Exists \subseteq Exists'
  BY <1>2 DEF Exists
<1>6. ASSUME NEW x \in Executions, x[1] \in Batches PROVE BatchRow(x)'
  <2>1. BatchRow(x)
    BY <1>6 DEF IndInv, Rows
  <2>2. CASE x[1] = b
    BY <1>1, <1>2, <2>1, <2>2 DEF BatchRow
  <2>3. CASE x[1] # b
    BY <1>1, <1>2, <1>6, <2>1, <2>3 DEF BatchRow
  <2> QED BY <2>2, <2>3
<1>7. ASSUME NEW x \in Executions, x[1] \in Requests PROVE RouteRow(x)'
  <2>1. row'[x] = row[x]
    BY <1>2, <1>7, OwnersAssumption
  <2> QED BY <1>4, <1>7, <2>1 DEF IndInv, Rows, RouteRow, PlanOK
<1>8. ASSUME NEW q \in Requests PROVE Serving(q)'
  <2>1. \A s \in Skills : row'[<<q, s>>] = row[<<q, s>>]
    BY <1>2, OwnersAssumption DEF Executions, Owners
  <2> QED BY <1>1, <1>4, <1>5, <2>1, ServingStays
<1> QED BY <1>6, <1>7, <1>8 DEF IndInv, Rows

LEMMA CreateInv ==
  ASSUME IndInv, NEW r \in Requests, Create(r), TypeOK'
  PROVE  IndInv'
<1> DEFINE e == <<r, arg[r].skill>>
           p == arg[r].planned
<1>1. /\ pc[r] = "creating" /\ row' = [row EXCEPT ![e] = p] /\ UNCHANGED batch
      /\ Proceed(r, arg[r].todo) /\ row \in [Executions -> Row] /\ arg[r] \in Arg
  BY DEF Create, IndInv, TypeOK
<1>2. /\ arg[r].skill \in Skills \ arg[r].todo
      /\ row[e].status = "absent" /\ PlanOK(p, arg[r].skill)
      /\ p.status = "NOT_STARTED"
      /\ Unused(r, arg[r].todo) /\ p.retries \in {0, 1}
      /\ arg[r].todo # {} => p.previous = NoExecution /\ p.retries = 0
  BY <1>1 DEF IndInv, Serving, Unused
<1>3. e \in Executions /\ e[1] = r /\ e[2] = arg[r].skill /\ r \notin Batches
  BY <1>2, OwnersAssumption DEF Executions, Owners
<1>4. \A x \in Executions : x # e => row'[x] = row[x]
  BY <1>1
<1>5. row'[e] = p
  BY <1>1, <1>3
<1>6. \A x : Settled(x) => Settled(x)'
  BY <1>1, <1>3, <1>4 DEF Settled
<1>7. Exists \subseteq Exists'
  BY <1>2, <1>4 DEF Exists
<1>8. ASSUME NEW x \in Executions, x[1] \in Batches PROVE BatchRow(x)'
  BY <1>1, <1>3, <1>4, <1>8 DEF BatchRow, IndInv, Rows
<1>9. ASSUME NEW x \in Executions, x[1] \in Requests PROVE RouteRow(x)'
  <2>1. CASE x = e
    BY <1>2, <1>3, <1>5, <1>6, <2>1 DEF RouteRow, PlanOK
  <2>2. CASE x # e
    BY <1>4, <1>6, <1>9, <2>2 DEF IndInv, Rows, RouteRow, PlanOK
  <2> QED BY <2>1, <2>2
<1>10. \A q \in Requests \ {r} : pc'[q] = pc[q] /\ arg'[q] = arg[q]
  <2>1. CASE arg[r].todo = {}
    BY <1>1, <2>1, Returned DEF Proceed, IndInv
  <2>2. CASE arg[r].todo # {}
    BY <1>1, <2>2 DEF Proceed, IndInv, TypeOK
  <2> QED BY <2>1, <2>2
<1>11. ASSUME NEW q \in Requests, q # r PROVE Serving(q)'
  <2>1. \A s \in Skills : row'[<<q, s>>] = row[<<q, s>>]
    BY <1>4, <1>11 DEF Executions, Owners
  <2> QED BY <1>6, <1>7, <1>10, <1>11, <2>1, ServingStays
<1>12. Serving(r)'
  <2>1. CASE arg[r].todo = {}
    BY <1>1, <2>1, Returned DEF Proceed, IndInv
  <2>2. CASE arg[r].todo # {}
    <3>1. pc'[r] = "triggering" /\ arg'[r].todo = arg[r].todo /\ arg'[r].planned = p
      BY <1>1, <2>2 DEF Proceed, IndInv, TypeOK, Arg
    <3>2. \A s \in arg[r].todo : row'[<<r, s>>].status = "absent"
      <4> SUFFICES ASSUME NEW s \in arg[r].todo PROVE row'[<<r, s>>].status = "absent"
        OBVIOUS
      <4>1. s \in Skills /\ s # arg[r].skill
        BY <1>1, <1>2 DEF Arg
      <4>2. <<r, s>> \in Executions /\ <<r, s>> # e
        BY <4>1 DEF Executions, Owners
      <4> QED BY <1>2, <1>4, <4>2 DEF Unused
    <3> QED BY <1>2, <2>2, <3>1, <3>2 DEF Serving, Unused
  <2> QED BY <2>1, <2>2
<1> QED BY <1>8, <1>9, <1>11, <1>12 DEF IndInv, Rows

LEMMA CommitStopInv ==
  ASSUME IndInv, NEW r \in Requests, CommitStop(r), TypeOK'
  PROVE  IndInv'
<1> DEFINE t == arg[r].target
<1>1. /\ t \in Exists /\ t \in Executions /\ Return(r) /\ UNCHANGED batch
      /\ row \in [Executions -> Row]
      /\ row' = [row EXCEPT ![t].status = "STOPPED"]
  BY DEF CommitStop, IndInv, TypeOK, Serving, Exists
<1>2. /\ \A x \in Executions : x # t => row'[x] = row[x]
      /\ row'[t] = [row[t] EXCEPT !.status = "STOPPED"] /\ row[t] \in Row
  BY <1>1
<1>3. ASSUME NEW x \in Executions
      PROVE  /\ row'[x].status = row[x].status \/ (x = t /\ row'[x].status = "STOPPED")
             /\ row'[x].previous = row[x].previous /\ row'[x].retries = row[x].retries
             /\ row'[x].confirmed = row[x].confirmed
  BY <1>2 DEF Row
<1>4. \A x : Settled(x) => Settled(x)'
  BY <1>1, <1>3 DEF Settled
<1>5. row[t].status # "absent" /\ Exists \subseteq Exists'
  BY <1>1, <1>3 DEF Exists
<1>6. ASSUME NEW x \in Executions, x[1] \in Batches PROVE BatchRow(x)'
  BY <1>1, <1>3, <1>5, <1>6 DEF BatchRow, IndInv, Rows
<1>7. ASSUME NEW x \in Executions, x[1] \in Requests PROVE RouteRow(x)'
  BY <1>3, <1>4, <1>5, <1>7 DEF RouteRow, PlanOK, IndInv, Rows
<1>8. ASSUME NEW q \in Requests, q # r PROVE Serving(q)'
  <2>1. pc'[q] = pc[q] /\ arg'[q] = arg[q]
    BY <1>1, <1>8, Returned DEF IndInv
  <2>2. \A s \in Skills : row[<<q, s>>].status = "absent" => row'[<<q, s>>].status = "absent"
    BY <1>3, <1>5 DEF Executions, Owners
  <2> QED BY <1>4, <1>5, <2>1, <2>2, ServingStays
<1>9. Serving(r)'
  BY <1>1, Returned DEF IndInv
<1> QED BY <1>6, <1>7, <1>8, <1>9 DEF IndInv, Rows

LEMMA ConfirmInv ==
  ASSUME IndInv, NEW r \in Requests, Confirm(r), TypeOK'
  PROVE  IndInv'
<1>1. PICK t \in Exists : row' = [row EXCEPT ![t].confirmed = TRUE]
  BY DEF Confirm
<1>2. t \in Executions /\ Return(r) /\ UNCHANGED batch /\ row \in [Executions -> Row]
  BY DEF Confirm, IndInv, TypeOK, Exists
<1>3. ASSUME NEW x \in Executions
      PROVE  /\ row'[x].status = row[x].status
             /\ row'[x].previous = row[x].previous /\ row'[x].retries = row[x].retries
             /\ row[x].confirmed => row'[x].confirmed
  <2>1. CASE x = t
    <3>1. row'[x] = [row[x] EXCEPT !.confirmed = TRUE] /\ row[x] \in Row
      BY <1>1, <1>2, <2>1
    <3> QED BY <3>1 DEF Row
  <2>2. CASE x # t
    BY <1>1, <1>2, <2>2
  <2> QED BY <2>1, <2>2
<1>4. \A x : Settled(x) => Settled(x)'
  BY <1>2, <1>3 DEF Settled
<1>5. Exists \subseteq Exists'
  BY <1>3 DEF Exists
<1>6. ASSUME NEW x \in Executions, x[1] \in Batches PROVE BatchRow(x)'
  BY <1>2, <1>3, <1>6 DEF BatchRow, IndInv, Rows
<1>7. ASSUME NEW x \in Executions, x[1] \in Requests PROVE RouteRow(x)'
  BY <1>3, <1>4, <1>7 DEF RouteRow, PlanOK, IndInv, Rows
<1>8. ASSUME NEW q \in Requests, q # r PROVE Serving(q)'
  <2>1. pc'[q] = pc[q] /\ arg'[q] = arg[q]
    BY <1>2, <1>8, Returned DEF IndInv
  <2>2. \A s \in Skills : row[<<q, s>>].status = "absent" => row'[<<q, s>>].status = "absent"
    BY <1>3 DEF Executions, Owners
  <2> QED BY <1>4, <1>5, <2>1, <2>2, ServingStays
<1>9. Serving(r)'
  BY <1>2, Returned DEF IndInv
<1> QED BY <1>6, <1>7, <1>8, <1>9 DEF IndInv, Rows

LEMMA IndNext == IndInv /\ [Next]_vars => IndInv'
<1> SUFFICES ASSUME IndInv, [Next]_vars PROVE IndInv'
  OBVIOUS
<1>1. TypeOK'
  BY TypeNext DEF IndInv
<1>2. ASSUME NEW b \in Batches, StartBatch(b) \/ EndBatch(b) PROVE IndInv'
  BY <1>1, <1>2, StartBatchInv, EndBatchInv
<1>3. ASSUME NEW r \in Requests, Serve(r) PROVE IndInv'
  BY <1>1, <1>3, BeginTriggerInv, BeginBatchTriggerInv, TriggerNextInv, BeginRetryInv, CreateInv,
     BeginStopInv, CommitStopInv, ConfirmInv, FailInv DEF Serve
<1>4. CASE UNCHANGED vars
  <2>1. \A r \in Requests : Serving(r)'
    BY <1>4, RowsStay DEF vars, IndInv, Serving, PlanOK
  <2> QED BY <1>1, <1>4, <2>1, RowsStay DEF vars, IndInv
<1> QED BY <1>2, <1>3, <1>4 DEF Next

\* IndInv is inductive.
THEOREM Inductive == Spec => []IndInv
<1> QED BY IndInit, IndNext, PTL DEF Spec

-----------------------------------------------------------------------------
(* The properties *)

\* A retry is never retried, however the requests and the batches overlap.
THEOREM RetriesNotRetried == Spec => []NoRetryOfRetry
<1>1. IndInv => NoRetryOfRetry
  BY DEF IndInv, Rows, BatchRow, RouteRow, PlanOK, Settled, NoRetryOfRetry, Exists, Executions,
         Owners
<1> QED BY <1>1, Inductive, PTL

\* What a retry repeats has failed for good.
THEOREM RetriesAfterFailures == Spec => []RetriesAfterFailure
<1>1. IndInv => RetriesAfterFailure
  BY DEF IndInv, Rows, BatchRow, RouteRow, PlanOK, Settled, RetriesAfterFailure, Exists,
         Executions, Owners
<1> QED BY <1>1, Inductive, PTL

\* No interleaving of the routes creates an unconfirmed release execution.
THEOREM Unconfirmed == Spec => []UnconfirmedFromBatch
<1>1. IndInv => UnconfirmedFromBatch
  <2> SUFFICES ASSUME IndInv, NEW x \in Exists, x[2] \in Release, ~row[x].confirmed,
                      x[1] \notin Batches
               PROVE  row[x].retries = 1 /\ row[x].previous[1] \in Batches
    BY DEF UnconfirmedFromBatch
  <2>1. x \in Executions /\ x[1] \in Requests /\ row[x].status # "absent"
    BY DEF Exists, Executions, Owners
  <2> QED BY <2>1 DEF IndInv, Rows, RouteRow, PlanOK, Settled
<1> QED BY <1>1, Inductive, PTL

\* Only the end of its own batch can undo a stop.
THEOREM StoppedStays == Spec => StoppedForGood
<1> DEFINE Step == \A x \in Executions :
             row[x].status = "STOPPED" /\ row'[x].status # "STOPPED" =>
               x[1] \in Batches /\ batch[x[1]] = "running" /\ batch'[x[1]] = "ended"
<1>1. IndInv /\ [Next]_vars => [Step]_vars
  <2> SUFFICES ASSUME IndInv, [Next]_vars, NEW x \in Executions,
                      row[x].status = "STOPPED", row'[x].status # "STOPPED"
               PROVE  x[1] \in Batches /\ batch[x[1]] = "running" /\ batch'[x[1]] = "ended"
    OBVIOUS
  <2>0. row \in [Executions -> Row] /\ batch \in [Batches -> {"new", "running", "ended"}]
    BY DEF IndInv, TypeOK
  <2>1. ASSUME NEW b \in Batches, StartBatch(b) PROVE FALSE
    <3>1. row'[x] = row[x] \/ x[1] = b
      BY <2>1 DEF StartBatch
    <3>2. x[1] = b => row[x].status = "absent"
      BY <2>1 DEF StartBatch, IndInv, Rows, BatchRow
    <3> QED BY <3>1, <3>2
  <2>2. ASSUME NEW b \in Batches, EndBatch(b)
        PROVE  x[1] \in Batches /\ batch[x[1]] = "running" /\ batch'[x[1]] = "ended"
    <3>1. PICK ran \in SUBSET Bound : \E result \in [ran -> {"SUCCESS", "FAILED"}] :
            row' = [y \in Executions |-> IF y[1] = b /\ y[2] \in ran
                      THEN [row[y] EXCEPT !.status = result[y[2]]] ELSE row[y]]
      BY <2>2 DEF EndBatch
    <3>2. x[1] # b => row'[x] = row[x]
      BY <3>1
    <3> QED BY <2>0, <2>2, <3>2 DEF EndBatch
  <2>3. ASSUME NEW r \in Requests, Create(r) PROVE FALSE
    <3>1. row[<<r, arg[r].skill>>].status = "absent"
      BY <2>3 DEF Create, IndInv, Serving, Unused
    <3> QED BY <2>0, <2>3, <3>1 DEF Create
  <2>4. ASSUME NEW r \in Requests, CommitStop(r) PROVE FALSE
    <3>1. row'[x] = row[x] \/ row'[x] = [row[x] EXCEPT !.status = "STOPPED"]
      BY <2>0, <2>4 DEF CommitStop
    <3>2. row[x] \in Row
      BY <2>0
    <3> QED BY <3>1, <3>2 DEF Row
  <2>5. ASSUME NEW r \in Requests, Confirm(r) PROVE FALSE
    <3>1. row'[x] = row[x] \/ row'[x] = [row[x] EXCEPT !.confirmed = TRUE]
      BY <2>0, <2>5 DEF Confirm
    <3>2. row[x] \in Row
      BY <2>0
    <3> QED BY <3>1, <3>2 DEF Row
  <2>6. CASE UNCHANGED row
    BY <2>6
  <2> QED
    BY <2>1, <2>2, <2>3, <2>4, <2>5, <2>6 DEF Next, Serve, vars, BeginTrigger, BeginBatchTrigger,
       TriggerNext, BeginRetry, BeginStop, Fail
<1> QED BY <1>1, Inductive, PTL DEF Spec, StoppedForGood
=============================================================================
