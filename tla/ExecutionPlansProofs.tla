------------------------ MODULE ExecutionPlansProofs ------------------------
(***************************************************************************)
(* Machine-checked proofs about ExecutionPlans, for every list of skill    *)
(* nodes with every dependency, every set of requests to the plan routes,  *)
(* and every interleaving of them with the generator.                      *)
(***************************************************************************)
EXTENDS ExecutionPlans, FiniteSetTheorems, WellFoundedInduction, TLAPS

-----------------------------------------------------------------------------
(* The strengthenings *)

\* While a request works on a node, the node is one it has still to do.
AtWork ==
  \A r \in Requests : pc[r] \in {"refreshing", "completing"} => at[r] \in todo[r]

\* What is stored follows from how far the generator is and whether the plan is there.
Early == {"new", "sorting", "sorted", "refused"}

Progress ==
  /\ gen = "new" => plan = "none"
  /\ gen \in Early => Nodes = {} /\ ~matrix /\ ~groups
  /\ PlanExists /\ gen \in {"nodes", "matrix", "done"} => Nodes = Listed
  /\ PlanExists /\ gen \in {"matrix", "done"} => matrix
  /\ groups => gen = "done" /\ PlanExists /\ OnePrimaryEach

\* The request that owns a node will still complete it, or has failed there.
Owns(r, s) ==
  /\ at[r] = s
  /\ \/ pc[r] \in {"refreshing", "failed"}
     \/ pc[r] = "completing" /\ loaded[r][s] # "COMPLETED"

Owned == \A s \in Skills : status[s] = "EXECUTING" => \E r \in Requests : Owns(r, s)

\* Requests that have read the nodes and run them.
Runners == {r \in Requests : pc[r] \in {"executing", "refreshing", "completing"}}

\* The primary skills of the stage of s, but for those in set, have been started.
StartedBut(s, set) ==
  \A t \in Nodes : StageOf(t) = StageOf(s) /\ TypeOf(t) = "primary" /\ t \notin set =>
    status[t] # "NOT_STARTED"

Running(r) ==
  /\ gen \notin Early
  /\ \A t \in Skills : loaded[r][t] \notin {"absent", "NOT_STARTED"} => status[t] # "NOT_STARTED"
  /\ \A s \in todo[r] : StartedBut(s, todo[r])
  /\ pc[r] \in {"refreshing", "completing"} =>
       /\ status[at[r]] # "NOT_STARTED"
       /\ TypeOf(at[r]) = "auxiliary" => StartedBut(at[r], {})

PrimariesFirst == AuxiliaryAfterPrimary /\ \A r \in Runners : Running(r)

\* Kahn's algorithm.
Ordered  == {order[i] : i \in 1 .. Len(order)}
Distinct == Cardinality(Listed) = Cardinality(Entries)

Counted ==
  /\ Ordered \subseteq Listed
  /\ queue \subseteq Listed
  /\ queue \cap Ordered = {}
  /\ \A t \in Listed : inDegree[t] <= 0 <=> t \in queue \cup Ordered
  /\ \A i, j \in 1 .. Len(order) : order[i] = order[j] => i = j
  /\ Cardinality(Ordered) = Len(order)

Settled ==
  /\ \A t \in Listed : inDegree[t] = Cardinality(DependsOn(t) \ Ordered)
  /\ \A i \in 1 .. Len(order) : DependsOn(order[i]) \subseteq {order[j] : j \in 1 .. i - 1}
  /\ \A S \in SUBSET Listed : (\A s \in S : DependsOn(s) \cap S # {}) => S \cap Ordered = {}

Topological ==
  \A s \in Listed :
    /\ \E i \in 1 .. Len(order) : order[i] = s
    /\ \A i, j \in 1 .. Len(order) :
         /\ order[i] = s /\ order[j] = s => i = j
         /\ order[i] = s /\ order[j] \in DependsOn(s) => j < i

SortInv ==
  /\ gen = "new" => order = <<>>
  /\ gen = "sorting" => Counted /\ (Distinct => Settled)
  /\ SortIsRight

-----------------------------------------------------------------------------
(* The list and its entries *)

USE SkillsAssumption

\* A finite nonempty set of naturals has a greatest element.
LEMMA Greatest ==
  ASSUME NEW S \in SUBSET Nat, IsFiniteSet(S), S # {}
  PROVE  \E m \in S : \A n \in S : n <= m
<1> DEFINE Above(m) == {n \in S : n >= m}
           T == {Above(m) : m \in S}
<1>1. IsWellFoundedOn(StrictSubsetOrdering(S), SUBSET S)
  BY FS_StrictSubsetOrderingWellFounded, FS_FiniteSubsetsOfFinite
<1>2. T \subseteq SUBSET S /\ T # {}
  OBVIOUS
<1>3. PICK x \in T : \A y \in T : ~(<<y, x>> \in StrictSubsetOrdering(S))
  BY <1>1, <1>2, WFMin
<1>4. PICK m \in S : x = Above(m)
  BY <1>3
<1>5. ASSUME NEW n \in S, ~(n <= m) PROVE FALSE
  <2>1. n > m
    BY <1>5
  <2>2. Above(n) \subseteq Above(m)
    <3>1. ASSUME NEW k \in S, k >= n PROVE k >= m
      <4>1. k \in Nat /\ n \in Nat /\ m \in Nat
        OBVIOUS
      <4> QED BY <2>1, <3>1, <4>1
    <3> QED BY <3>1
  <2>3. m \in Above(m) /\ m \notin Above(n)
    BY <2>1
  <2>4. <<Above(n), Above(m)>> \in StrictSubsetOrdering(S)
    BY <1>2, <2>2, <2>3 DEF StrictSubsetOrdering
  <2> QED BY <1>3, <1>4, <2>4
<1> QED BY <1>5

\* The list is finite, and every listed skill has a last entry.
LEMMA ListFacts ==
  ASSUME entries \in Layouts
  PROVE  /\ entries \in Seq(Entry)
         /\ Entries = 1 .. Len(entries) /\ Len(entries) \in Nat
         /\ IsFiniteSet(Entries) /\ Cardinality(Entries) \in Nat
         /\ Listed \subseteq Skills /\ IsFiniteSet(Listed) /\ Cardinality(Listed) \in Nat
         /\ IsFiniteSet(Skills)
<1>1. entries \in Seq(Entry)
  BY LayoutsAssumption
<1>2. Entries = 1 .. Len(entries) /\ Len(entries) \in Nat
  BY <1>1 DEF Entries
<1>3. IsFiniteSet(Entries) /\ Cardinality(Entries) \in Nat
  BY <1>2, FS_Interval, FS_CardinalityType
<1>4. Listed \subseteq Skills
  <2>1. \A e \in 1 .. Len(entries) : entries[e] \in Entry
    BY <1>1
  <2>2. \A e \in Entries : entries[e].skill \in Skills
    BY <1>2, <2>1 DEF Entry
  <2> QED BY <2>2 DEF Listed
<1>5. IsFiniteSet(Skills)
  BY FS_Subset
<1>6. IsFiniteSet(Listed) /\ Cardinality(Listed) \in Nat
  BY <1>4, <1>5, FS_Subset, FS_CardinalityType
<1> QED BY <1>1, <1>2, <1>3, <1>4, <1>5, <1>6

LEMMA LastEntry ==
  ASSUME entries \in Layouts, NEW s \in Listed
  PROVE  EntryOf(s) \in Entries /\ entries[EntryOf(s)].skill = s
<1> DEFINE S == {e \in Entries : entries[e].skill = s}
<1>1. S \subseteq Entries /\ S \subseteq Nat /\ S # {}
  BY ListFacts DEF Listed
<1>2. IsFiniteSet(S)
  BY <1>1, ListFacts, FS_Subset
<1>3. \E m \in S : \A n \in S : n <= m
  BY <1>1, <1>2, Greatest
<1>4. \E e \in Entries :
        entries[e].skill = s /\ \A f \in Entries : entries[f].skill = s => f <= e
  BY <1>3
<1> QED BY <1>4 DEF EntryOf

\* The dependencies of a listed skill are counted by a natural number.
LEMMA DependsFinite ==
  ASSUME entries \in Layouts, depends \in [Entries -> SUBSET (Skills \cup Foreign)],
         NEW s \in Listed
  PROVE  /\ DependsOn(s) \subseteq Skills \cup Foreign
         /\ IsFiniteSet(DependsOn(s))
<1>1. DependsOn(s) \in SUBSET (Skills \cup Foreign)
  BY LastEntry DEF DependsOn
<1> QED BY <1>1, FS_Subset

LEMMA InDegreesNat ==
  ASSUME entries \in Layouts, depends \in [Entries -> SUBSET (Skills \cup Foreign)]
  PROVE  /\ InDegrees \in [Skills -> Nat]
         /\ \A s \in Listed : InDegrees[s] = Cardinality(DependsOn(s))
<1>1. ASSUME NEW s \in Listed PROVE Cardinality(DependsOn(s)) \in Nat
  BY DependsFinite, FS_CardinalityType
<1> QED BY <1>1, ListFacts DEF InDegrees, DependsOn

LEMMA EdgesNat ==
  ASSUME entries \in Layouts, NEW s, NEW t
  PROVE  Edges(s, t) \in Nat
<1> DEFINE E == {e \in Entries : entries[e].skill = t /\ s \in depends[e]}
<1>1. IsFiniteSet(E)
  BY ListFacts, FS_Subset
<1> QED BY <1>1, FS_CardinalityType DEF Edges

-----------------------------------------------------------------------------
(* Type correctness *)

LEMMA TypeInit == Init => TypeOK /\ AtWork
<1> SUFFICES ASSUME Init PROVE TypeOK /\ AtWork
  OBVIOUS
<1>1. Listed \subseteq Skills
  BY ListFacts DEF Init
<1>2. depends \in [Entries -> SUBSET (Skills \cup Foreign)]
  BY <1>1 DEF Init
<1>3. order \in Seq(Skills) /\ Blank \in [Skills -> NodeStatus]
  BY DEF Init, Blank, NodeStatus
<1>4. /\ inDegree \in [Skills -> Int] /\ queue \in SUBSET Skills
      /\ gen = "new" /\ plan = "none" /\ matrix = FALSE /\ groups = FALSE
  BY DEF Init
<1>5. /\ pc \in [Requests -> {"new", "executing", "refreshing", "completing",
                              "cancelling", "done", "failed"}]
      /\ todo \in [Requests -> SUBSET Skills]
      /\ at \in [Requests -> Skills \cup {NoSkill}]
      /\ loaded \in [Requests -> [Skills -> NodeStatus]]
      /\ status \in [Skills -> NodeStatus]
  BY <1>3 DEF Init
<1>6. AtWork
  BY DEF Init, AtWork
<1> QED BY <1>2, <1>3, <1>4, <1>5, <1>6 DEF Init, TypeOK

\* What every handler leaves behind.
LEMMA ReturnTyped ==
  ASSUME TypeOK, AtWork, NEW r \in Requests, Return(r, "done")
  PROVE  /\ pc' \in [Requests -> {"new", "executing", "refreshing", "completing",
                                  "cancelling", "done", "failed"}]
         /\ todo' \in [Requests -> SUBSET Skills]
         /\ at' \in [Requests -> Skills \cup {NoSkill}]
         /\ loaded' \in [Requests -> [Skills -> NodeStatus]]
         /\ AtWork'
<1>1. Blank \in [Skills -> NodeStatus]
  BY DEF Blank, NodeStatus
<1>2. \A q \in Requests \ {r} : pc'[q] = pc[q] /\ todo'[q] = todo[q] /\ at'[q] = at[q]
  BY DEF Return, TypeOK
<1>3. pc'[r] = "done"
  BY DEF Return, TypeOK
<1> QED BY <1>1, <1>2, <1>3 DEF Return, TypeOK, AtWork

LEMMA GenerateTyped == TypeOK /\ AtWork /\ Generate => TypeOK' /\ AtWork'
<1> SUFFICES ASSUME TypeOK, AtWork, Generate PROVE TypeOK' /\ AtWork'
  OBVIOUS
<1> USE DEF TypeOK, requests, rows, Entries
<1>0. gen' \in {"new", "sorting", "sorted", "nodes", "matrix", "done", "refused", "failed"}
  BY DEF Generate, CommitPlan, EndSort, CommitNodes, CommitMatrix, CommitGroups,
     GenerateFails, SortStep
<1>1. ASSUME NEW s \in Skills, SortStep(s) PROVE TypeOK'
  <2>1. inDegree' \in [Skills -> Int]
    BY <1>1, EdgesNat DEF SortStep
  <2>2. queue' \in SUBSET Skills
    BY <1>1, ListFacts DEF SortStep
  <2>3. order' \in Seq(Skills)
    BY <1>1 DEF SortStep
  <2> QED BY <1>1, <2>1, <2>2, <2>3 DEF SortStep
<1>2. ASSUME CommitPlan PROVE TypeOK'
  <2>1. inDegree' \in [Skills -> Int] /\ queue' \in SUBSET Skills
    BY <1>2, InDegreesNat, ListFacts DEF CommitPlan
  <2>2. /\ plan' = "draft"
        /\ UNCHANGED <<entries, depends, order, status, matrix, groups, requests>>
    BY <1>2 DEF CommitPlan
  <2> QED BY <1>0, <2>1, <2>2
<1>3. ASSUME CommitNodes PROVE TypeOK'
  <2>1. status' \in [Skills -> NodeStatus]
    BY <1>3 DEF CommitNodes, NodeStatus
  <2>2. UNCHANGED <<entries, depends, inDegree, queue, order, plan, matrix, groups, requests>>
    BY <1>3 DEF CommitNodes
  <2> QED BY <1>0, <2>1, <2>2
<1>4. ASSUME EndSort \/ GenerateFails PROVE TypeOK'
  <2>1. UNCHANGED <<entries, depends, inDegree, queue, order, rows, requests>>
    BY <1>4 DEF EndSort, GenerateFails
  <2> QED BY <1>0, <2>1
<1>5. ASSUME CommitMatrix \/ CommitGroups PROVE TypeOK'
  <2>1. matrix' \in BOOLEAN /\ groups' \in BOOLEAN
    BY <1>5 DEF CommitMatrix, CommitGroups
  <2>2. UNCHANGED <<entries, depends, inDegree, queue, order, plan, status, requests>>
    BY <1>5 DEF CommitMatrix, CommitGroups
  <2> QED BY <1>0, <2>1, <2>2
<1>6. UNCHANGED requests
  BY DEF Generate, CommitPlan, EndSort, CommitNodes, CommitMatrix, CommitGroups,
     GenerateFails, SortStep
<1>7. AtWork'
  BY <1>6 DEF AtWork
<1> QED BY <1>1, <1>2, <1>3, <1>4, <1>5, <1>7 DEF Generate

LEMMA ServeTyped == \A r \in Requests : TypeOK /\ AtWork /\ Serve(r) => TypeOK' /\ AtWork'
<1> SUFFICES ASSUME TypeOK, AtWork, NEW r \in Requests, Serve(r) PROVE TypeOK' /\ AtWork'
  OBVIOUS
<1> USE DEF genVars, rows, Entries
<1>1. CASE Freeze(r) \/ Delete(r) \/ EndCancel(r)
  <2>1. Blank \in [Skills -> NodeStatus]
    BY DEF Blank, NodeStatus
  <2> QED BY <1>1, <2>1, ReturnTyped DEF Freeze, Delete, EndCancel, TypeOK
<1>2. CASE BeginExecute(r) \/ BeginCancel(r) \/ RequestFails(r)
  <2>1. pc'[r] \notin {"refreshing", "completing"}
    BY <1>2 DEF BeginExecute, BeginCancel, RequestFails, TypeOK
  <2>2. \A q \in Requests \ {r} : pc'[q] = pc[q] /\ todo'[q] = todo[q] /\ at'[q] = at[q]
    BY <1>2 DEF BeginExecute, BeginCancel, RequestFails, TypeOK
  <2>3. AtWork'
    BY <2>1, <2>2 DEF AtWork
  <2>4. /\ pc' \in [Requests -> {"new", "executing", "refreshing", "completing",
                                "cancelling", "done", "failed"}]
        /\ todo' \in [Requests -> SUBSET Skills]
        /\ loaded' \in [Requests -> [Skills -> NodeStatus]]
    <3>1. /\ \E step \in {"executing", "cancelling", "failed"} : pc' = [pc EXCEPT ![r] = step]
          /\ loaded' = loaded \/ loaded' = [loaded EXCEPT ![r] = status]
      BY <1>2 DEF BeginExecute, BeginCancel, RequestFails
    <3>2. todo' = todo \/ \E set \in SUBSET Skills : todo' = [todo EXCEPT ![r] = set]
      BY <1>2 DEF BeginExecute, BeginCancel, RequestFails, Nodes
    <3>3. pc' \in [Requests -> {"new", "executing", "refreshing", "completing",
                                "cancelling", "done", "failed"}]
      BY <3>1 DEF TypeOK
    <3>4. todo' \in [Requests -> SUBSET Skills]
      BY <3>2 DEF TypeOK
    <3>5. loaded' \in [Requests -> [Skills -> NodeStatus]]
      BY <3>1 DEF TypeOK
    <3> QED BY <3>3, <3>4, <3>5
  <2>5. UNCHANGED <<entries, depends, genVars, rows, at>>
    BY <1>2 DEF BeginExecute, BeginCancel, RequestFails
  <2> QED BY <2>3, <2>4, <2>5 DEF TypeOK
<1>3. CASE MarkExecuting(r)
  <2>1. PICK s \in todo[r] :
          /\ status' = [status EXCEPT ![s] = Flush(@, loaded[r][s], "EXECUTING")]
          /\ at' = [at EXCEPT ![r] = s]
          /\ pc' = [pc EXCEPT ![r] = "refreshing"]
          /\ UNCHANGED <<entries, depends, genVars, plan, matrix, groups, todo, loaded>>
    BY <1>3 DEF MarkExecuting
  <2>2. s \in Skills
    BY DEF TypeOK
  <2>3. status' \in [Skills -> NodeStatus]
    BY <2>1, <2>2 DEF TypeOK, Flush, NodeStatus
  <2> QED BY <2>1, <2>2, <2>3 DEF TypeOK, AtWork
<1>4. CASE Refresh(r)
  <2>1. at[r] \in Skills
    BY <1>4 DEF Refresh, AtWork, TypeOK
  <2> QED BY <1>4, <2>1 DEF Refresh, TypeOK, AtWork
<1>5. CASE MarkCompleted(r)
  <2>1. at[r] \in Skills
    BY <1>5 DEF MarkCompleted, AtWork, TypeOK
  <2>2. status' \in [Skills -> NodeStatus]
    BY <1>5, <2>1 DEF MarkCompleted, TypeOK, Flush, NodeStatus
  <2>3. CASE Return(r, "done")
    BY <1>5, <2>2, <2>3, ReturnTyped DEF MarkCompleted, TypeOK
  <2>4. CASE ~Return(r, "done")
    <3>1. /\ pc' = [pc EXCEPT ![r] = "executing"]
          /\ todo' = [todo EXCEPT ![r] = todo[r] \ {at[r]}]
          /\ at' = [at EXCEPT ![r] = NoSkill]
          /\ UNCHANGED <<entries, depends, genVars, plan, matrix, groups, loaded>>
      BY <1>5, <2>4 DEF MarkCompleted
    <3> QED BY <2>2, <3>1 DEF TypeOK, AtWork
  <2> QED BY <2>3, <2>4
<1>6. CASE CancelNode(r)
  <2>1. PICK s \in todo[r] :
          /\ pc[r] = "cancelling"
          /\ status' = [status EXCEPT ![s] = "CANCELLED"]
          /\ todo' = [todo EXCEPT ![r] = @ \ {s}]
          /\ UNCHANGED <<entries, depends, genVars, plan, matrix, groups, pc, at, loaded>>
    BY <1>6 DEF CancelNode
  <2> QED BY <2>1 DEF TypeOK, AtWork, NodeStatus
<1> QED BY <1>1, <1>2, <1>3, <1>4, <1>5, <1>6 DEF Serve

\* Every variable keeps its type: no node status outside the CHECK constraint
\* of the table, whatever the list and however requests interleave.
THEOREM PlansTyped == Spec => [](TypeOK /\ AtWork)
<1>1. TypeOK /\ AtWork /\ UNCHANGED vars => TypeOK' /\ AtWork'
  BY DEF vars, genVars, rows, requests, TypeOK, AtWork, Entries
<1>2. TypeOK /\ AtWork /\ [Next]_vars => TypeOK' /\ AtWork'
  BY <1>1, GenerateTyped, ServeTyped DEF Next
<1> QED BY <1>2, TypeInit, PTL DEF Spec

-----------------------------------------------------------------------------
(* Steps *)

\* A request works on its own locals.
LEMMA OthersUntouched ==
  ASSUME TypeOK, NEW r \in Requests, Serve(r), NEW q \in Requests, q # r
  PROVE  pc'[q] = pc[q] /\ todo'[q] = todo[q] /\ at'[q] = at[q] /\ loaded'[q] = loaded[q]
<1>1. \A o : Return(r, o) =>
        pc'[q] = pc[q] /\ todo'[q] = todo[q] /\ at'[q] = at[q] /\ loaded'[q] = loaded[q]
  BY DEF Return, TypeOK
<1>2. CASE MarkCompleted(r)
  BY <1>1, <1>2 DEF MarkCompleted, TypeOK
<1>3. CASE Refresh(r)
  BY <1>3 DEF Refresh, TypeOK
<1>4. CASE MarkExecuting(r) \/ CancelNode(r)
  BY <1>4 DEF MarkExecuting, CancelNode, TypeOK
<1>5. CASE Freeze(r) \/ Delete(r) \/ EndCancel(r)
  BY <1>1, <1>5 DEF Freeze, Delete, EndCancel
<1>6. CASE BeginExecute(r) \/ BeginCancel(r) \/ RequestFails(r)
  BY <1>6 DEF BeginExecute, BeginCancel, RequestFails, TypeOK
<1> QED BY <1>2, <1>3, <1>4, <1>5, <1>6 DEF Serve

\* The list is never written, and only the generator writes its locals.
LEMMA ListKept ==
  ASSUME [Next]_vars
  PROVE  /\ entries' = entries /\ depends' = depends
         /\ Generate \/ genVars' = genVars
         /\ Generate => requests' = requests
<1>1. ASSUME Generate
      PROVE  entries' = entries /\ depends' = depends /\ requests' = requests
  BY <1>1 DEF Generate, CommitPlan, EndSort, CommitNodes, CommitMatrix, CommitGroups,
     GenerateFails, SortStep
<1>2. ASSUME NEW r \in Requests, Serve(r)
      PROVE  entries' = entries /\ depends' = depends /\ genVars' = genVars
  BY <1>2 DEF Serve, Freeze, Delete, BeginExecute, MarkExecuting, Refresh, MarkCompleted,
     BeginCancel, CancelNode, EndCancel, RequestFails
<1>3. CASE UNCHANGED vars
  BY <1>3 DEF vars, genVars, rows, requests, Generate, CommitPlan, EndSort, CommitNodes, CommitMatrix, CommitGroups,
     GenerateFails, SortStep
<1> QED BY <1>1, <1>2, <1>3 DEF Next

\* What a request does to the nodes.
LEMMA NodeWrites ==
  ASSUME TypeOK, AtWork, NEW r \in Requests, Serve(r)
  PROVE  \/ status' = status
         \/ Delete(r) /\ status' = Blank
         \/ \E s \in Skills, new \in {"EXECUTING", "COMPLETED", "CANCELLED"} :
              status[s] # "absent" /\ status' = [status EXCEPT ![s] = new]
<1>1. CASE MarkExecuting(r)
  <2>1. PICK s \in todo[r] :
          /\ status[s] # "absent"
          /\ status' = [status EXCEPT ![s] = Flush(@, loaded[r][s], "EXECUTING")]
    BY <1>1 DEF MarkExecuting
  <2>2. s \in Skills /\ (status' = status \/ status' = [status EXCEPT ![s] = "EXECUTING"])
    BY <2>1 DEF Flush, TypeOK
  <2> QED BY <2>1, <2>2
<1>2. CASE MarkCompleted(r)
  <2>1. at[r] \in Skills
    BY <1>2 DEF MarkCompleted, AtWork, TypeOK
  <2>2. /\ status[at[r]] # "absent"
        /\ status' = status \/ status' = [status EXCEPT ![at[r]] = "COMPLETED"]
    BY <1>2, <2>1 DEF MarkCompleted, Flush, TypeOK
  <2> QED BY <2>1, <2>2
<1>3. CASE CancelNode(r)
  <2>1. PICK s \in todo[r] :
          status[s] # "absent" /\ status' = [status EXCEPT ![s] = "CANCELLED"]
    BY <1>3 DEF CancelNode
  <2> QED BY <2>1 DEF TypeOK
<1>4. CASE Delete(r)
  BY <1>4 DEF Delete
<1>5. CASE Freeze(r) \/ EndCancel(r) \/ BeginExecute(r) \/ BeginCancel(r) \/ RequestFails(r)
           \/ Refresh(r)
  BY <1>5 DEF Freeze, EndCancel, BeginExecute, BeginCancel, RequestFails, Refresh, rows
<1> QED BY <1>1, <1>2, <1>3, <1>4, <1>5 DEF Serve

\* Requests make no node and take none back to NOT_STARTED; only a deletion
\* takes nodes away.
LEMMA NodesServed ==
  ASSUME TypeOK, AtWork, NEW r \in Requests, Serve(r)
  PROVE  /\ \A t \in Skills : status'[t] = "NOT_STARTED" => status[t] = "NOT_STARTED"
         /\ Nodes' \subseteq Nodes
         /\ Delete(r) \/ Nodes' = Nodes
<1>1. CASE status' = status
  BY <1>1 DEF Nodes
<1>2. CASE Delete(r) /\ status' = Blank
  BY <1>2 DEF Blank, Nodes
<1>3. ASSUME NEW s \in Skills, NEW new \in {"EXECUTING", "COMPLETED", "CANCELLED"},
             status[s] # "absent", status' = [status EXCEPT ![s] = new]
      PROVE  \A t \in Skills : /\ status'[t] = "NOT_STARTED" => status[t] = "NOT_STARTED"
                               /\ status'[t] = "absent" <=> status[t] = "absent"
  BY <1>3 DEF TypeOK
<1> QED BY <1>1, <1>2, <1>3, NodeWrites DEF Nodes

\* Nodes are created once, by the generator.
LEMMA NodesKept ==
  ASSUME TypeOK, AtWork, [Next]_vars, ~CommitNodes
  PROVE  /\ \A t \in Skills : status'[t] = "NOT_STARTED" => status[t] = "NOT_STARTED"
         /\ Nodes' \subseteq Nodes
<1>1. CASE Generate
  BY <1>1 DEF Generate, CommitPlan, EndSort, CommitMatrix, CommitGroups, GenerateFails,
     SortStep, rows, Nodes
<1>2. CASE UNCHANGED vars
  BY <1>2 DEF vars, rows, Nodes
<1> QED BY <1>1, <1>2, NodesServed DEF Next

-----------------------------------------------------------------------------
(* What stored groups mean *)

LEMMA ProgressStep ==
  ASSUME TypeOK, AtWork, Progress, [Next]_vars
  PROVE  Progress'
<1>1. entries' = entries /\ Listed' = Listed /\ (OnePrimaryEach <=> OnePrimaryEach')
  BY ListKept DEF Listed, Entries, OnePrimaryEach, PrimariesOf
<1>2. CASE CommitNodes
  <2>1. Nodes' = Listed
    BY <1>2, ListFacts DEF CommitNodes, Nodes, TypeOK
  <2> QED BY <1>1, <1>2, <2>1 DEF CommitNodes, Progress, Early, PlanExists
<1>3. CASE Generate /\ ~CommitNodes
  <2>1. Nodes' = Nodes
    BY <1>3 DEF Generate, CommitPlan, EndSort, CommitMatrix, CommitGroups, GenerateFails,
       SortStep, rows, Nodes
  <2>2. CASE CommitPlan \/ EndSort \/ CommitMatrix
    BY <1>1, <2>1, <2>2 DEF CommitPlan, EndSort, CommitMatrix, Progress, Early, PlanExists, rows
  <2>3. CASE CommitGroups \/ GenerateFails
    BY <1>1, <2>1, <2>3 DEF CommitGroups, GenerateFails, Progress, Early, PlanExists, rows
  <2>4. ASSUME NEW s \in Skills, SortStep(s) PROVE Progress'
    BY <1>1, <2>1, <2>4 DEF SortStep, Progress, Early, PlanExists, rows
  <2> QED BY <1>3, <2>2, <2>3, <2>4 DEF Generate
<1>4. ASSUME NEW r \in Requests, Delete(r) PROVE Progress'
  <2>1. gen # "new" /\ gen' = gen
    BY <1>4 DEF Delete, Progress, PlanExists, genVars
  <2>2. Nodes' = {} /\ ~matrix' /\ ~groups' /\ ~PlanExists'
    BY <1>4 DEF Delete, Nodes, Blank, PlanExists
  <2> QED BY <2>1, <2>2 DEF Progress
<1>5. ASSUME NEW r \in Requests, Serve(r), ~Delete(r) PROVE Progress'
  <2>1. Nodes' = Nodes
    BY <1>5, NodesServed
  <2>2. UNCHANGED <<gen, matrix, groups>> /\ (PlanExists' <=> PlanExists)
    BY <1>5 DEF Serve, Freeze, BeginExecute, MarkExecuting, Refresh, MarkCompleted,
       BeginCancel, CancelNode, EndCancel, RequestFails, rows, genVars, PlanExists
  <2>3. plan = "none" => plan' = "none"
    BY <1>5 DEF Serve, Freeze, BeginExecute, MarkExecuting, Refresh, MarkCompleted,
       BeginCancel, CancelNode, EndCancel, RequestFails, rows, PlanExists
  <2> QED BY <1>1, <2>1, <2>2, <2>3 DEF Progress
<1>6. CASE UNCHANGED vars
  BY <1>1, <1>6 DEF vars, rows, genVars, Progress, PlanExists, Nodes
<1> QED BY <1>2, <1>3, <1>4, <1>5, <1>6 DEF Next

\* A plan whose parallel groups are stored is complete and sound, whatever the
\* list, wherever generation fails and whatever clients do meanwhile.
THEOREM GroupsComplete == Spec => []GroupsMeanComplete
<1>1. Init => Progress
  BY DEF Init, Progress, Nodes, Blank, PlanExists
<1>2. TypeOK /\ AtWork /\ Progress /\ [Next]_vars => Progress'
  BY ProgressStep
<1>3. Progress => GroupsMeanComplete
  BY DEF Progress, GroupsMeanComplete
<1> QED BY <1>1, <1>2, <1>3, PlansTyped, PTL DEF Spec

-----------------------------------------------------------------------------
(* Who executes a node *)

LEMMA OwnedStep ==
  ASSUME TypeOK, AtWork, Owned, [Next]_vars
  PROVE  Owned'
<1>1. CASE Generate
  <2>1. \A s \in Skills : status'[s] = "EXECUTING" => status[s] = "EXECUTING"
    BY <1>1 DEF Generate, CommitPlan, EndSort, CommitNodes, CommitMatrix, CommitGroups,
       GenerateFails, SortStep, rows
  <2>2. UNCHANGED requests
    BY <1>1, ListKept
  <2> QED BY <2>1, <2>2 DEF Owned, Owns, requests
<1>2. ASSUME NEW r \in Requests, Serve(r), NEW s \in Skills, status'[s] = "EXECUTING"
      PROVE  \E q \in Requests : Owns(q, s)'
  <2>1. ASSUME NEW q \in Requests, q # r, Owns(q, s) PROVE Owns(q, s)'
    BY <1>2, <2>1, OthersUntouched DEF Owns
  <2>2. CASE MarkExecuting(r)
    <3>1. PICK x \in todo[r] :
            /\ pc[r] = "executing"
            /\ status' = [status EXCEPT ![x] = Flush(@, loaded[r][x], "EXECUTING")]
            /\ at' = [at EXCEPT ![r] = x]
            /\ pc' = [pc EXCEPT ![r] = "refreshing"]
      BY <2>2 DEF MarkExecuting
    <3>2. CASE s = x
      BY <3>1, <3>2 DEF Owns, TypeOK
    <3>3. CASE s # x
      <4>1. status[s] = "EXECUTING"
        BY <1>2, <3>1, <3>3 DEF TypeOK
      <4> QED BY <2>1, <3>1, <4>1 DEF Owned, Owns
    <3> QED BY <3>2, <3>3
  <2>3. CASE Refresh(r)
    <3>1. status[s] = "EXECUTING"
      BY <1>2, <2>3 DEF Refresh, rows
    <3>2. PICK q \in Requests : Owns(q, s)
      BY <3>1 DEF Owned
    <3>3. CASE q = r
      BY <2>3, <3>1, <3>2, <3>3 DEF Refresh, Owns, TypeOK
    <3> QED BY <2>1, <3>2, <3>3
  <2>4. CASE MarkCompleted(r)
    <3>1. at[r] \in Skills /\ pc[r] = "completing"
      BY <2>4 DEF MarkCompleted, AtWork, TypeOK
    <3>2. status[s] = "EXECUTING" /\ (at[r] = s => loaded[r][s] = "COMPLETED")
      BY <1>2, <2>4, <3>1 DEF MarkCompleted, Flush, TypeOK
    <3>3. PICK q \in Requests : Owns(q, s)
      BY <3>2 DEF Owned
    <3>4. q # r
      BY <3>1, <3>2, <3>3 DEF Owns
    <3> QED BY <2>1, <3>3, <3>4
  <2>5. CASE RequestFails(r)
    <3>1. status[s] = "EXECUTING" /\ at' = at /\ pc' = [pc EXCEPT ![r] = "failed"]
      BY <1>2, <2>5 DEF RequestFails, rows
    <3>2. PICK q \in Requests : Owns(q, s)
      BY <3>1 DEF Owned
    <3>3. CASE q = r
      BY <3>1, <3>2, <3>3 DEF Owns, TypeOK
    <3> QED BY <2>1, <3>2, <3>3
  <2>6. CASE CancelNode(r) \/ Freeze(r) \/ Delete(r) \/ EndCancel(r) \/ BeginExecute(r) \/ BeginCancel(r)
    <3>1. pc[r] \in {"new", "cancelling"}
      BY <2>6 DEF CancelNode, Freeze, Delete, EndCancel, BeginExecute, BeginCancel
    <3>2. status[s] = "EXECUTING"
      BY <1>2, <2>6 DEF CancelNode, Freeze, Delete, EndCancel, BeginExecute, BeginCancel, rows,
         Blank, TypeOK
    <3> QED BY <2>1, <3>1, <3>2 DEF Owned, Owns
  <2> QED BY <1>2, <2>2, <2>3, <2>4, <2>5, <2>6 DEF Serve
<1>3. CASE UNCHANGED vars
  BY <1>3 DEF vars, rows, requests, Owned, Owns
<1> QED BY <1>1, <1>2, <1>3 DEF Next, Owned

\* No node is left executing by requests that overlap: one of them still works
\* on it, or has failed at it.
THEOREM ExecutionsOwned == Spec => []ExecutingHasOwner
<1>1. Init => Owned
  BY DEF Init, Owned, Blank
<1>2. TypeOK /\ AtWork /\ Owned /\ [Next]_vars => Owned'
  BY OwnedStep
<1>3. Owned => ExecutingHasOwner
  BY DEF Owned, Owns, ExecutingHasOwner, Nodes
<1> QED BY <1>1, <1>2, <1>3, PlansTyped, PTL DEF Spec

-----------------------------------------------------------------------------
(* Auxiliary skills after primary ones *)

\* What the list says of a skill does not change.
LEMMA SkillsKept ==
  ASSUME [Next]_vars, NEW s
  PROVE  StageOf(s)' = StageOf(s) /\ TypeOf(s)' = TypeOf(s)
<1>1. entries' = entries
  BY ListKept
<1>2. EntryOf(s)' = EntryOf(s)
  BY <1>1 DEF EntryOf, Entries
<1> QED BY <1>1, <1>2 DEF StageOf, TypeOf

\* The generator does not go back.
LEMMA NeverEarlyAgain ==
  ASSUME [Next]_vars, gen \notin Early
  PROVE  gen' \notin Early
<1>1. CASE Generate
  BY <1>1 DEF Generate, CommitPlan, EndSort, CommitNodes, CommitMatrix, CommitGroups,
     GenerateFails, SortStep, Early
<1>2. CASE ~Generate
  BY <1>2, ListKept DEF genVars
<1> QED BY <1>1, <1>2

\* Primary skills stay started.
LEMMA StaysStarted ==
  ASSUME TypeOK, AtWork, [Next]_vars, ~CommitNodes, NEW s, NEW set, StartedBut(s, set)
  PROVE  \A t \in Nodes' : StageOf(t)' = StageOf(s)' /\ TypeOf(t)' = "primary" /\ t \notin set =>
           status'[t] # "NOT_STARTED"
BY NodesKept, SkillsKept DEF StartedBut, Nodes

\* A request starts an auxiliary skill only when it has no primary skill left.
LEMMA AuxiliaryLast ==
  ASSUME NEW r \in Requests, Running(r), NEW s \in todo[r],
         \A t \in todo[r] \ {s} : Before(s, t), TypeOf(s) = "auxiliary"
  PROVE  StartedBut(s, {})
<1>1. ASSUME NEW t \in Nodes, TypeOf(t) = "primary" PROVE t \notin todo[r]
  BY <1>1 DEF Before
<1>2. StartedBut(s, todo[r])
  BY DEF Running
<1> QED BY <1>1, <1>2 DEF StartedBut

\* Where a node can come to be executed or completed.
LEMMA NewlyStarted ==
  ASSUME TypeOK, AtWork, NEW r \in Requests, Serve(r), NEW s \in Skills,
         status'[s] \in {"EXECUTING", "COMPLETED"}, status[s] \notin {"EXECUTING", "COMPLETED"}
  PROVE  \/ MarkCompleted(r) /\ s = at[r]
         \/ /\ MarkExecuting(r)
            /\ s \in todo[r] /\ \A t \in todo[r] \ {s} : Before(s, t)
<1>1. CASE MarkExecuting(r)
  <2>1. PICK x \in todo[r] :
          /\ \A t \in todo[r] \ {x} : Before(x, t)
          /\ status' = [status EXCEPT ![x] = Flush(@, loaded[r][x], "EXECUTING")]
    BY <1>1 DEF MarkExecuting
  <2>2. s = x
    BY <2>1 DEF TypeOK
  <2> QED BY <1>1, <2>1, <2>2
<1>2. CASE MarkCompleted(r)
  BY <1>2 DEF MarkCompleted, TypeOK
<1>3. CASE ~MarkExecuting(r) /\ ~MarkCompleted(r)
  BY <1>3 DEF Serve, Freeze, Delete, BeginExecute, Refresh, BeginCancel, CancelNode, EndCancel,
     RequestFails, rows, Blank, TypeOK
<1> QED BY <1>1, <1>2, <1>3

\* A running request after a step of its own.
LEMMA RunningStep ==
  ASSUME TypeOK, AtWork, Progress, NEW r \in Requests, Serve(r), r \in Runners',
         r \in Runners => Running(r)
  PROVE  Running(r)'
<1>0. /\ [Next]_vars /\ ~CommitNodes /\ genVars' = genVars
  BY DEF Next, Serve, CommitNodes, Freeze, Delete, BeginExecute, MarkExecuting, Refresh,
     MarkCompleted, BeginCancel, CancelNode, EndCancel, RequestFails, genVars, rows, PlanExists
<1>1. pc'[r] \in {"executing", "refreshing", "completing"}
  BY DEF Runners
<1>2. ~Return(r, "done")
  BY <1>1 DEF Return, TypeOK
<1>3. \A s, t \in Skills : StageOf(s)' = StageOf(s) /\ TypeOf(t)' = TypeOf(t)
  BY <1>0, SkillsKept
<1>4. CASE BeginExecute(r)
  <2>1. gen \notin Early /\ gen' = gen /\ status' = status
    BY <1>4 DEF BeginExecute, Progress, rows, genVars
  <2>2. /\ pc'[r] = "executing" /\ loaded'[r] = status
        /\ todo'[r] = {s \in Nodes : StageOf(s) = StageOf(FirstNode)}
    BY <1>4 DEF BeginExecute, TypeOK
  <2>3. \A s \in todo'[r], t \in Nodes' : StageOf(t)' = StageOf(s)' => t \in todo'[r]
    BY <1>0, <2>1, <2>2, SkillsKept DEF Nodes
  <2> QED BY <2>1, <2>2, <2>3 DEF Running, StartedBut
<1>5. CASE MarkExecuting(r)
  <2>1. PICK x \in todo[r] :
          /\ pc[r] = "executing"
          /\ \A t \in todo[r] \ {x} : Before(x, t)
          /\ status' = [status EXCEPT ![x] = Flush(@, loaded[r][x], "EXECUTING")]
          /\ at' = [at EXCEPT ![r] = x]
          /\ pc' = [pc EXCEPT ![r] = "refreshing"]
          /\ UNCHANGED <<genVars, todo, loaded>>
    BY <1>5 DEF MarkExecuting
  <2>2. Running(r) /\ at'[r] = x /\ x \in Skills
    BY <2>1 DEF Runners, TypeOK
  <2>3. gen' \notin Early
    BY <2>1, <2>2 DEF Running, genVars
  <2>4. \A t \in Skills : loaded'[r][t] \notin {"absent", "NOT_STARTED"} =>
          status'[t] # "NOT_STARTED"
    BY <1>0, <2>1, <2>2, NodesKept DEF Running
  <2>5. \A s \in todo[r] : StartedBut(s, todo[r])'
    BY <1>0, <2>1, <2>2, StaysStarted DEF Running, StartedBut
  <2>6. status'[x] # "NOT_STARTED"
    BY <2>1, <2>2 DEF Running, Flush, TypeOK
  <2>7. TypeOf(x)' = "auxiliary" => StartedBut(x, {})'
    BY <1>0, <2>1, <2>2, AuxiliaryLast, StaysStarted, SkillsKept DEF StartedBut
  <2> QED BY <2>1, <2>2, <2>3, <2>4, <2>5, <2>6, <2>7 DEF Running, StartedBut
<1>6. CASE Refresh(r)
  <2>1. /\ Running(r) /\ pc[r] = "refreshing" /\ status' = status
        /\ at[r] \in Skills /\ UNCHANGED <<genVars, todo, at>>
        /\ loaded' = [loaded EXCEPT ![r][at[r]] = status[at[r]]]
    BY <1>6 DEF Refresh, Runners, AtWork, TypeOK, rows
  <2>2. \A t \in Skills : loaded'[r][t] \notin {"absent", "NOT_STARTED"} =>
          status'[t] # "NOT_STARTED"
    BY <2>1 DEF Running, TypeOK
  <2>3. \A s \in todo[r] : StartedBut(s, todo[r])'
    BY <1>0, <2>1, StaysStarted DEF Running, StartedBut
  <2>4. TypeOf(at[r])' = "auxiliary" => StartedBut(at[r], {})'
    BY <1>0, <2>1, StaysStarted, SkillsKept DEF Running, StartedBut
  <2> QED BY <2>1, <2>2, <2>3, <2>4 DEF Running, genVars, StartedBut
<1>7. CASE MarkCompleted(r)
  <2>1. /\ Running(r) /\ pc[r] = "completing" /\ at[r] \in todo[r] /\ at[r] \in Skills
        /\ pc'[r] = "executing" /\ todo'[r] = todo[r] \ {at[r]} /\ loaded' = loaded
        /\ status' = [status EXCEPT ![at[r]] = Flush(@, loaded[r][at[r]], "COMPLETED")]
    BY <1>2, <1>7 DEF MarkCompleted, Runners, AtWork, TypeOK
  <2>2. status'[at[r]] # "NOT_STARTED"
    BY <2>1 DEF Running, Flush, TypeOK
  <2>3. \A t \in Skills : loaded'[r][t] \notin {"absent", "NOT_STARTED"} =>
          status'[t] # "NOT_STARTED"
    BY <1>0, <2>1, NodesKept DEF Running
  <2>4. ASSUME NEW s \in todo'[r] PROVE StartedBut(s, todo[r])'
    <3>1. StartedBut(s, todo[r])
      BY <2>1 DEF Running
    <3>2. \A t \in Nodes' : StageOf(t)' = StageOf(s)' /\ TypeOf(t)' = "primary" /\ t \notin todo[r] =>
            status'[t] # "NOT_STARTED"
      BY <1>0, <3>1, StaysStarted
    <3> QED BY <2>1, <2>2, <3>2 DEF StartedBut
  <2> QED BY <1>0, <2>1, <2>3, <2>4 DEF Running, genVars
<1>8. ~(Freeze(r) \/ Delete(r) \/ EndCancel(r))
  BY <1>2 DEF Freeze, Delete, EndCancel
<1>9. ~(BeginCancel(r) \/ CancelNode(r) \/ RequestFails(r))
  BY <1>1 DEF BeginCancel, CancelNode, RequestFails, TypeOK
<1> QED BY <1>4, <1>5, <1>6, <1>7, <1>8, <1>9 DEF Serve

LEMMA PrimariesFirstStep ==
  ASSUME TypeOK, AtWork, Progress, PrimariesFirst, [Next]_vars
  PROVE  PrimariesFirst'
<1>1. CASE CommitNodes
  <2>1. gen = "sorted" /\ requests' = requests
    BY <1>1 DEF CommitNodes
  <2>2. Runners' = {}
    BY <2>1 DEF PrimariesFirst, Running, Early, Runners, requests
  <2>3. AuxiliaryAfterPrimary'
    BY <1>1 DEF CommitNodes, AuxiliaryAfterPrimary, Nodes
  <2> QED BY <2>2, <2>3 DEF PrimariesFirst
<1>2. ASSUME ~CommitNodes,
             NEW q \in Runners, UNCHANGED <<pc[q], todo[q], at[q], loaded[q]>>
      PROVE  Running(q)'
  <2>1. q \in Requests /\ Running(q) /\ todo[q] \subseteq Skills
        /\ (pc[q] \in {"refreshing", "completing"} => at[q] \in Skills)
    BY DEF PrimariesFirst, Runners, AtWork, TypeOK
  <2>2. gen' \notin Early
    BY <2>1, NeverEarlyAgain DEF Running
  <2>3. \A t \in Skills : loaded'[q][t] \notin {"absent", "NOT_STARTED"} =>
          status'[t] # "NOT_STARTED"
    BY <1>2, <2>1, NodesKept DEF Running
  <2>4. \A s \in todo[q] : StartedBut(s, todo[q])'
    BY <1>2, <2>1, StaysStarted DEF Running, StartedBut
  <2>5. ASSUME pc[q] \in {"refreshing", "completing"}
        PROVE  /\ status'[at[q]] # "NOT_STARTED"
               /\ TypeOf(at[q])' = "auxiliary" => StartedBut(at[q], {})'
    BY <1>2, <2>1, <2>5, NodesKept, StaysStarted, SkillsKept DEF Running, StartedBut
  <2> QED BY <1>2, <2>2, <2>3, <2>4, <2>5 DEF Running, StartedBut
<1>3. ASSUME ~CommitNodes,
             NEW s \in Nodes', NEW t \in Nodes',
             StageOf(s)' = StageOf(t)', TypeOf(s)' = "auxiliary", TypeOf(t)' = "primary",
             status'[s] \in {"EXECUTING", "COMPLETED"}
      PROVE  status'[t] # "NOT_STARTED"
  <2>1. /\ s \in Nodes /\ t \in Nodes /\ s \in Skills
        /\ StageOf(s) = StageOf(t) /\ TypeOf(s) = "auxiliary" /\ TypeOf(t) = "primary"
        /\ status'[t] = "NOT_STARTED" => status[t] = "NOT_STARTED"
    BY <1>3, NodesKept, SkillsKept DEF Nodes
  <2>2. CASE status[s] \in {"EXECUTING", "COMPLETED"}
    BY <2>1, <2>2 DEF PrimariesFirst, AuxiliaryAfterPrimary
  <2>3. ASSUME status[s] \notin {"EXECUTING", "COMPLETED"},
               NEW r \in Requests, Serve(r)
        PROVE  StartedBut(s, {})
    <3>1. CASE MarkCompleted(r) /\ s = at[r]
      BY <2>1, <3>1 DEF MarkCompleted, PrimariesFirst, Runners, Running
    <3>2. CASE MarkExecuting(r) /\ s \in todo[r] /\ \A x \in todo[r] \ {s} : Before(s, x)
      <4>1. Running(r)
        BY <3>2 DEF MarkExecuting, PrimariesFirst, Runners
      <4> QED BY <2>1, <3>2, <4>1, AuxiliaryLast
    <3> QED BY <1>3, <2>1, <2>3, <3>1, <3>2, NewlyStarted
  <2>4. CASE status' = status
    BY <1>3, <2>2, <2>4
  <2>5. CASE Generate
    BY <1>3, <2>4, <2>5 DEF Generate, CommitPlan, EndSort, CommitMatrix, CommitGroups,
       GenerateFails, SortStep, rows
  <2>6. CASE UNCHANGED vars
    BY <2>4, <2>6 DEF vars, rows
  <2> QED BY <2>1, <2>2, <2>3, <2>5, <2>6 DEF Next, StartedBut
<1>4. ASSUME ~CommitNodes, NEW q \in Runners' PROVE Running(q)'
  <2>1. q \in Requests
    BY DEF Runners
  <2>2. CASE Serve(q)
    BY <2>1, <2>2, RunningStep DEF PrimariesFirst
  <2>3. CASE ~Serve(q)
    <3>1. UNCHANGED <<pc[q], todo[q], at[q], loaded[q]>>
      BY <2>1, <2>3, ListKept, OthersUntouched DEF Next, vars, requests
    <3> QED BY <1>2, <1>4, <2>1, <3>1 DEF Runners
  <2> QED BY <2>2, <2>3
<1>5. CASE ~CommitNodes
  BY <1>3, <1>4, <1>5 DEF PrimariesFirst, AuxiliaryAfterPrimary
<1> QED BY <1>1, <1>5

\* Auxiliary skills run after the primary ones of their stage have been
\* started, however executions, cancellations and a deletion overlap.
THEOREM AuxiliariesLast == Spec => []AuxiliaryAfterPrimary
<1>1. Init => Progress /\ PrimariesFirst
  BY DEF Init, Progress, PrimariesFirst, AuxiliaryAfterPrimary, Runners, Nodes, Blank, PlanExists
<1>2. TypeOK /\ AtWork /\ Progress /\ PrimariesFirst /\ [Next]_vars => Progress' /\ PrimariesFirst'
  BY ProgressStep, PrimariesFirstStep
<1>3. PrimariesFirst => AuxiliaryAfterPrimary
  BY DEF PrimariesFirst
<1> QED BY <1>1, <1>2, <1>3, PlansTyped, PTL DEF Spec

-----------------------------------------------------------------------------
(* The sort *)

\* The list has at least as many entries as skills, and as many only if no
\* skill occurs twice.
LEMMA SkillsAndEntries ==
  ASSUME entries \in Layouts
  PROVE  /\ Cardinality(Listed) <= Cardinality(Entries)
         /\ Distinct => \A e, f \in Entries : entries[e].skill = entries[f].skill => e = f
<1> DEFINE skill == [e \in Entries |-> entries[e].skill]
<1>1. skill \in Surjection(Entries, Listed)
  BY DEF Surjection, Listed
<1>2. IsFiniteSet(Entries)
  BY ListFacts
<1> HIDE DEF skill
<1>3. /\ Cardinality(Listed) <= Cardinality(Entries)
      /\ Cardinality(Listed) = Cardinality(Entries) => skill \in Injection(Entries, Listed)
  BY <1>1, <1>2, FS_Surjection
<1> USE DEF skill
<1> QED BY <1>3 DEF Injection, IsInjective, Distinct

\* In such a list, adj[s] names t once if t depends on s.
LEMMA EdgesDistinct ==
  ASSUME entries \in Layouts, Distinct, NEW t \in Listed, NEW s
  PROVE  Edges(s, t) = IF s \in DependsOn(t) THEN 1 ELSE 0
<1> DEFINE E == {e \in Entries : entries[e].skill = t /\ s \in depends[e]}
<1>1. EntryOf(t) \in Entries /\ entries[EntryOf(t)].skill = t
  BY LastEntry
<1>2. E = IF s \in DependsOn(t) THEN {EntryOf(t)} ELSE {}
  BY <1>1, SkillsAndEntries DEF DependsOn
<1>3. Cardinality({EntryOf(t)}) = 1 /\ Cardinality({}) = 0
  BY FS_Singleton, FS_EmptySet
<1> QED BY <1>2, <1>3 DEF Edges

\* One turn of the loop adds one skill to the order.
LEMMA OrderGrows ==
  ASSUME TypeOK, NEW s \in Skills, SortStep(s)
  PROVE  /\ Len(order) \in Nat /\ Len(order') = Len(order) + 1
         /\ \A i \in 1 .. Len(order) : order'[i] = order[i]
         /\ order'[Len(order) + 1] = s
         /\ Ordered' = Ordered \cup {s}
<1>1. order \in Seq(Skills) /\ order' = Append(order, s)
  BY DEF SortStep, TypeOK
<1>2. /\ Len(order) \in Nat /\ Len(order') = Len(order) + 1
      /\ \A i \in 1 .. Len(order) : order'[i] = order[i]
      /\ order'[Len(order) + 1] = s
  BY <1>1
<1>3. 1 .. Len(order') = (1 .. Len(order)) \cup {Len(order) + 1}
  BY <1>2
<1> QED BY <1>2, <1>3 DEF Ordered

\* The list as the sort sees it.
LEMMA ListUnchanged ==
  ASSUME UNCHANGED <<entries, depends>>
  PROVE  /\ Entries' = Entries /\ Listed' = Listed /\ (Distinct <=> Distinct')
         /\ \A s : DependsOn(s)' = DependsOn(s)
         /\ (Sortable <=> Sortable')
<1>1. Entries' = Entries /\ Listed' = Listed
  BY DEF Entries, Listed
<1>2. \A s : EntryOf(s)' = EntryOf(s)
  BY <1>1 DEF EntryOf
<1>3. \A s : DependsOn(s)' = DependsOn(s)
  BY <1>2 DEF DependsOn
<1> QED BY <1>1, <1>3 DEF Distinct, Sortable

LEMMA CountedStep ==
  ASSUME TypeOK, Counted, NEW s \in Skills, SortStep(s)
  PROVE  Counted'
<1>1. Listed' = Listed /\ Listed \subseteq Skills
  BY ListUnchanged, ListFacts DEF SortStep, TypeOK
<1>2. /\ s \in queue /\ s \in Listed /\ s \notin Ordered
      /\ queue' = (queue \ {s}) \cup {t \in Listed : inDegree[t] > 0 /\ inDegree'[t] <= 0}
  BY DEF SortStep, Counted
<1>3. \A t \in Listed : inDegree[t] \in Int /\ inDegree'[t] \in Int /\ inDegree'[t] <= inDegree[t]
  BY <1>1, EdgesNat DEF SortStep, TypeOK
<1>4. \A t \in Listed : inDegree[t] <= 0 <=> t \in queue \cup Ordered
  BY DEF Counted
<1>5. Ordered' \subseteq Listed /\ queue' \subseteq Listed
  BY <1>2, OrderGrows DEF Counted
<1>6. queue' \cap Ordered' = {}
  <2>1. ASSUME NEW t \in queue', t \in Ordered PROVE FALSE
    BY <1>2, <1>3, <1>4, <1>5, <2>1 DEF Counted
  <2>2. s \notin queue'
    BY <1>2, <1>3, <1>4
  <2> QED BY <2>1, <2>2, OrderGrows
<1>7. \A t \in Listed : inDegree'[t] <= 0 <=> t \in queue' \cup Ordered'
  BY <1>2, <1>3, <1>4, OrderGrows
<1>8. \A i, j \in 1 .. Len(order') : order'[i] = order'[j] => i = j
  <2>1. \A i \in 1 .. Len(order) : order[i] # s
    BY <1>2 DEF Ordered
  <2>2. \A i \in 1 .. Len(order') : i \in 1 .. Len(order) \/ i = Len(order) + 1
    BY OrderGrows
  <2> QED BY <2>1, <2>2, OrderGrows DEF Counted
<1>9. Cardinality(Ordered') = Len(order')
  <2>1. IsFiniteSet(Ordered)
    BY ListFacts, FS_Subset DEF Counted, TypeOK
  <2>2. Cardinality(Ordered \cup {s}) = Cardinality(Ordered) + 1
    BY <1>2, <2>1, FS_AddElement
  <2> QED BY <2>2, OrderGrows DEF Counted
<1> QED BY <1>1, <1>5, <1>6, <1>7, <1>8, <1>9 DEF Counted

LEMMA SettledStep ==
  ASSUME TypeOK, Counted, Distinct, Settled, NEW s \in Skills, SortStep(s)
  PROVE  Settled'
<1>1. Listed' = Listed /\ Listed \subseteq Skills /\ \A t : DependsOn(t)' = DependsOn(t)
  BY ListUnchanged, ListFacts DEF SortStep, TypeOK
<1>2. s \in queue /\ s \in Listed /\ s \notin Ordered
  BY DEF SortStep, Counted
<1>3. \A t \in Listed : IsFiniteSet(DependsOn(t) \ Ordered) /\ IsFiniteSet(DependsOn(t))
  BY DependsFinite, FS_Subset DEF TypeOK
<1>4. DependsOn(s) \subseteq Ordered
  <2>1. Cardinality(DependsOn(s) \ Ordered) <= 0
    BY <1>2 DEF Counted, Settled
  <2>2. Cardinality(DependsOn(s) \ Ordered) = 0
    BY <1>2, <1>3, <2>1, FS_CardinalityType
  <2> QED BY <1>2, <1>3, <2>2, FS_EmptySet
<1>5. ASSUME NEW t \in Listed
      PROVE  inDegree'[t] = Cardinality(DependsOn(t) \ Ordered')
  <2>1. DependsOn(t) \ Ordered' = (DependsOn(t) \ Ordered) \ {s}
    BY OrderGrows
  <2>2. Cardinality((DependsOn(t) \ Ordered) \ {s}) =
          IF s \in DependsOn(t) \ Ordered THEN Cardinality(DependsOn(t) \ Ordered) - 1
                                          ELSE Cardinality(DependsOn(t) \ Ordered)
    BY <1>3, FS_RemoveElement
  <2>3. inDegree'[t] = inDegree[t] - IF s \in DependsOn(t) THEN 1 ELSE 0
    BY <1>1, EdgesDistinct DEF SortStep, TypeOK
  <2>4. inDegree[t] = Cardinality(DependsOn(t) \ Ordered) /\ inDegree[t] \in Int
    BY <1>1 DEF Settled, TypeOK
  <2>5. s \in DependsOn(t) <=> s \in DependsOn(t) \ Ordered
    BY <1>2
  <2>6. inDegree'[t] = Cardinality((DependsOn(t) \ Ordered) \ {s})
    BY <2>2, <2>3, <2>4, <2>5
  <2> QED BY <2>1, <2>6
<1>6. ASSUME NEW i \in 1 .. Len(order')
      PROVE  DependsOn(order'[i]) \subseteq {order'[j] : j \in 1 .. i - 1}
  <2>1. CASE i \in 1 .. Len(order)
    <3>1. DependsOn(order[i]) \subseteq {order[j] : j \in 1 .. i - 1}
      BY <2>1 DEF Settled
    <3>2. \A j \in 1 .. i - 1 : order'[j] = order[j]
      BY <2>1, OrderGrows
    <3> QED BY <2>1, <3>1, <3>2, OrderGrows
  <2>2. CASE i = Len(order) + 1
    <3>1. order'[i] = s /\ 1 .. i - 1 = 1 .. Len(order)
      BY <2>2, OrderGrows
    <3>2. Ordered = {order'[j] : j \in 1 .. i - 1}
      BY <3>1, OrderGrows DEF Ordered
    <3> QED BY <1>4, <3>1, <3>2
  <2> QED BY <2>1, <2>2, OrderGrows
<1>7. ASSUME NEW S \in SUBSET Listed, \A t \in S : DependsOn(t) \cap S # {}
      PROVE  S \cap Ordered' = {}
  <2>1. S \cap Ordered = {}
    BY <1>7 DEF Settled
  <2>2. s \notin S
    BY <1>4, <1>7, <2>1
  <2> QED BY <2>1, <2>2, OrderGrows
<1> QED BY <1>1, <1>5, <1>6, <1>7 DEF Settled

LEMMA SortStarts ==
  ASSUME TypeOK, SortInv, CommitPlan
  PROVE  Counted' /\ Settled'
<1>1. /\ order' = <<>> /\ inDegree' = InDegrees /\ queue' = {s \in Listed : InDegrees[s] = 0}
      /\ UNCHANGED <<entries, depends>>
  BY DEF CommitPlan, SortInv
<1>2. /\ Listed' = Listed /\ Listed \subseteq Skills /\ \A t : DependsOn(t)' = DependsOn(t)
      /\ \A t \in Listed : InDegrees[t] \in Nat /\ InDegrees[t] = Cardinality(DependsOn(t))
  BY <1>1, ListUnchanged, ListFacts, InDegreesNat DEF TypeOK
<1>3. Len(order') = 0 /\ 1 .. 0 = {} /\ Ordered' = {}
  BY <1>1 DEF Ordered
<1>4. Cardinality(Ordered') = Len(order')
  BY <1>3, FS_EmptySet
<1>5. \A t \in Listed : inDegree'[t] <= 0 <=> t \in queue' \cup Ordered'
  BY <1>1, <1>2, <1>3
<1>6. Counted'
  BY <1>1, <1>2, <1>3, <1>4, <1>5 DEF Counted
<1>7. \A t \in Listed : inDegree'[t] = Cardinality(DependsOn(t) \ Ordered')
  <2>1. \A t : DependsOn(t) \ Ordered' = DependsOn(t)
    BY <1>3
  <2> QED BY <1>1, <1>2, <2>1
<1>8. Settled'
  BY <1>2, <1>3, <1>7 DEF Settled
<1> QED BY <1>6, <1>8

\* As many skills in the order as entries in the list: all of them, once each.
LEMMA AcceptedIsSorted ==
  ASSUME TypeOK, Counted, Distinct => Settled, Len(order) = Cardinality(Entries)
  PROVE  Sortable /\ Topological
<1>1. Cardinality(Ordered) <= Cardinality(Listed) /\ Cardinality(Listed) <= Cardinality(Entries)
  BY ListFacts, SkillsAndEntries, FS_Subset DEF Counted, TypeOK
<1>2. Cardinality(Ordered) = Cardinality(Listed) /\ Cardinality(Listed) = Cardinality(Entries)
  BY <1>1, ListFacts DEF Counted, TypeOK
<1>3. Ordered = Listed
  BY <1>2, ListFacts, FS_Subset DEF Counted, TypeOK
<1>4. Settled
  BY <1>2 DEF Distinct
<1>5. ASSUME NEW s \in Listed PROVE DependsOn(s) \subseteq Listed
  <2>1. PICK i \in 1 .. Len(order) : order[i] = s
    BY <1>3 DEF Ordered
  <2>2. \A j \in 1 .. i - 1 : j \in 1 .. Len(order)
    BY <2>1 DEF TypeOK
  <2>3. {order[j] : j \in 1 .. i - 1} \subseteq Ordered
    BY <2>2 DEF Ordered
  <2> QED BY <1>3, <1>4, <2>1, <2>3 DEF Settled
<1>6. ASSUME NEW S \in SUBSET Listed, S # {} PROVE \E s \in S : DependsOn(s) \cap S = {}
  BY <1>3, <1>4, <1>6 DEF Settled
<1>7. Sortable
  BY <1>2, <1>5, <1>6 DEF Sortable
<1>8. ASSUME NEW s \in Listed, NEW i \in 1 .. Len(order), NEW j \in 1 .. Len(order),
             order[i] = s, order[j] \in DependsOn(s)
      PROVE  j < i
  <2>1. PICK k \in 1 .. i - 1 : order[k] = order[j]
    BY <1>4, <1>8 DEF Settled
  <2>2. k \in 1 .. Len(order)
    BY <2>1 DEF TypeOK
  <2>3. k = j
    BY <2>1, <2>2 DEF Counted
  <2> QED BY <2>1, <2>3
<1>9. Topological
  BY <1>3, <1>8 DEF Topological, Ordered, Counted
<1> QED BY <1>7, <1>9

\* Too few: the rest of the list waits for itself, or for what is not there.
LEMMA RefusedIsUnsortable ==
  ASSUME TypeOK, Counted, Distinct => Settled, queue = {}, Len(order) # Cardinality(Entries)
  PROVE  ~Sortable
<1> SUFFICES ASSUME Sortable PROVE FALSE
  OBVIOUS
<1>1. Distinct /\ Settled
  BY DEF Sortable, Distinct
<1>2. Listed \ Ordered # {}
  BY <1>1 DEF Counted, Distinct
<1>3. PICK s \in Listed \ Ordered : DependsOn(s) \cap (Listed \ Ordered) = {}
  BY <1>2 DEF Sortable
<1>4. DependsOn(s) \ Ordered = {}
  BY <1>3 DEF Sortable
<1>5. inDegree[s] = 0
  BY <1>1, <1>3, <1>4, FS_EmptySet DEF Settled
<1> QED BY <1>3, <1>5 DEF Counted

LEMMA SortInvStep ==
  ASSUME TypeOK, SortInv, [Next]_vars
  PROVE  SortInv'
<1>1. UNCHANGED <<entries, depends>>
  BY ListKept
<1>2. (Distinct <=> Distinct') /\ (Sortable <=> Sortable')
  BY <1>1, ListUnchanged
<1>3. CASE CommitPlan
  BY <1>3, SortStarts
  DEF CommitPlan, SortInv, SortIsRight, AcceptsSortable, OrderIsTopological, Sorted
<1>4. ASSUME NEW s \in Skills, SortStep(s) PROVE SortInv'
  <2>1. gen = "sorting" /\ gen' = "sorting" /\ Counted /\ (Distinct => Settled)
    BY <1>4 DEF SortStep, SortInv
  <2>2. Counted' /\ (Distinct' => Settled')
    BY <1>2, <1>4, <2>1, CountedStep, SettledStep
  <2> QED BY <2>1, <2>2
    DEF SortInv, SortIsRight, AcceptsSortable, OrderIsTopological, Sorted
<1>5. ASSUME UNCHANGED <<order, inDegree, queue>>
      PROVE  /\ Ordered' = Ordered
             /\ Counted => Counted'
             /\ Settled => Settled'
             /\ Topological => Topological'
  <2>1. Listed' = Listed /\ Ordered' = Ordered /\ \A t : DependsOn(t)' = DependsOn(t)
    BY <1>1, <1>5, ListUnchanged DEF Ordered
  <2>2. Counted => Counted'
    BY <1>5, <2>1 DEF Counted
  <2>3. Settled => Settled'
    BY <1>5, <2>1 DEF Settled
  <2>4. Topological => Topological'
    BY <1>5, <2>1 DEF Topological
  <2> QED BY <2>1, <2>2, <2>3, <2>4
<1>6. CASE EndSort
  <2>1. /\ gen = "sorting" /\ queue = {} /\ Counted /\ (Distinct => Settled)
        /\ gen' = IF Len(order) = Cardinality(Entries) THEN "sorted" ELSE "refused"
        /\ UNCHANGED <<order, inDegree, queue>>
    BY <1>6 DEF EndSort, SortInv
  <2>2. CASE Len(order) = Cardinality(Entries)
    <3>1. gen' = "sorted" /\ Sortable' /\ Topological'
      BY <1>2, <1>5, <2>1, <2>2, AcceptedIsSorted
    <3> QED BY <3>1
      DEF SortInv, SortIsRight, AcceptsSortable, OrderIsTopological, Topological
  <2>3. CASE Len(order) # Cardinality(Entries)
    <3>1. gen' = "refused" /\ ~Sortable'
      BY <1>2, <2>1, <2>3, RefusedIsUnsortable
    <3> QED BY <3>1
      DEF SortInv, SortIsRight, AcceptsSortable, OrderIsTopological, Sorted
  <2> QED BY <2>2, <2>3
<1>7. ASSUME UNCHANGED <<order, inDegree, queue>>,
             gen' = gen \/ (gen \in Sorted /\ gen' \in Sorted) \/ gen' = "failed"
      PROVE  SortInv'
  <2>1. SortIsRight <=> AcceptsSortable /\ (gen \in Sorted => Topological)
    BY DEF SortIsRight, OrderIsTopological, Topological
  <2>2. SortIsRight' <=> AcceptsSortable' /\ (gen' \in Sorted => Topological')
    BY DEF SortIsRight, OrderIsTopological, Topological
  <2>3. (gen \in Sorted => Topological') /\ (gen = "sorting" => Counted' /\ (Distinct' => Settled'))
    BY <1>2, <1>5, <1>7, <2>1 DEF SortInv
  <2> QED BY <1>2, <1>7, <2>2, <2>3 DEF SortInv, SortIsRight, AcceptsSortable, Sorted
<1>8. CASE CommitNodes \/ CommitMatrix \/ CommitGroups \/ GenerateFails
  BY <1>7, <1>8 DEF CommitNodes, CommitMatrix, CommitGroups, GenerateFails, Sorted
<1>9. CASE ~Generate
  <2>1. genVars' = genVars
    BY <1>9, ListKept
  <2>2. UNCHANGED <<order, inDegree, queue>> /\ gen' = gen
    BY <2>1 DEF genVars
  <2> QED BY <1>7, <2>2
<1> QED BY <1>3, <1>4, <1>6, <1>8, <1>9 DEF Generate

\* The sort accepts exactly the lists with every skill once, no dependency
\* outside and no cycle, whatever their length, and orders those rightly.
THEOREM SortCorrect == Spec => []SortIsRight
<1>1. Init => SortInv
  BY DEF Init, SortInv, SortIsRight, AcceptsSortable, OrderIsTopological, Sorted
<1>2. TypeOK /\ SortInv /\ [Next]_vars => SortInv'
  BY SortInvStep
<1>3. SortInv => SortIsRight
  BY DEF SortInv
<1> QED BY <1>1, <1>2, <1>3, PlansTyped, PTL DEF Spec
=============================================================================
