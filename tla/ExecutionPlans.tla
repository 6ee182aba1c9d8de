--------------------------- MODULE ExecutionPlans ---------------------------
(***************************************************************************)
(* One execution plan: ExecutionPlanGenerator.generate_plan creates it in  *)
(* four commits, and the plan routes freeze, execute, cancel and delete it *)
(* as soon as the first of them has made it visible.                       *)
(*                                                                         *)
(* The skills come as a list of entries, in which a skill may occur twice. *)
(* A dependency list is a set (a repeated id counts twice on both sides),  *)
(* and so is the queue of Kahn's algorithm: entries it holds together may  *)
(* leave it in any order.                                                  *)
(*                                                                         *)
(* Every node repository call is a commit of its own, followed by a        *)
(* refresh of that node; a flush writes only a status that differs from    *)
(* the one loaded.                                                         *)
(*                                                                         *)
(* Left out: versions, template levels, validate, pause and resume, which  *)
(* store nothing, and the statuses no route writes (READY, FAILED,         *)
(* BYPASS_EXECUTING).                                                      *)
(***************************************************************************)
EXTENDS Integers, FiniteSets, Sequences

CONSTANTS
  Skills,     \* skill ids
  Foreign,    \* ids named in dependencies that the list does not hold
  Stages,     \* stage ids
  Layouts,    \* the lists to consider, but for their dependencies
  Requests,   \* requests to the plan routes, each served once
  Faulty      \* those that may end with an exception, "generate" for the generator

NodeType == {"primary", "auxiliary"}
Entry    == [skill : Skills, stage : Stages, type : NodeType]

ASSUME SkillsAssumption == IsFiniteSet(Skills \cup Foreign) /\ Skills \cap Foreign = {}
ASSUME LayoutsAssumption == Layouts \subseteq Seq(Entry)
ASSUME FaultyAssumption == Faulty \subseteq Requests \cup {"generate"}

VARIABLES
  entries,    \* skill_nodes, without the dependencies
  depends,    \* the dependencies of each entry
  (* Locals of the generator *)
  gen,        \* how far it is
  inDegree,   \* in_degree of _topological_sort
  queue,      \* the skills in its queue
  order,      \* result of the sort
  (* Rows *)
  plan,       \* the plan row
  status,     \* PlanNode.status
  matrix,     \* is the dependency matrix stored
  groups,     \* are the parallel groups stored
  (* Locals of the requests *)
  pc, todo, at, loaded

genVars  == <<gen, inDegree, queue, order>>
rows     == <<plan, status, matrix, groups>>
requests == <<pc, todo, at, loaded>>
vars     == <<entries, depends, genVars, rows, requests>>

NodeStatus == {"absent", "NOT_STARTED", "EXECUTING", "COMPLETED", "CANCELLED"}
Terminal   == {"COMPLETED", "CANCELLED"}   \* and FAILED, which is never stored
NoSkill    == "-"

Entries == DOMAIN entries
Listed  == {entries[e].skill : e \in Entries}

\* skill_map and in_degree keep the last entry of a skill.
EntryOf(s) == CHOOSE e \in Entries :
  entries[e].skill = s /\ \A f \in Entries : entries[f].skill = s => f <= e

TypeOK ==
  /\ entries \in Layouts
  /\ depends \in [Entries -> SUBSET (Skills \cup Foreign)]
  /\ gen \in {"new", "sorting", "sorted", "nodes", "matrix", "done", "refused", "failed"}
  /\ inDegree \in [Skills -> Int]
  /\ queue \in SUBSET Skills
  /\ order \in Seq(Skills)
  /\ plan \in {"none", "draft", "frozen", "deleted"}
  /\ status \in [Skills -> NodeStatus]
  /\ matrix \in BOOLEAN /\ groups \in BOOLEAN
  /\ pc \in [Requests -> {"new", "executing", "refreshing", "completing",
                          "cancelling", "done", "failed"}]
  /\ todo \in [Requests -> SUBSET Skills]
  /\ at \in [Requests -> Skills \cup {NoSkill}]
  /\ loaded \in [Requests -> [Skills -> NodeStatus]]

Blank == [s \in Skills |-> "absent"]

Init ==
  /\ entries \in Layouts
  /\ depends \in [Entries -> SUBSET (Listed \cup Foreign)]
  /\ gen = "new" /\ plan = "none" /\ matrix = FALSE /\ groups = FALSE
  /\ inDegree = [s \in Skills |-> 0]
  /\ queue = {} /\ order = <<>>
  /\ status = Blank
  /\ pc = [r \in Requests |-> "new"]
  /\ todo = [r \in Requests |-> {}]
  /\ at = [r \in Requests |-> NoSkill]
  /\ loaded = [r \in Requests |-> Blank]

-----------------------------------------------------------------------------
(* generate_plan *)

\* Mutant of InDegrees: only dependencies in the list are counted.
InDegreesListed ==
  [s \in Skills |-> IF s \in Listed THEN Cardinality(depends[EntryOf(s)] \cap Listed) ELSE 0]

InDegrees ==
  [s \in Skills |-> IF s \in Listed THEN Cardinality(depends[EntryOf(s)]) ELSE 0]

\* The plan row is committed before the list is looked at.
CommitPlan ==
  /\ gen = "new"
  /\ plan' = "draft"
  /\ gen' = "sorting"
  /\ inDegree' = InDegrees
  /\ queue' = {s \in Listed : InDegrees[s] = 0}
  /\ UNCHANGED <<entries, depends, order, status, matrix, groups, requests>>

\* How often adj[s] names skill t.
Edges(s, t) == Cardinality({e \in Entries : entries[e].skill = t /\ s \in depends[e]})

\* One turn of the while loop; a count may go below 0 for a repeated skill.
SortStep(s) ==
  /\ gen = "sorting"
  /\ s \in queue
  /\ order' = Append(order, s)
  /\ inDegree' = [t \in Skills |-> inDegree[t] - Edges(s, t)]
  /\ queue' = (queue \ {s}) \cup {t \in Listed : inDegree[t] > 0 /\ inDegree'[t] <= 0}
  /\ UNCHANGED <<entries, depends, gen, rows, requests>>

\* len(result) != len(skill_nodes) is the only check: PLAN_CYCLE_DETECTED.
EndSort ==
  /\ gen = "sorting"
  /\ queue = {}
  /\ gen' = IF Len(order) = Cardinality(Entries) THEN "sorted" ELSE "refused"
  /\ UNCHANGED <<entries, depends, inDegree, queue, order, rows, requests>>

\* The rows below reference the plan; once it is deleted they are refused.
PlanExists == plan \in {"draft", "frozen"}

\* The node rows, in one commit, all NOT_STARTED; order_index is the place in order.
CommitNodes ==
  /\ gen = "sorted"
  /\ PlanExists
  /\ status' = [s \in Skills |-> IF s \in Listed THEN "NOT_STARTED" ELSE "absent"]
  /\ gen' = "nodes"
  /\ UNCHANGED <<entries, depends, inDegree, queue, order, plan, matrix, groups, requests>>

CommitMatrix ==
  /\ gen = "nodes"
  /\ PlanExists
  /\ matrix' = TRUE
  /\ gen' = "matrix"
  /\ UNCHANGED <<entries, depends, inDegree, queue, order, plan, status, groups, requests>>

PrimariesOf(st) == {e \in Entries : entries[e].stage = st /\ entries[e].type = "primary"}

OnePrimaryEach ==
  \A e \in Entries : Cardinality(PrimariesOf(entries[e].stage)) = 1

\* Mutant of CommitGroups: a stage without a primary skill is let through.
CommitGroupsLenient ==
  /\ gen = "matrix"
  /\ PlanExists
  /\ \A e \in Entries : Cardinality(PrimariesOf(entries[e].stage)) <= 1
  /\ groups' = TRUE
  /\ gen' = "done"
  /\ UNCHANGED <<entries, depends, inDegree, queue, order, plan, status, matrix, requests>>

CommitGroups ==
  /\ gen = "matrix"
  /\ PlanExists
  /\ OnePrimaryEach
  /\ groups' = TRUE
  /\ gen' = "done"
  /\ UNCHANGED <<entries, depends, inDegree, queue, order, plan, status, matrix, requests>>

\* PLAN_MULTIPLE_PRIMARY, a deleted plan, a database error: what has been
\* committed stays.
GenerateFails ==
  /\ \/ gen = "matrix" /\ ~OnePrimaryEach
     \/ gen \in {"sorted", "nodes", "matrix"} /\ ~PlanExists
     \/ gen \in {"sorting", "sorted", "nodes", "matrix"} /\ "generate" \in Faulty
  /\ gen' = "failed"
  /\ UNCHANGED <<entries, depends, inDegree, queue, order, rows, requests>>

-----------------------------------------------------------------------------
(* The plan routes *)

Nodes == {s \in Skills : status[s] # "absent"}

Place(s)   == CHOOSE i \in 1 .. Len(order) : order[i] = s
StageOf(s) == entries[EntryOf(s)].stage
TypeOf(s)  == entries[EntryOf(s)].type

\* nodes[0] of list_by_plan, which sorts by order_index.
FirstNode == CHOOSE s \in Nodes : \A t \in Nodes : Place(s) <= Place(t)

Flush(row, old, new) == IF new = old THEN row ELSE new

Return(r, outcome) ==
  /\ pc' = [pc EXCEPT ![r] = outcome]
  /\ todo' = [todo EXCEPT ![r] = {}]
  /\ at' = [at EXCEPT ![r] = NoSkill]
  /\ loaded' = [loaded EXCEPT ![r] = Blank]

\* freeze looks at nothing but the plan row.
Freeze(r) ==
  /\ pc[r] = "new"
  /\ PlanExists
  /\ plan' = "frozen"
  /\ Return(r, "done")
  /\ UNCHANGED <<entries, depends, genVars, status, matrix, groups>>

\* The nodes and groups go with the plan (ON DELETE CASCADE).
Delete(r) ==
  /\ pc[r] = "new"
  /\ PlanExists
  /\ plan' = "deleted"
  /\ status' = Blank
  /\ matrix' = FALSE
  /\ groups' = FALSE
  /\ Return(r, "done")
  /\ UNCHANGED <<entries, depends, genVars>>

\* execute: the nodes of the first node's stage.  Neither is_frozen nor the
\* status of the nodes nor the gates are looked at.
BeginExecute(r) ==
  /\ pc[r] = "new"
  /\ Nodes # {}
  /\ pc' = [pc EXCEPT ![r] = "executing"]
  /\ todo' = [todo EXCEPT ![r] = {s \in Nodes : StageOf(s) = StageOf(FirstNode)}]
  /\ loaded' = [loaded EXCEPT ![r] = status]
  /\ UNCHANGED <<entries, depends, genVars, rows, at>>

\* Mutant of Before: by order_index alone.
BeforeByOrder(s, t) == Place(s) < Place(t)

\* Primary skills come before auxiliary ones, each by order_index.
Before(s, t) ==
  IF TypeOf(s) = TypeOf(t) THEN Place(s) < Place(t) ELSE TypeOf(s) = "primary"

\* A write needs the row to be there.
MarkExecuting(r) ==
  \E s \in todo[r] :
    /\ pc[r] = "executing"
    /\ \A t \in todo[r] \ {s} : Before(s, t)
    /\ status[s] # "absent"
    /\ status' = [status EXCEPT ![s] = Flush(@, loaded[r][s], "EXECUTING")]
    /\ at' = [at EXCEPT ![r] = s]
    /\ pc' = [pc EXCEPT ![r] = "refreshing"]
    /\ UNCHANGED <<entries, depends, genVars, plan, matrix, groups, todo, loaded>>

\* update() refreshes the node after its commit.
Refresh(r) ==
  /\ pc[r] = "refreshing"
  /\ status[at[r]] # "absent"
  /\ loaded' = [loaded EXCEPT ![r][at[r]] = status[at[r]]]
  /\ pc' = [pc EXCEPT ![r] = "completing"]
  /\ UNCHANGED <<entries, depends, genVars, rows, todo, at>>

\* Mutant of MarkCompleted: the status is set but not stored.
MarkCompletedUnsaved(r) ==
  LET left == todo[r] \ {at[r]} IN
  /\ pc[r] = "completing"
  /\ status[at[r]] # "absent"
  /\ IF left = {} THEN Return(r, "done")
     ELSE /\ pc' = [pc EXCEPT ![r] = "executing"]
          /\ todo' = [todo EXCEPT ![r] = left]
          /\ at' = [at EXCEPT ![r] = NoSkill]
          /\ UNCHANGED loaded
  /\ UNCHANGED <<entries, depends, genVars, rows>>

\* The refresh that follows reads a status only the response shows.
MarkCompleted(r) ==
  LET s == at[r]
      left == todo[r] \ {s}
  IN
  /\ pc[r] = "completing"
  /\ status[s] # "absent"
  /\ status' = [status EXCEPT ![s] = Flush(@, loaded[r][s], "COMPLETED")]
  /\ IF left = {} THEN Return(r, "done")
     ELSE /\ pc' = [pc EXCEPT ![r] = "executing"]
          /\ todo' = [todo EXCEPT ![r] = left]
          /\ at' = [at EXCEPT ![r] = NoSkill]
          /\ UNCHANGED loaded
  /\ UNCHANGED <<entries, depends, genVars, plan, matrix, groups>>

\* cancel: every node that was not terminal when the request read it.
BeginCancel(r) ==
  /\ pc[r] = "new"
  /\ PlanExists
  /\ pc' = [pc EXCEPT ![r] = "cancelling"]
  /\ todo' = [todo EXCEPT ![r] = {s \in Nodes : status[s] \notin Terminal}]
  /\ UNCHANGED <<entries, depends, genVars, rows, at, loaded>>

\* Mutant of CancelNode: the node is marked as skipped.
CancelNodeSkipped(r) ==
  \E s \in todo[r] :
    /\ pc[r] = "cancelling"
    /\ \A t \in todo[r] \ {s} : Place(s) < Place(t)
    /\ status[s] # "absent"
    /\ status' = [status EXCEPT ![s] = "SKIPPED"]
    /\ todo' = [todo EXCEPT ![r] = @ \ {s}]
    /\ UNCHANGED <<entries, depends, genVars, plan, matrix, groups, pc, at, loaded>>

CancelNode(r) ==
  \E s \in todo[r] :
    /\ pc[r] = "cancelling"
    /\ \A t \in todo[r] \ {s} : Place(s) < Place(t)
    /\ status[s] # "absent"
    /\ status' = [status EXCEPT ![s] = "CANCELLED"]
    /\ todo' = [todo EXCEPT ![r] = @ \ {s}]
    /\ UNCHANGED <<entries, depends, genVars, plan, matrix, groups, pc, at, loaded>>

EndCancel(r) ==
  /\ pc[r] = "cancelling"
  /\ todo[r] = {}
  /\ Return(r, "done")
  /\ UNCHANGED <<entries, depends, genVars, rows>>

Working == {"executing", "refreshing", "completing", "cancelling"}

\* An exception: the node of a deleted plan, or any database error.  The
\* node it was at keeps the status committed last.
RequestFails(r) ==
  /\ pc[r] \in Working
  /\ r \in Faulty \/ Nodes = {}
  /\ pc' = [pc EXCEPT ![r] = "failed"]
  /\ UNCHANGED <<entries, depends, genVars, rows, todo, at, loaded>>

Generate ==
  \/ CommitPlan \/ EndSort \/ CommitNodes \/ CommitMatrix \/ CommitGroups
  \/ GenerateFails
  \/ \E s \in Skills : SortStep(s)

Serve(r) ==
  \/ Freeze(r) \/ Delete(r)
  \/ BeginExecute(r) \/ MarkExecuting(r) \/ Refresh(r) \/ MarkCompleted(r)
  \/ BeginCancel(r) \/ CancelNode(r) \/ EndCancel(r)
  \/ RequestFails(r)

Next == Generate \/ \E r \in Requests : Serve(r)

Spec == Init /\ [][Next]_vars

-----------------------------------------------------------------------------
(***************************************************************************)
(* Properties.                                                             *)
(***************************************************************************)
Sorted == {"sorted", "nodes", "matrix", "done"}

DependsOn(s) == depends[EntryOf(s)]

\* A list with every skill once, no dependency outside it and no cycle.
Sortable ==
  /\ Cardinality(Listed) = Cardinality(Entries)
  /\ \A s \in Listed : DependsOn(s) \subseteq Listed
  /\ \A S \in SUBSET Listed : S # {} => \E s \in S : DependsOn(s) \cap S = {}

\* The sort accepts exactly these lists: a dependency nobody settles or a
\* repeated skill is reported as a cycle too, and no slip in the counting lets
\* a cyclic list through.
AcceptsSortable ==
  /\ gen \in Sorted => Sortable
  /\ gen = "refused" => ~Sortable

\* An accepted order has every skill, once, after all it depends on.
OrderIsTopological ==
  gen \in Sorted =>
    \A s \in Listed :
      /\ \E i \in 1 .. Len(order) : order[i] = s
      /\ \A i, j \in 1 .. Len(order) :
           /\ order[i] = s /\ order[j] = s => i = j
           /\ order[i] = s /\ order[j] \in DependsOn(s) => j < i

\* The sort accepts what it should, and what it accepts it orders rightly.
SortIsRight == AcceptsSortable /\ OrderIsTopological

\* A plan with parallel groups is complete, wherever generation may fail and
\* whatever clients do to the plan meanwhile: all nodes are there, and each
\* stage has one primary skill.
GroupsMeanComplete ==
  groups => matrix /\ Nodes = Listed /\ OnePrimaryEach

\* Auxiliary skills of a stage run after its primary ones have been started,
\* also when executions and cancellations of the plan overlap or break off.
AuxiliaryAfterPrimary ==
  \A s, t \in Nodes :
    StageOf(s) = StageOf(t) /\ TypeOf(s) = "auxiliary" /\ TypeOf(t) = "primary"
      /\ status[s] \in {"EXECUTING", "COMPLETED"} => status[t] # "NOT_STARTED"

\* A node counts as executing only while a request works on it or after that
\* request failed there: overlapping requests leave no node, and no plan
\* status "Running", behind.
ExecutingHasOwner ==
  \A s \in Nodes : status[s] = "EXECUTING" =>
    \E r \in Requests : at[r] = s /\ pc[r] \in {"refreshing", "completing", "failed"}
=============================================================================
