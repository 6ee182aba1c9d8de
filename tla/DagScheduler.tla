---------------------------- MODULE DagScheduler ----------------------------
(***************************************************************************)
(* DAGScheduler.execute on one DAG: Kahn's algorithm groups the skills in  *)
(* layers, the layers run one after the other, the skills of a layer in    *)
(* parallel under a semaphore.                                             *)
(*                                                                         *)
(* A dependency list is a set here (a repeated id counts twice in both     *)
(* directions), and so is a layer: the semaphore may admit its skills in   *)
(* any order.  The state machine the scheduler reports to has no database  *)
(* and only validates the constants passed to it, so it never refuses.     *)
(*                                                                         *)
(* Left out: parsing, events, the files a skill reads and writes, gates    *)
(* (the route builds the scheduler without a gate controller) and cancel,  *)
(* which has no caller and which execute would not notice.                 *)
(***************************************************************************)
EXTENDS Naturals, FiniteSets, Sequences

CONSTANTS
  Nodes,        \* the skills of the DAG
  Foreign,      \* ids named in depends_on that are no skill of it
  MaxParallel   \* max_parallel

ASSUME NodesAssumption == IsFiniteSet(Nodes) /\ Nodes \cap Foreign = {}
ASSUME ParallelAssumption == MaxParallel \in Nat \ {0}

VARIABLES
  dependsOn,   \* depends_on of each skill, as the YAML has it
  phase,
  inDegree,    \* in_degree of topological_layers
  current,     \* the layer it has found last
  layers,      \* the layers it has listed
  turn,        \* how many layers have been started
  permits,     \* value of the semaphore of the running layer
  task         \* the coroutine of each skill

vars == <<dependsOn, phase, inDegree, current, layers, turn, permits, task>>

Settled == {"success", "failed", "raised"}

TypeOK ==
  /\ dependsOn \in [Nodes -> SUBSET (Nodes \cup Foreign)]
  /\ phase \in {"layering", "running", "done"}
  /\ inDegree \in [Nodes -> Nat]
  /\ current \in SUBSET Nodes
  /\ layers \in Seq(SUBSET Nodes)
  /\ turn \in 0 .. Len(layers)
  /\ permits \in 0 .. MaxParallel
  /\ task \in [Nodes -> {"none", "queued", "executing"} \cup Settled]

\* The edges: dependencies that are skills of the DAG.
Deps(n) == dependsOn[n] \cap Nodes

-----------------------------------------------------------------------------
(* topological_layers *)

\* Mutant of InDegrees: dependencies outside the DAG are counted.
InDegreesForeign == [n \in Nodes |-> Cardinality(dependsOn[n])]

InDegrees == [n \in Nodes |-> Cardinality(Deps(n))]

Init ==
  /\ dependsOn \in [Nodes -> SUBSET (Nodes \cup Foreign)]
  /\ phase = "layering"
  /\ inDegree = InDegrees
  /\ current = {n \in Nodes : inDegree[n] = 0}
  /\ layers = <<>>
  /\ turn = 0
  /\ permits = 0
  /\ task = [n \in Nodes |-> "none"]

\* Mutant of AddLayer: every dependent of the layer is taken, whatever else it
\* depends on.
AddLayerEager ==
  /\ phase = "layering"
  /\ current # {}
  /\ layers' = Append(layers, current)
  /\ inDegree' = [n \in Nodes |-> inDegree[n] - Cardinality(Deps(n) \cap current)]
  /\ current' = {n \in Nodes : Deps(n) \cap current # {}}
  /\ UNCHANGED <<dependsOn, phase, turn, permits, task>>

\* One turn of the while loop: every edge from the layer is counted down, and
\* a skill joins the next layer when its count reaches 0.
AddLayer ==
  /\ phase = "layering"
  /\ current # {}
  /\ layers' = Append(layers, current)
  /\ inDegree' = [n \in Nodes |-> inDegree[n] - Cardinality(Deps(n) \cap current)]
  /\ current' = {n \in Nodes : Deps(n) \cap current # {} /\ inDegree'[n] = 0}
  /\ UNCHANGED <<dependsOn, phase, turn, permits, task>>

\* Nothing is raised for the skills that are in no layer.
EndLayering ==
  /\ phase = "layering"
  /\ current = {}
  /\ phase' = "running"
  /\ UNCHANGED <<dependsOn, inDegree, current, layers, turn, permits, task>>

-----------------------------------------------------------------------------
(* execute *)

\* gather(return_exceptions=True) waits for every skill of the layer.
LayerEnded == turn > 0 => \A n \in layers[turn] : task[n] \in Settled

\* A new semaphore, and a task for every skill of the layer, whatever became
\* of the skills it depends on.
NextLayer ==
  /\ phase = "running"
  /\ turn < Len(layers)
  /\ LayerEnded
  /\ turn' = turn + 1
  /\ permits' = MaxParallel
  /\ task' = [n \in Nodes |-> IF n \in layers[turn + 1] THEN "queued" ELSE task[n]]
  /\ UNCHANGED <<dependsOn, phase, inDegree, current, layers>>

Finish ==
  /\ phase = "running"
  /\ turn = Len(layers)
  /\ LayerEnded
  /\ phase' = "done"
  /\ UNCHANGED <<dependsOn, inDegree, current, layers, turn, permits, task>>

\* Mutant of ExecuteNode: every skill has a semaphore of its own.
ExecuteNodeOwnSemaphore(n) ==
  /\ task[n] = "queued"
  /\ permits > 0
  /\ task' = [task EXCEPT ![n] = "executing"]
  /\ UNCHANGED <<dependsOn, phase, inDegree, current, layers, turn, permits>>

ExecuteNode(n) ==
  /\ task[n] = "queued"
  /\ permits > 0
  /\ permits' = permits - 1
  /\ task' = [task EXCEPT ![n] = "executing"]
  /\ UNCHANGED <<dependsOn, phase, inDegree, current, layers, turn>>

\* Mutant of NodeEnds: an exception does not give the permit back.
NodeEndsLeaking(n, outcome) ==
  /\ task[n] = "executing"
  /\ permits' = IF outcome = "raised" THEN permits ELSE permits + 1
  /\ task' = [task EXCEPT ![n] = outcome]
  /\ UNCHANGED <<dependsOn, phase, inDegree, current, layers, turn>>

\* The engine returns or raises, and `async with` releases the semaphore.
NodeEnds(n, outcome) ==
  /\ task[n] = "executing"
  /\ permits' = permits + 1
  /\ task' = [task EXCEPT ![n] = outcome]
  /\ UNCHANGED <<dependsOn, phase, inDegree, current, layers, turn>>

-----------------------------------------------------------------------------
NodeStep(n) == ExecuteNode(n) \/ \E outcome \in Settled : NodeEnds(n, outcome)

Next ==
  \/ AddLayer
  \/ EndLayering
  \/ NextLayer
  \/ Finish
  \/ \E n \in Nodes : NodeStep(n)

Spec == Init /\ [][Next]_vars

\* The background task is scheduled, and a skill ends: the CLI adapter kills it
\* after its timeout and kill_timeout.
FairSpec == Spec /\ WF_vars(Next) /\ \A n \in Nodes : WF_vars(NodeStep(n))

-----------------------------------------------------------------------------
(***************************************************************************)
(* Properties                                                              *)
(***************************************************************************)
\* Every skill is listed once, after all its dependencies and in the first
\* layer where that is so: the layers are as parallel as the graph allows.
Layered ==
  \A i \in 1 .. Len(layers) : \A n \in layers[i] :
    /\ \A j \in 1 .. Len(layers) : n \in layers[j] => j = i
    /\ \A d \in Deps(n) : \E j \in 1 .. i - 1 : d \in layers[j]
    /\ i > 1 => Deps(n) \cap layers[i - 1] # {}

\* The largest set of skills each of which depends on one of the set: those on
\* a cycle of the graph or behind one.
Stuck == UNION {S \in SUBSET Nodes : \A n \in S : Deps(n) \cap S # {}}

\* What the layers leave out are exactly the skills on a cycle or behind one;
\* a dependency on something outside the DAG holds nobody back.
OnlyCyclesLeftOut ==
  phase # "layering" =>
    \A n \in Nodes : n \in Stuck <=> \A i \in 1 .. Len(layers) : n \notin layers[i]

\* Never more than max_parallel skills are executing, over all layers.
AtMostMaxParallel == Cardinality({n \in Nodes : task[n] = "executing"}) <= MaxParallel

\* When the results are returned nothing is executing or waiting any more.
DoneMeansSettled ==
  phase = "done" => \A n \in Nodes : task[n] \in Settled \cup {"none"}

\* The refinement mapping: dependencies within the DAG, and the task of a skill
\* before, between and after its permit.
StateOf(n) == IF task[n] \in Settled THEN "ended"
              ELSE IF task[n] = "executing" THEN "running" ELSE "waiting"
Abstract == INSTANCE TaskGraph WITH
  needs <- [n \in Nodes |-> Deps(n)], state <- [n \in Nodes |-> StateOf(n)]

\* Skills run once, after what they depend on has ended, and every skill that
\* can run does, however many end badly: the scheduler implements TaskGraph.
ImplementsTaskGraph == Abstract!Spec
=============================================================================
