------------------------- MODULE DagSchedulerProofs -------------------------
(***************************************************************************)
(* What DagScheduler guarantees for every finite graph and every bound.    *)
(*                                                                         *)
(* The layering rests on one fact: in_degree counts the dependencies that  *)
(* are not placed yet, so the layer found last holds exactly the skills    *)
(* that may be placed next (Counted).  The execution rests on another:     *)
(* all layers before the running one have settled, and its semaphore has   *)
(* given a permit to exactly the skills that are executing (Paced).        *)
(***************************************************************************)
EXTENDS DagScheduler, FiniteSetTheorems, TLAPS

Placed    == {n \in Nodes : \E i \in 1 .. Len(layers) : n \in layers[i]}
Executing == {n \in Nodes : task[n] = "executing"}
Closed(S) == \A n \in S : Deps(n) \cap S # {}

Counted ==
  /\ \A n \in Nodes : inDegree[n] = Cardinality(Deps(n) \ Placed)
  /\ current = {n \in Nodes \ Placed : Deps(n) \subseteq Placed}

Fresh == Len(layers) > 0 => \A n \in current : Deps(n) \cap layers[Len(layers)] # {}

ClosedOut == \A S \in SUBSET Nodes : Closed(S) => S \cap Placed = {}

GraphInv == Counted /\ Fresh /\ Layered /\ ClosedOut

Paced ==
  /\ phase = "layering" => turn = 0
  /\ phase # "layering" => current = {}
  /\ \A n \in Nodes : task[n] # "none" => \E i \in 1 .. turn : n \in layers[i]
  /\ \A i \in 1 .. turn : \A n \in layers[i] :
       task[n] # "none" /\ (i < turn => task[n] \in Settled)
  /\ turn > 0 => permits + Cardinality(Executing) = MaxParallel
  /\ phase = "done" => turn = Len(layers) /\ LayerEnded

SchedInv == TypeOK /\ GraphInv /\ Paced

-----------------------------------------------------------------------------
(* The layers *)

\* The edges into a skill are finitely many.
LEMMA DepsFinite ==
  ASSUME NEW n \in Nodes
  PROVE  /\ IsFiniteSet(Deps(n))
         /\ Deps(n) \subseteq Nodes
         /\ \A T : IsFiniteSet(Deps(n) \ T) /\ Cardinality(Deps(n) \ T) \in Nat
<1>1. Deps(n) \subseteq Nodes
  BY DEF Deps
<1>2. IsFiniteSet(Deps(n))
  BY <1>1, NodesAssumption, FS_Subset
<1>3. ASSUME NEW T
      PROVE  IsFiniteSet(Deps(n) \ T) /\ Cardinality(Deps(n) \ T) \in Nat
  BY <1>2, FS_Difference, FS_CardinalityType
<1> QED BY <1>1, <1>2, <1>3

\* A turn of the loop appends the layer it has found, and places its skills.
LEMMA LayerAppended ==
  ASSUME TypeOK, AddLayer
  PROVE  /\ Len(layers') = Len(layers) + 1
         /\ Len(layers) \in Nat
         /\ \A i \in 1 .. Len(layers) : layers'[i] = layers[i]
         /\ layers'[Len(layers) + 1] = current
         /\ Placed' = Placed \cup current
         /\ \A n : Deps(n)' = Deps(n)
<1>1. /\ layers \in Seq(SUBSET Nodes)
      /\ current \in SUBSET Nodes
      /\ layers' = Append(layers, current)
      /\ dependsOn' = dependsOn
  BY DEF TypeOK, AddLayer
<1>2. /\ Len(layers') = Len(layers) + 1
      /\ Len(layers) \in Nat
      /\ \A i \in 1 .. Len(layers) : layers'[i] = layers[i]
      /\ layers'[Len(layers) + 1] = current
  BY <1>1
<1>3. Placed' = Placed \cup current
  BY <1>1, <1>2 DEF Placed
<1> QED BY <1>1, <1>2, <1>3 DEF Deps

\* The loop keeps in_degree equal to the number of unplaced dependencies, and
\* finds exactly the skills that can be placed next.
LEMMA CountedStep ==
  ASSUME TypeOK, Counted, Layered, AddLayer
  PROVE  Counted'
<1>1. /\ Placed' = Placed \cup current
      /\ \A n : Deps(n)' = Deps(n)
  BY LayerAppended
<1>2. /\ current = {n \in Nodes \ Placed : Deps(n) \subseteq Placed}
      /\ current \cap Placed = {}
  BY DEF Counted
<1>3. ASSUME NEW n \in Nodes
      PROVE  inDegree'[n] = Cardinality(Deps(n) \ Placed')
  <2>1. inDegree'[n] = Cardinality(Deps(n) \ Placed) - Cardinality(Deps(n) \cap current)
    BY DEF AddLayer, Counted
  <2>2. /\ (Deps(n) \ Placed) \cap current = Deps(n) \cap current
        /\ (Deps(n) \ Placed) \ current = Deps(n) \ Placed'
    BY <1>1, <1>2
  <2>3. Cardinality((Deps(n) \ Placed) \ current)
          = Cardinality(Deps(n) \ Placed) - Cardinality((Deps(n) \ Placed) \cap current)
    BY DepsFinite, FS_Difference
  <2> QED BY <2>1, <2>2, <2>3
<1>4. ASSUME NEW n \in Nodes
      PROVE  inDegree'[n] = 0 <=> Deps(n) \subseteq Placed'
  <2>1. IsFiniteSet(Deps(n) \ Placed')
    BY DepsFinite
  <2>2. Cardinality(Deps(n) \ Placed') = 0 <=> Deps(n) \ Placed' = {}
    BY <2>1, FS_EmptySet
  <2> QED BY <1>3, <2>2
<1>5. \A n \in Placed : Deps(n) \subseteq Placed
  BY DEF Layered, Placed, Deps, TypeOK
<1>6. current' = {n \in Nodes : Deps(n) \cap current # {} /\ inDegree'[n] = 0}
  BY DEF AddLayer
<1>7. current' = {n \in Nodes \ Placed' : Deps(n) \subseteq Placed'}
  <2>1. ASSUME NEW n \in Nodes, Deps(n) \cap current # {}, Deps(n) \subseteq Placed'
        PROVE  n \notin Placed'
    BY <2>1, <1>1, <1>2, <1>5
  <2>2. ASSUME NEW n \in Nodes, n \notin Placed', Deps(n) \subseteq Placed'
        PROVE  Deps(n) \cap current # {}
    BY <2>2, <1>1, <1>2
  <2> QED BY <1>4, <1>6, <2>1, <2>2
<1> QED BY <1>1, <1>3, <1>7 DEF Counted

\* The new layer is after the dependencies of its skills and no later than
\* that asks for.
LEMMA LayeredStep ==
  ASSUME TypeOK, Counted, Fresh, Layered, AddLayer
  PROVE  Layered'
<1> DEFINE L == Len(layers)
<1>1. /\ Len(layers') = L + 1
      /\ L \in Nat
      /\ \A i \in 1 .. L : layers'[i] = layers[i]
      /\ layers'[L + 1] = current
      /\ \A n : Deps(n)' = Deps(n)
  BY LayerAppended
<1>2. /\ \A i \in 1 .. L : layers[i] \cap current = {}
      /\ \A n \in current : \A d \in Deps(n) : \E j \in 1 .. L : d \in layers[j]
      /\ current \subseteq Nodes
  BY DEF Counted, Placed, TypeOK
<1>3. ASSUME NEW i \in 1 .. L + 1, NEW n \in layers'[i]
      PROVE  /\ \A j \in 1 .. L + 1 : n \in layers'[j] => j = i
             /\ \A d \in Deps(n) : \E j \in 1 .. i - 1 : d \in layers'[j]
             /\ i > 1 => Deps(n) \cap layers'[i - 1] # {}
  <2>1. CASE i = L + 1
    <3>1. n \in current
      BY <1>1, <2>1
    <3>2. \A j \in 1 .. L + 1 : n \in layers'[j] => j = i
      BY <1>1, <1>2, <2>1, <3>1
    <3>3. \A d \in Deps(n) : \E j \in 1 .. i - 1 : d \in layers'[j]
      BY <1>1, <1>2, <2>1, <3>1
    <3>4. i > 1 => Deps(n) \cap layers'[i - 1] # {}
      BY <1>1, <2>1, <3>1 DEF Fresh
    <3> QED BY <3>2, <3>3, <3>4
  <2>2. CASE i \in 1 .. L
    <3>1. n \in layers[i]
      BY <1>1, <2>2
    <3>2. \A j \in 1 .. L + 1 : n \in layers'[j] => j = i
      <4>1. \A j \in 1 .. L : n \in layers[j] => j = i
        BY <2>2, <3>1 DEF Layered
      <4>2. n \notin layers'[L + 1]
        BY <1>1, <1>2, <2>2, <3>1
      <4>3. \A j \in 1 .. L + 1 : j \in 1 .. L \/ j = L + 1
        BY <1>1
      <4> QED BY <1>1, <4>1, <4>2, <4>3
    <3>3. \A d \in Deps(n) : \E j \in 1 .. i - 1 : d \in layers[j]
      BY <2>2, <3>1 DEF Layered
    <3>4. i > 1 => Deps(n) \cap layers[i - 1] # {}
      BY <2>2, <3>1 DEF Layered
    <3>5. \A j \in 1 .. i - 1 : layers'[j] = layers[j]
      BY <1>1, <2>2
    <3>6. i > 1 => i - 1 \in 1 .. i - 1
      BY <2>2, <1>1
    <3> QED BY <3>2, <3>3, <3>4, <3>5, <3>6
  <2> QED BY <1>1, <2>1, <2>2
<1> QED BY <1>1, <1>3 DEF Layered

\* A set of skills that depend on one another stays out of the layers.
LEMMA ClosedOutStep ==
  ASSUME TypeOK, Counted, ClosedOut, AddLayer
  PROVE  ClosedOut'
<1>1. /\ Placed' = Placed \cup current
      /\ \A n : Deps(n)' = Deps(n)
  BY LayerAppended
<1>2. ASSUME NEW S \in SUBSET Nodes, Closed(S)
      PROVE  S \cap Placed' = {}
  <2>1. S \cap Placed = {}
    BY <1>2 DEF ClosedOut
  <2>2. ASSUME NEW n \in S, n \in current PROVE FALSE
    <3>1. Deps(n) \subseteq Placed
      BY <2>2 DEF Counted
    <3> QED BY <1>2, <2>1, <3>1 DEF Closed
  <2> QED BY <1>1, <2>1, <2>2
<1>3. \A S : Closed(S)' <=> Closed(S)
  BY <1>1 DEF Closed
<1> QED BY <1>2, <1>3 DEF ClosedOut

\* The graph part of the invariant holds before the first layer ...
LEMMA GraphInit == Init => TypeOK /\ GraphInv
<1> SUFFICES ASSUME Init PROVE TypeOK /\ GraphInv
  OBVIOUS
<1>1. Placed = {}
  BY DEF Init, Placed
<1>2. \A n \in Nodes : Deps(n) \ Placed = Deps(n)
  BY <1>1
<1>3. \A n \in Nodes : inDegree[n] = Cardinality(Deps(n)) /\ inDegree[n] \in Nat
  BY <1>2, DepsFinite DEF Init, InDegrees
<1>4. \A n \in Nodes : inDegree[n] = 0 <=> Deps(n) = {}
  BY <1>3, DepsFinite, FS_EmptySet
<1>5. current = {n \in Nodes : Deps(n) = {}}
  BY <1>4 DEF Init
<1>6. Counted
  BY <1>1, <1>2, <1>3, <1>5 DEF Counted
<1>7. Fresh /\ Layered /\ ClosedOut
  BY <1>1 DEF Init, Fresh, Layered, ClosedOut
<1>8. inDegree \in [Nodes -> Nat]
  BY <1>3 DEF Init, InDegrees
<1>9. TypeOK
  BY <1>5, <1>8, ParallelAssumption DEF Init, TypeOK, Settled
<1> QED BY <1>6, <1>7, <1>9 DEF GraphInv

\* ... after each turn of the loop, ...
LEMMA GraphStep ==
  ASSUME TypeOK, GraphInv, AddLayer
  PROVE  GraphInv'
<1>1. Counted' /\ Layered' /\ ClosedOut'
  BY CountedStep, LayeredStep, ClosedOutStep DEF GraphInv
<1>2. Fresh'
  <2>1. /\ Len(layers') = Len(layers) + 1
        /\ layers'[Len(layers) + 1] = current
        /\ \A n : Deps(n)' = Deps(n)
    BY LayerAppended
  <2>2. \A n \in current' : Deps(n) \cap current # {}
    BY DEF AddLayer
  <2> QED BY <2>1, <2>2 DEF Fresh
<1> QED BY <1>1, <1>2 DEF GraphInv

\* ... and whatever else happens, since the loop's variables are left alone.
LEMMA GraphKept ==
  ASSUME GraphInv, UNCHANGED <<dependsOn, inDegree, current, layers>>
  PROVE  GraphInv' /\ Placed' = Placed
<1>1. Placed' = Placed
  BY DEF Placed
<1>2. \A n : Deps(n)' = Deps(n)
  BY DEF Deps
<1>3. Counted'
  BY <1>1, <1>2 DEF GraphInv, Counted
<1>4. Fresh'
  BY <1>2 DEF GraphInv, Fresh
<1>5. Layered'
  BY <1>2 DEF GraphInv, Layered
<1>6. ClosedOut'
  BY <1>1, <1>2 DEF GraphInv, ClosedOut, Closed
<1> QED BY <1>1, <1>3, <1>4, <1>5, <1>6 DEF GraphInv

-----------------------------------------------------------------------------
(* The execution *)

\* Only the running layer has queued or executing skills, and only before the
\* results are returned.
LEMMA Running ==
  ASSUME SchedInv, NEW n \in Nodes, task[n] \in {"queued", "executing"}
  PROVE  /\ phase = "running"
         /\ turn > 0
         /\ n \in layers[turn]
         /\ permits + Cardinality(Executing) = MaxParallel
<1>1. task[n] # "none" /\ task[n] \notin Settled
  BY DEF Settled
<1>2. PICK i \in 1 .. turn : n \in layers[i]
  BY <1>1 DEF SchedInv, Paced
<1>3. turn \in Nat /\ i = turn
  BY <1>1, <1>2 DEF SchedInv, Paced, TypeOK
<1>4. turn > 0
  BY <1>3
<1>5. phase \in {"layering", "running", "done"}
  BY DEF SchedInv, TypeOK
<1>6. phase # "layering"
  BY <1>4 DEF SchedInv, Paced
<1>7. phase # "done"
  BY <1>1, <1>2, <1>3, <1>4 DEF SchedInv, Paced, LayerEnded
<1> QED BY <1>2, <1>3, <1>4, <1>5, <1>6, <1>7 DEF SchedInv, Paced

\* The executing skills can be counted.
LEMMA ExecutingFinite == IsFiniteSet(Executing) /\ Cardinality(Executing) \in Nat
<1>1. Executing \subseteq Nodes
  BY DEF Executing
<1> QED BY <1>1, NodesAssumption, FS_Subset, FS_CardinalityType

\* A layer starts with every earlier one settled, so its semaphore is the only
\* one anybody holds a permit of.
LEMMA NextLayerStep ==
  ASSUME SchedInv, NextLayer
  PROVE  SchedInv'
<1>1. /\ turn \in Nat
      /\ turn < Len(layers)
      /\ Len(layers) \in Nat
      /\ turn' = turn + 1
      /\ layers' = layers
      /\ task \in [Nodes -> {"none", "queued", "executing"} \cup Settled]
      /\ layers[turn + 1] \in SUBSET Nodes
  BY DEF SchedInv, TypeOK, NextLayer
<1>2. GraphInv'
  BY GraphKept DEF NextLayer, SchedInv
<1>3. TypeOK'
  <2>1. task' \in [Nodes -> {"none", "queued", "executing"} \cup Settled]
    BY <1>1 DEF NextLayer
  <2>2. turn' \in 0 .. Len(layers') /\ permits' \in 0 .. MaxParallel
    BY <1>1, ParallelAssumption DEF NextLayer
  <2> QED BY <2>1, <2>2 DEF NextLayer, SchedInv, TypeOK
<1>4. ASSUME NEW i \in 1 .. turn, NEW n \in layers[i]
      PROVE  task'[n] = task[n] /\ task[n] \in Settled /\ n \in Nodes
  <2>1. i \in 1 .. Len(layers) /\ turn + 1 \in 1 .. Len(layers) /\ i # turn + 1
    BY <1>1
  <2>2. n \notin layers[turn + 1]
    BY <2>1 DEF SchedInv, GraphInv, Layered
  <2>3. n \in Nodes
    BY <2>1 DEF SchedInv, TypeOK
  <2>4. task[n] \in Settled
    BY <1>1 DEF SchedInv, Paced, NextLayer, LayerEnded
  <2> QED BY <2>2, <2>3, <2>4 DEF NextLayer
<1>5. \A n \in layers[turn + 1] : task'[n] = "queued"
  BY <1>1 DEF NextLayer
<1>6. ASSUME NEW n \in Nodes, task'[n] # "none"
      PROVE  \E i \in 1 .. turn' : n \in layers'[i]
  <2>1. CASE n \in layers[turn + 1]
    BY <1>1, <2>1
  <2>2. CASE n \notin layers[turn + 1]
    <3>1. task[n] # "none"
      BY <1>6, <2>2 DEF NextLayer
    <3>2. PICK i \in 1 .. turn : n \in layers[i]
      BY <3>1 DEF SchedInv, Paced
    <3> QED BY <1>1, <3>2
  <2> QED BY <2>1, <2>2
<1>7. \A i \in 1 .. turn' : \A n \in layers'[i] :
        task'[n] # "none" /\ (i < turn' => task'[n] \in Settled)
  BY <1>1, <1>4, <1>5 DEF Settled
<1>8. Executing' = {}
  <2>1. SUFFICES ASSUME NEW n \in Nodes, task'[n] = "executing" PROVE FALSE
    BY DEF Executing
  <2>2. PICK i \in 1 .. turn' : n \in layers'[i]
    BY <1>6, <2>1
  <2>3. i \in 1 .. turn \/ i = turn + 1
    BY <1>1, <2>2
  <2> QED BY <1>1, <1>4, <1>5, <2>1, <2>2, <2>3 DEF Settled
<1>9. permits' + Cardinality(Executing') = MaxParallel
  BY <1>8, FS_EmptySet, ParallelAssumption DEF NextLayer
<1>10. phase' = "running" /\ current' = {}
  BY DEF NextLayer, SchedInv, Paced
<1>11. Paced'
  BY <1>6, <1>7, <1>9, <1>10 DEF Paced
<1> QED BY <1>2, <1>3, <1>11 DEF SchedInv

\* A skill that takes a permit or gives it back moves no other skill, and keeps
\* the permits and the executing skills in balance.
LEMMA NodeStepKept ==
  ASSUME SchedInv, NEW n \in Nodes, NodeStep(n)
  PROVE  SchedInv'
<1>1. /\ task \in [Nodes -> {"none", "queued", "executing"} \cup Settled]
      /\ permits \in 0 .. MaxParallel
      /\ turn \in Nat
      /\ MaxParallel \in Nat
  BY ParallelAssumption DEF SchedInv, TypeOK
<1>2. task[n] \in {"queued", "executing"}
  BY DEF NodeStep, ExecuteNode, NodeEnds
<1>3. /\ phase = "running"
      /\ n \in layers[turn]
      /\ permits + Cardinality(Executing) = MaxParallel
  BY <1>2, Running
<1>4. /\ UNCHANGED <<dependsOn, phase, inDegree, current, layers, turn>>
      /\ \A m \in Nodes : m # n => task'[m] = task[m]
      /\ task'[n] \in {"executing"} \cup Settled
      /\ task' \in [Nodes -> {"none", "queued", "executing"} \cup Settled]
  BY <1>1 DEF NodeStep, ExecuteNode, NodeEnds, Settled
<1>5. permits' \in 0 .. MaxParallel /\ permits' + Cardinality(Executing') = MaxParallel
  <2>1. CASE ExecuteNode(n)
    <3>1. Executing' = Executing \cup {n} /\ n \notin Executing
      BY <1>1, <2>1 DEF ExecuteNode, Executing
    <3>2. Cardinality(Executing') = Cardinality(Executing) + 1
      BY <3>1, ExecutingFinite, FS_AddElement
    <3>3. permits' = permits - 1 /\ permits > 0
      BY <2>1 DEF ExecuteNode
    <3> QED BY <1>1, <1>3, <3>2, <3>3, ExecutingFinite
  <2>2. ASSUME NEW outcome \in Settled, NodeEnds(n, outcome)
        PROVE  permits' \in 0 .. MaxParallel /\ permits' + Cardinality(Executing') = MaxParallel
    <3>1. Executing' = Executing \ {n} /\ n \in Executing
      BY <1>1, <2>2 DEF NodeEnds, Executing, Settled
    <3>2. Cardinality(Executing') = Cardinality(Executing) - 1
      BY <3>1, ExecutingFinite, FS_RemoveElement
    <3>3. Cardinality(Executing') \in Nat
      BY <3>1, ExecutingFinite, FS_RemoveElement, FS_CardinalityType
    <3>4. permits' = permits + 1
      BY <2>2 DEF NodeEnds
    <3> QED BY <1>1, <1>3, <3>2, <3>3, <3>4, ExecutingFinite
  <2> QED BY <2>1, <2>2 DEF NodeStep
<1>6. GraphInv'
  BY <1>4, GraphKept DEF SchedInv
<1>7. TypeOK'
  BY <1>4, <1>5 DEF SchedInv, TypeOK
<1>8. \A m \in Nodes : task'[m] # "none" => \E i \in 1 .. turn' : m \in layers'[i]
  <2>1. \A m \in Nodes : task'[m] # "none" => task[m] # "none"
    BY <1>2, <1>4
  <2> QED BY <1>4, <2>1 DEF SchedInv, Paced
<1>9. ASSUME NEW i \in 1 .. turn, NEW m \in layers[i]
      PROVE  task'[m] # "none" /\ (i < turn => task'[m] \in Settled)
  <2>1. m \in Nodes
    BY <1>1 DEF SchedInv, TypeOK
  <2>2. CASE m = n
    <3>1. task'[m] # "none"
      BY <1>4, <2>2 DEF Settled
    <3>2. ~(i < turn)
      BY <1>2, <2>2 DEF SchedInv, Paced, Settled
    <3> QED BY <3>1, <3>2
  <2>3. CASE m # n
    BY <1>4, <2>1, <2>3 DEF SchedInv, Paced
  <2> QED BY <2>2, <2>3
<1>10. Paced'
  BY <1>3, <1>4, <1>5, <1>8, <1>9 DEF SchedInv, Paced
<1> QED BY <1>6, <1>7, <1>10 DEF SchedInv

-----------------------------------------------------------------------------
(* The theorems *)

\* The invariant holds before the first layer is found.
LEMMA SchedInvInit == Init => SchedInv
<1> SUFFICES ASSUME Init PROVE SchedInv
  OBVIOUS
<1>1. TypeOK /\ GraphInv
  BY GraphInit
<1>2. Paced
  BY DEF Init, Paced
<1> QED BY <1>1, <1>2 DEF SchedInv

\* Every step keeps it.
LEMMA SchedInvStep == SchedInv /\ [Next]_vars => SchedInv'
<1> SUFFICES ASSUME SchedInv, [Next]_vars PROVE SchedInv'
  OBVIOUS
<1>1. CASE UNCHANGED vars
  <2>1. GraphInv' /\ TypeOK'
    BY <1>1, GraphKept DEF vars, SchedInv, TypeOK
  <2>2. Paced'
    BY <1>1 DEF vars, SchedInv, Paced, Executing, LayerEnded
  <2> QED BY <2>1, <2>2 DEF SchedInv
<1>2. CASE AddLayer
  <2>1. GraphInv'
    BY <1>2, GraphStep DEF SchedInv
  <2>2. /\ Len(layers') = Len(layers) + 1
        /\ Len(layers) \in Nat
        /\ \A n : Deps(n)' = Deps(n)
    BY <1>2, LayerAppended DEF SchedInv
  <2>3. inDegree' \in [Nodes -> Nat]
    <3>1. \A n \in Nodes : inDegree'[n] \in Nat
      BY <2>1, <2>2, DepsFinite DEF GraphInv, Counted
    <3> QED BY <1>2, <3>1 DEF AddLayer
  <2>4. TypeOK'
    BY <1>2, <2>2, <2>3 DEF AddLayer, SchedInv, TypeOK
  <2>5. turn' = 0 /\ turn = 0 /\ \A n \in Nodes : task[n] = "none" /\ task'[n] = "none"
    BY <1>2 DEF AddLayer, SchedInv, Paced
  <2>6. Paced'
    BY <1>2, <2>5 DEF AddLayer, Paced
  <2> QED BY <2>1, <2>4, <2>6 DEF SchedInv
<1>3. CASE EndLayering
  <2>1. GraphInv' /\ TypeOK'
    BY <1>3, GraphKept DEF EndLayering, SchedInv, TypeOK
  <2>2. Paced'
    BY <1>3 DEF EndLayering, SchedInv, Paced, Executing, LayerEnded
  <2> QED BY <2>1, <2>2 DEF SchedInv
<1>4. CASE NextLayer
  BY <1>4, NextLayerStep
<1>5. CASE Finish
  <2>1. GraphInv' /\ TypeOK'
    BY <1>5, GraphKept DEF Finish, SchedInv, TypeOK
  <2>2. Paced'
    BY <1>5 DEF Finish, SchedInv, Paced, Executing, LayerEnded
  <2> QED BY <2>1, <2>2 DEF SchedInv
<1>6. ASSUME NEW n \in Nodes, NodeStep(n) PROVE SchedInv'
  BY <1>6, NodeStepKept
<1> QED BY <1>1, <1>2, <1>3, <1>4, <1>5, <1>6 DEF Next

\* The layering counts right and the execution keeps pace with it.
THEOREM SchedInvariant == Spec => []SchedInv
<1> QED BY SchedInvInit, SchedInvStep, PTL DEF Spec

\* Every skill is listed once, after its dependencies and as early as they
\* allow, for every graph.
THEOREM LayersRight == Spec => []Layered
<1>1. SchedInv => Layered
  BY DEF SchedInv, GraphInv
<1> QED BY <1>1, SchedInvariant, PTL

\* The skills no layer lists are those on a cycle of the graph or behind one.
THEOREM CyclesLeftOut == Spec => []OnlyCyclesLeftOut
<1>1. ASSUME SchedInv, phase # "layering", NEW n \in Nodes
      PROVE  n \in Stuck <=> \A i \in 1 .. Len(layers) : n \notin layers[i]
  <2> DEFINE Rest == Nodes \ Placed
  <2>1. n \in Rest <=> \A i \in 1 .. Len(layers) : n \notin layers[i]
    BY DEF Placed
  <2>2. \A m \in Rest : Deps(m) \cap Rest # {}
    BY <1>1 DEF SchedInv, Paced, GraphInv, Counted, Deps
  <2>3. n \in Rest => n \in Stuck
    <3>1. Rest \in {S \in SUBSET Nodes : \A m \in S : Deps(m) \cap S # {}}
      BY <2>2
    <3> QED BY <3>1 DEF Stuck
  <2>4. n \in Stuck => n \in Rest
    BY <1>1 DEF Stuck, SchedInv, GraphInv, ClosedOut, Closed
  <2> QED BY <2>1, <2>3, <2>4
<1>2. SchedInv => OnlyCyclesLeftOut
  BY <1>1 DEF OnlyCyclesLeftOut
<1> QED BY <1>2, SchedInvariant, PTL

\* At most max_parallel skills execute at any time, over all layers.
THEOREM ParallelBound == Spec => []AtMostMaxParallel
<1>1. ASSUME SchedInv PROVE AtMostMaxParallel
  <2>1. CASE Executing = {}
    BY <2>1, FS_EmptySet, ParallelAssumption DEF Executing, AtMostMaxParallel
  <2>2. CASE Executing # {}
    <3>1. PICK n \in Nodes : task[n] = "executing"
      BY <2>2 DEF Executing
    <3>2. permits + Cardinality(Executing) = MaxParallel
      BY <3>1, Running, <1>1
    <3>3. permits \in Nat /\ MaxParallel \in Nat
      BY <1>1, ParallelAssumption DEF SchedInv, TypeOK
    <3> QED BY <3>2, <3>3, ExecutingFinite DEF Executing, AtMostMaxParallel
  <2> QED BY <2>1, <2>2
<1> QED BY <1>1, SchedInvariant, PTL

\* No skill is left queued or executing when the results are returned.
THEOREM Settling == Spec => []DoneMeansSettled
<1>1. ASSUME SchedInv, phase = "done", NEW n \in Nodes
      PROVE  task[n] \in Settled \cup {"none"}
  <2>1. task[n] \in {"none", "queued", "executing"} \cup Settled
    BY <1>1 DEF SchedInv, TypeOK
  <2>2. task[n] \notin {"queued", "executing"}
    BY <1>1, Running
  <2> QED BY <2>1, <2>2
<1>2. SchedInv => DoneMeansSettled
  BY <1>1 DEF DoneMeansSettled
<1> QED BY <1>2, SchedInvariant, PTL

\* The refinement's safety: a skill runs once, and not before every skill it
\* depends on has ended.
THEOREM RunsAfterDependencies == Spec => Abstract!Safe
<1> DEFINE needs == [n \in Nodes |-> Deps(n)]
           state == [n \in Nodes |-> StateOf(n)]
<1>1. Init => Abstract!Init
  <2> SUFFICES ASSUME Init PROVE Abstract!Init
    OBVIOUS
  <2>1. \A n \in Nodes : Deps(n) \subseteq Nodes
    BY DEF Deps
  <2>2. \A n \in Nodes : StateOf(n) = "waiting"
    BY DEF Init, StateOf, Settled
  <2> QED BY <2>1, <2>2 DEF Abstract!Init
<1>2. ASSUME SchedInv, [Next]_vars PROVE [Abstract!Next]_<<needs, state>>
  <2>1. needs' = needs
    BY <1>2 DEF Next, vars, AddLayer, EndLayering, NextLayer, Finish, NodeStep, ExecuteNode,
                NodeEnds, Deps
  <2>2. CASE UNCHANGED task
    BY <2>1, <2>2 DEF StateOf
  <2>3. CASE NextLayer
    <3>1. ASSUME NEW n \in layers[turn + 1] PROVE task[n] = "none"
      <4>1. /\ turn \in Nat /\ turn + 1 \in 1 .. Len(layers)
            /\ layers[turn + 1] \in SUBSET Nodes
        BY <1>2, <2>3 DEF NextLayer, SchedInv, TypeOK
      <4>2. ASSUME NEW i \in 1 .. turn PROVE n \notin layers[i]
        <5>1. i \in 1 .. Len(layers) /\ i # turn + 1
          BY <4>1
        <5> QED BY <1>2, <3>1, <4>1, <5>1 DEF SchedInv, GraphInv, Layered
      <4> QED BY <1>2, <4>1, <4>2 DEF SchedInv, Paced
    <3>2. \A n \in Nodes : StateOf(n)' = StateOf(n)
      BY <2>3, <3>1 DEF NextLayer, StateOf, Settled
    <3> QED BY <2>1, <3>2
  <2>4. ASSUME NEW n \in Nodes, ExecuteNode(n) PROVE Abstract!Start(n)
    <3>1. task[n] = "queued"
      BY <2>4 DEF ExecuteNode
    <3>2. n \in layers[turn] /\ turn \in 1 .. Len(layers)
      BY <1>2, <3>1, Running DEF SchedInv, TypeOK
    <3>3. ASSUME NEW d \in Deps(n) PROVE task[d] \in Settled /\ d \in Nodes
      <4>1. PICK j \in 1 .. turn - 1 : d \in layers[j]
        BY <1>2, <3>2 DEF SchedInv, GraphInv, Layered
      <4>2. j \in 1 .. turn /\ j < turn
        BY <3>2
      <4> QED BY <1>2, <4>1, <4>2 DEF SchedInv, Paced, Deps
    <3>4. state[n] = "waiting" /\ \A d \in needs[n] : state[d] = "ended"
      BY <3>1, <3>3 DEF StateOf, Settled
    <3>5. state' = [state EXCEPT ![n] = "running"]
      BY <1>2, <2>4 DEF ExecuteNode, StateOf, Settled, SchedInv, TypeOK
    <3> QED BY <2>1, <3>4, <3>5 DEF Abstract!Start
  <2>5. ASSUME NEW n \in Nodes, NEW outcome \in Settled, NodeEnds(n, outcome)
        PROVE  Abstract!Finish(n)
    <3>1. state[n] = "running"
      BY <2>5 DEF NodeEnds, StateOf, Settled
    <3>2. state' = [state EXCEPT ![n] = "ended"]
      BY <1>2, <2>5 DEF NodeEnds, StateOf, Settled, SchedInv, TypeOK
    <3> QED BY <2>1, <3>1, <3>2 DEF Abstract!Finish
  <2> QED BY <1>2, <2>2, <2>3, <2>4, <2>5
          DEF Next, vars, AddLayer, EndLayering, Finish, NodeStep, Abstract!Next
<1> QED BY <1>1, <1>2, SchedInvariant, PTL DEF Spec, Abstract!Safe, Abstract!vars
=============================================================================
