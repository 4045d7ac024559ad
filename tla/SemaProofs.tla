----------------------------- MODULE SemaProofs -----------------------------
(***************************************************************************)
(* Proofs about the passes of the semantic analysis over whole programs: the *)
(* pipeline analysis, the propagation of priorities and the struct matcher, *)
(* for every graph, program, list of fields and limit.                     *)
(***************************************************************************)
EXTENDS PipelineDag, PriorityAnalysis, SmartStructMatcher, TLAPS, SequenceTheorems,
        FiniteSetTheorems, WellFoundedInduction

-----------------------------------------------------------------------------
(* The pipeline analysis.                                                  *)

(* The inductive invariant.                                                *)

\* The nodes already in topoOrder.
Taken == {order[i] : i \in 1..Len(order)}

\* The arrows whose target has been updated for them.
Relaxed == {e \in Arrows : source[e] \in Taken} \ todo

\* localInDeg counts exactly the arrows still to be relaxed.
DegreesCount == \A n \in Nodes : inDeg[n] = Cardinality(In(n) \ Relaxed)

\* A node waits or was taken exactly when no arrow holds it back.
QueueHoldsReady ==
  /\ \A n \in Nodes : (n \in queue \/ n \in Taken) <=> inDeg[n] = 0
  /\ queue \cap Taken = {}

\* Each node is in topoOrder at most once, after all of its predecessors.
OrderSoFar ==
  /\ Len(order) = Cardinality(Taken)
  /\ \A i, j \in 1..Len(order) : order[i] = order[j] => i = j
  /\ \A j \in 1..Len(order) : \A e \in In(order[j]) :
       \E i \in 1..Len(order) : i < j /\ order[i] = source[e]

\* Only arrows out of taken nodes are waiting to be relaxed.
TodoIsOut == \A e \in todo : source[e] \in Taken

\* The stages are right for the arrows relaxed so far.
StagesSoFar ==
  /\ \A e \in Relaxed : stage[source[e]] < stage[target[e]]
  /\ \A n \in Nodes : stage[n] = 0
       \/ \E e \in Relaxed : target[e] = n /\ stage[n] = stage[source[e]] + 1

SortInv == DegreesCount /\ QueueHoldsReady /\ OrderSoFar /\ TodoIsOut /\ StagesSoFar

\* Nothing has been sorted yet.
Untouched ==
  /\ queue = {} /\ order = <<>> /\ todo = {}
  /\ \A n \in Names : stage[n] = 0

\* The loop has ended.
Drained == SortInv /\ queue = {} /\ todo = {} /\ dagPc = "done"

DagInv ==
  /\ DagTypeOK
  /\ dagPc \in {"collect", "seed"} => Untouched
  /\ dagPc = "seed" => \A n \in Nodes : inDeg[n] = Cardinality(In(n))
  /\ dagPc = "sort" => SortInv
  /\ published => Drained /\ Len(order) = Cardinality(Nodes)
  /\ "cycle" \in errors => Drained /\ Len(order) # Cardinality(Nodes)

-----------------------------------------------------------------------------
(* Facts about the graph.                                                  *)

\* Where the nodes and the arrows come from.
LEMMA GraphFacts ==
  ASSUME source \in [EdgeIds -> Names], target \in [EdgeIds -> Names]
  PROVE  /\ Nodes \subseteq Names /\ Arrows \subseteq EdgeIds
         /\ \A e \in EdgeIds : source[e] \in Nodes
         /\ \A e \in Arrows : target[e] \in Nodes
BY DEF Nodes, Arrows

\* No step changes the graph.
LEMMA GraphFixed ==
  ASSUME [DagNext]_dagVars
  PROVE  /\ source' = source /\ target' = target
         /\ Nodes' = Nodes /\ Arrows' = Arrows /\ Terminal' = Terminal
         /\ \A n : In(n)' = In(n)
         /\ \A n : Out(n)' = Out(n)
<1>1. source' = source /\ target' = target
  BY DEF DagNext, CollectEdges, Seed, Take, Relax, FinishSort, dagVars, graph
<1>2. Terminal' = Terminal
  BY <1>1 DEF Terminal
<1>3. Arrows' = Arrows
  BY <1>2 DEF Arrows
<1>4. Nodes' = Nodes
  BY <1>1, <1>3 DEF Nodes
<1>5. \A n : In(n)' = In(n)
  BY <1>1, <1>3 DEF In
<1>6. \A n : Out(n)' = Out(n)
  BY <1>1, <1>3 DEF Out
<1> QED
  BY <1>1, <1>2, <1>3, <1>4, <1>5, <1>6

\* Every set of arrows is finite, and so is every set of nodes.
LEMMA GraphFinite ==
  ASSUME source \in [EdgeIds -> Names], target \in [EdgeIds -> Names]
  PROVE  /\ \A S : S \subseteq Arrows => IsFiniteSet(S) /\ Cardinality(S) \in Nat
         /\ \A S : S \subseteq Nodes => IsFiniteSet(S) /\ Cardinality(S) \in Nat
<1>1. \A S : S \subseteq EdgeIds => IsFiniteSet(S)
  BY GraphAssumption, FS_Subset
<1>2. \A S : S \subseteq Names => IsFiniteSet(S)
  BY GraphAssumption, FS_Subset
<1> QED
  BY <1>1, <1>2, GraphFacts, FS_CardinalityType

-----------------------------------------------------------------------------
(* The invariant holds at the start and is kept by every step.             *)

LEMMA DagInitInv == DagInit => DagInv
<1> SUFFICES ASSUME DagInit PROVE DagInv
  OBVIOUS
<1>1. DagTypeOK
  <2>1. <<>> \in Seq(Nodes)
    OBVIOUS
  <2>2. published \in BOOLEAN
    BY DEF DagInit
  <2> QED
    BY <2>1, <2>2 DEF DagInit, DagTypeOK
<1>2. Untouched
  BY DEF DagInit, Untouched
<1> QED
  BY <1>1, <1>2 DEF DagInit, DagInv

LEMMA DagCollectInv ==
  ASSUME DagInv, CollectEdges
  PROVE  DagInv'
<1> USE GraphFixed DEF DagNext
<1>1. \A n : Cardinality(In(n)) \in Nat
  BY GraphFinite DEF DagInv, DagTypeOK, In
<1>2. DagTypeOK'
  BY <1>1 DEF DagInv, DagTypeOK, CollectEdges, Degree
<1>3. Untouched'
  BY DEF DagInv, Untouched, CollectEdges
<1>4. (\A n \in Nodes : inDeg[n] = Cardinality(In(n)))'
  BY GraphFacts DEF DagInv, DagTypeOK, CollectEdges, Degree
<1> QED
  BY <1>2, <1>3, <1>4 DEF DagInv, CollectEdges, Drained

LEMMA SeedInv ==
  ASSUME DagInv, Seed
  PROVE  DagInv'
<1>a. Nodes' = Nodes /\ Arrows' = Arrows /\ source' = source /\ target' = target
      /\ \A n : In(n)' = In(n)
  BY GraphFixed DEF DagNext
<1>1. DagTypeOK'
  BY <1>a DEF DagInv, DagTypeOK, Seed
<1>2. ~published' /\ "cycle" \notin errors'
  BY DEF DagInv, Drained, Seed
<1>3. ASSUME dagPc' = "sort" PROVE SortInv'
  <2>1. /\ order' = <<>> /\ todo' = {} /\ queue' = {n \in Nodes : inDeg[n] = 0}
        /\ stage' = stage /\ inDeg' = inDeg
        /\ \A n \in Names : stage[n] = 0
    BY <1>3 DEF DagInv, Untouched, Seed
  <2>2. Taken' = {}
    BY <2>1 DEF Taken
  <2>3. Relaxed' = {}
    BY <2>1, <2>2 DEF Relaxed
  <2>4. DegreesCount'
    BY <1>a, <2>1, <2>3 DEF DegreesCount, DagInv, Seed
  <2>5. QueueHoldsReady'
    BY <1>a, <2>1, <2>2 DEF QueueHoldsReady
  <2>6. OrderSoFar'
    BY <2>1, <2>2, FS_EmptySet DEF OrderSoFar
  <2>7. TodoIsOut'
    BY <2>1 DEF TodoIsOut
  <2>8. StagesSoFar'
    BY <1>a, <2>1, <2>3, GraphFacts DEF StagesSoFar, DagInv, DagTypeOK
  <2> QED
    BY <2>4, <2>5, <2>6, <2>7, <2>8 DEF SortInv
<1> QED
  BY <1>1, <1>2, <1>3 DEF DagInv, Seed

\* Taking n puts it at the end of the order.
LEMMA TakeTaken ==
  ASSUME DagTypeOK, NEW n, Take(n)
  PROVE  /\ Taken' = Taken \cup {n}
         /\ Len(order') = Len(order) + 1
         /\ order'[Len(order) + 1] = n
         /\ \A i \in 1..Len(order) : order'[i] = order[i]
<1>1. /\ order \in Seq(Nodes) /\ order' = Append(order, n) /\ n \in Nodes
  BY DEF DagTypeOK, Take
<1>2. /\ Len(order') = Len(order) + 1 /\ Len(order) \in Nat
      /\ order'[Len(order) + 1] = n
      /\ \A i \in 1..Len(order) : order'[i] = order[i]
  BY <1>1
<1>3. Taken' = Taken \cup {n}
  BY <1>2 DEF Taken
<1> QED
  BY <1>2, <1>3
LEMMA TakeInv ==
  ASSUME DagInv, NEW n \in Names, Take(n)
  PROVE  DagInv'
<1>a. /\ DagTypeOK /\ SortInv /\ dagPc = "sort" /\ dagPc' = "sort" /\ todo = {}
      /\ n \in queue /\ n \in Nodes /\ queue' = queue \ {n} /\ todo' = Out(n)
      /\ inDeg' = inDeg /\ stage' = stage /\ errors' = errors
      /\ published' = published
  BY DEF DagInv, DagTypeOK, Take
<1>b. Nodes' = Nodes /\ Arrows' = Arrows /\ source' = source /\ target' = target
      /\ \A m : In(m)' = In(m)
  BY GraphFixed DEF DagNext
<1>c. /\ Taken' = Taken \cup {n} /\ Len(order') = Len(order) + 1
      /\ order'[Len(order) + 1] = n /\ Len(order) \in Nat
      /\ \A i \in 1..Len(order) : order'[i] = order[i]
  BY <1>a, TakeTaken DEF DagTypeOK
<1>d. n \notin Taken
  BY <1>a DEF SortInv, QueueHoldsReady
<1>e. Relaxed' = Relaxed
  BY <1>a, <1>b, <1>c, <1>d DEF Relaxed, Out
<1>1. DagTypeOK'
  <2>1. order' \in Seq(Nodes)
    BY <1>a DEF DagTypeOK, Take
  <2>2. Out(n) \subseteq Arrows
    BY DEF Out
  <2>3. published \in BOOLEAN
    BY <1>a DEF DagTypeOK
  <2> QED
    BY <1>a, <1>b, <2>1, <2>2, <2>3 DEF DagTypeOK
<1>2. DegreesCount'
  BY <1>a, <1>b, <1>e DEF SortInv, DegreesCount
<1>3. QueueHoldsReady'
  BY <1>a, <1>b, <1>c, <1>d DEF SortInv, QueueHoldsReady
<1>4. OrderSoFar'
  <2>1. Len(order') = Cardinality(Taken')
    <3>1. IsFiniteSet(Taken)
      <4>1. Taken \subseteq Nodes
        BY <1>a DEF DagTypeOK, Taken
      <4> QED
        BY <1>a, <4>1, GraphFinite DEF DagTypeOK
    <3>2. Cardinality(Taken \cup {n}) = Cardinality(Taken) + 1
      BY <1>d, <3>1, FS_AddElement
    <3> QED
      BY <1>a, <1>c, <3>2 DEF SortInv, OrderSoFar
  <2>2. \A i \in 1..Len(order) : order[i] \in Taken
    BY DEF Taken
  <2>3. \A i, j \in 1..Len(order') : order'[i] = order'[j] => i = j
    BY <1>a, <1>c, <1>d, <2>2 DEF SortInv, OrderSoFar
  <2>4. ASSUME NEW j \in 1..Len(order'), NEW e \in In(order'[j])
        PROVE  \E i \in 1..Len(order') : i < j /\ order'[i] = source[e]
    <3>1. CASE j = Len(order) + 1
      <4>1. inDeg[n] = 0
        BY <1>a DEF SortInv, QueueHoldsReady
      <4>2. In(n) \ Relaxed = {}
        <5>1. Cardinality(In(n) \ Relaxed) = 0
          BY <1>a, <4>1 DEF SortInv, DegreesCount
        <5>2. IsFiniteSet(In(n) \ Relaxed)
          BY <1>a, GraphFinite DEF DagTypeOK, In
        <5> QED
          BY <5>1, <5>2, FS_EmptySet
      <4>3. source[e] \in Taken
        BY <1>c, <3>1, <2>4, <4>2 DEF Relaxed
      <4>4. PICK i \in 1..Len(order) : order[i] = source[e]
        BY <4>3 DEF Taken
      <4> QED
        BY <1>c, <3>1, <4>4
    <3>2. CASE j # Len(order) + 1
      <4>1. j \in 1..Len(order) /\ order'[j] = order[j]
        BY <1>c, <3>2
      <4>2. PICK i \in 1..Len(order) : i < j /\ order[i] = source[e]
        BY <1>a, <4>1, <2>4 DEF SortInv, OrderSoFar
      <4> QED
        BY <1>c, <4>2
    <3> QED
      BY <3>1, <3>2
  <2> QED
    BY <1>b, <2>1, <2>3, <2>4 DEF OrderSoFar
<1>5. TodoIsOut'
  BY <1>a, <1>b, <1>c DEF TodoIsOut, Out
<1>6. StagesSoFar'
  BY <1>a, <1>b, <1>e DEF SortInv, StagesSoFar
<1>7. ~published /\ "cycle" \notin errors
  BY <1>a DEF DagInv, Drained
<1> QED
  BY <1>a, <1>1, <1>2, <1>3, <1>4, <1>5, <1>6, <1>7 DEF DagInv, SortInv

LEMMA RelaxInv ==
  ASSUME DagInv, NEW e \in EdgeIds, Relax(e)
  PROVE  DagInv'
<1> DEFINE t == target[e]
<1>a. /\ DagTypeOK /\ SortInv /\ dagPc = "sort" /\ dagPc' = "sort"
      /\ e \in todo /\ todo' = todo \ {e} /\ order' = order
      /\ stage' = [stage EXCEPT ![t] = NewStage(e)]
      /\ inDeg' = [inDeg EXCEPT ![t] = @ - 1]
      /\ queue' = IF inDeg[t] = 1 THEN queue \cup {t} ELSE queue
      /\ errors' = errors /\ published' = published
  BY DEF DagInv, DagTypeOK, Relax, Ready
<1>b. Nodes' = Nodes /\ Arrows' = Arrows /\ source' = source /\ target' = target
      /\ \A m : In(m)' = In(m)
  BY GraphFixed DEF DagNext
<1>c. /\ e \in Arrows /\ t \in Nodes /\ t \in Names /\ source[e] \in Nodes
      /\ source[e] \in Names /\ Nodes \subseteq Names
  BY <1>a, GraphFacts DEF DagTypeOK
<1>d. Taken' = Taken
  BY <1>a DEF Taken
<1>e. e \notin Relaxed /\ Relaxed' = Relaxed \cup {e}
  BY <1>a, <1>b, <1>c, <1>d DEF Relaxed, SortInv, TodoIsOut
<1>f. \A m \in Nodes : /\ IsFiniteSet(In(m) \ Relaxed)
                       /\ Cardinality(In(m) \ Relaxed) \in Nat
  BY <1>a, GraphFinite DEF DagTypeOK, In
<1>g. e \in In(t) \ Relaxed
  BY <1>c, <1>e DEF In
<1>h. inDeg[t] \in Nat /\ inDeg[t] # 0
  <2>1. In(t) \ Relaxed # {}
    BY <1>g
  <2> QED
    BY <1>a, <1>c, <1>f, <2>1, FS_EmptySet DEF SortInv, DegreesCount
\* The target has not been taken, nor does it wait.
<1>i. t \notin Taken /\ t \notin queue
  BY <1>a, <1>c, <1>h DEF SortInv, QueueHoldsReady
<1>j. /\ stage[source[e]] \in Nat /\ stage[t] \in Nat
      /\ stage'[t] = IF stage[source[e]] + 1 > stage[t]
                     THEN stage[source[e]] + 1 ELSE stage[t]
      /\ \A m \in Names : m # t => stage'[m] = stage[m]
      /\ \A m \in Names : stage[m] \in Nat
  BY <1>a, <1>c DEF DagTypeOK, NewStage
<1>1. DagTypeOK'
  <2>1. stage' \in [Names -> Nat]
    BY <1>a, <1>c, <1>j DEF DagTypeOK
  <2>2. inDeg' \in [Names -> Nat]
    BY <1>a, <1>c, <1>h DEF DagTypeOK
  <2>3. queue' \subseteq Nodes
    BY <1>a, <1>c DEF DagTypeOK
  <2>4. published \in BOOLEAN
    BY <1>a DEF DagTypeOK
  <2> QED
    BY <1>a, <1>b, <2>1, <2>2, <2>3, <2>4 DEF DagTypeOK
<1>2. DegreesCount'
  <2>1. ASSUME NEW m \in Nodes
        PROVE  inDeg'[m] = Cardinality(In(m) \ Relaxed')
    <3>1. CASE m = t
      <4>1. In(t) \ Relaxed' = (In(t) \ Relaxed) \ {e}
        BY <1>e
      <4>2. Cardinality((In(t) \ Relaxed) \ {e}) = Cardinality(In(t) \ Relaxed) - 1
        BY <1>c, <1>f, <1>g, FS_RemoveElement
      <4> QED
        BY <1>a, <1>c, <3>1, <4>1, <4>2 DEF SortInv, DegreesCount, DagTypeOK
    <3>2. CASE m # t
      <4>1. In(m) \ Relaxed' = In(m) \ Relaxed
        BY <1>e, <3>2 DEF In
      <4> QED
        BY <1>a, <1>c, <3>2, <4>1 DEF SortInv, DegreesCount, DagTypeOK
    <3> QED
      BY <3>1, <3>2
  <2> QED
    BY <1>b, <2>1 DEF DegreesCount
<1>3. QueueHoldsReady'
  <2>1. ASSUME NEW m \in Nodes
        PROVE  (m \in queue' \/ m \in Taken) <=> inDeg'[m] = 0
    <3>1. CASE m = t
      BY <1>a, <1>c, <1>h, <1>i, <3>1 DEF DagTypeOK
    <3>2. CASE m # t
      BY <1>a, <1>c, <3>2 DEF DagTypeOK, SortInv, QueueHoldsReady
    <3> QED
      BY <3>1, <3>2
  <2>2. queue' \cap Taken = {}
    BY <1>a, <1>i DEF SortInv, QueueHoldsReady
  <2> QED
    BY <1>b, <1>d, <2>1, <2>2 DEF QueueHoldsReady
<1>4. OrderSoFar'
  BY <1>a, <1>b, <1>d DEF SortInv, OrderSoFar
<1>5. TodoIsOut'
  BY <1>a, <1>b, <1>d DEF SortInv, TodoIsOut
<1>6. StagesSoFar'
  \* The stage of a taken node no longer changes.
  <2>1. \A f \in Relaxed' : f \in Arrows /\ source[f] \in Names /\ target[f] \in Names
                            /\ source[f] # t /\ stage'[source[f]] = stage[source[f]]
    BY <1>a, <1>b, <1>c, <1>d, <1>i, <1>j, GraphFacts DEF DagTypeOK, Relaxed
  <2>2. ASSUME NEW f \in Relaxed' PROVE stage'[source[f]] < stage'[target[f]]
    <3>1. CASE f = e
      BY <1>j, <2>1, <3>1
    <3>2. CASE f # e
      <4>1. f \in Relaxed /\ stage[source[f]] < stage[target[f]]
        BY <1>a, <1>e, <3>2 DEF SortInv, StagesSoFar
      <4>2. stage[target[f]] \in Nat /\ stage'[target[f]] \in Nat
        BY <1>j, <2>1
      <4>3. stage'[target[f]] >= stage[target[f]]
        BY <1>j, <2>1
      <4> QED
        BY <1>j, <2>1, <4>1, <4>2, <4>3
    <3> QED
      BY <3>1, <3>2
  <2>3. ASSUME NEW m \in Nodes, stage'[m] # 0
        PROVE  \E f \in Relaxed' : target[f] = m /\ stage'[m] = stage'[source[f]] + 1
    <3>1. CASE stage'[m] = stage[m]
      <4>1. PICK f \in Relaxed : target[f] = m /\ stage[m] = stage[source[f]] + 1
        BY <1>a, <2>3, <3>1 DEF SortInv, StagesSoFar
      <4> QED
        BY <1>e, <2>1, <3>1, <4>1
    <3>2. CASE stage'[m] # stage[m]
      <4>1. m = t /\ stage'[t] = stage[source[e]] + 1
        BY <1>c, <1>j, <3>2
      <4> QED
        BY <1>e, <2>1, <4>1
    <3> QED
      BY <3>1, <3>2
  <2> QED
    BY <1>b, <2>2, <2>3 DEF StagesSoFar
<1>7. ~published /\ "cycle" \notin errors
  BY <1>a DEF DagInv, Drained
<1> QED
  BY <1>a, <1>1, <1>2, <1>3, <1>4, <1>5, <1>6, <1>7 DEF DagInv, SortInv

LEMMA DagFinishInv ==
  ASSUME DagInv, FinishSort
  PROVE  DagInv'
<1>a. Nodes' = Nodes /\ Arrows' = Arrows /\ source' = source /\ target' = target
      /\ \A m : In(m)' = In(m)
  BY GraphFixed DEF DagNext
<1>b. /\ inDeg' = inDeg /\ queue' = queue /\ order' = order /\ stage' = stage
      /\ todo' = todo /\ queue = {} /\ todo = {} /\ dagPc' = "done" /\ SortInv
  BY DEF FinishSort, DagInv
<1>c. Taken' = Taken /\ Relaxed' = Relaxed
  BY <1>a, <1>b DEF Taken, Relaxed
<1>1. SortInv'
  BY <1>a, <1>b, <1>c
  DEF SortInv, DegreesCount, QueueHoldsReady, OrderSoFar, TodoIsOut, StagesSoFar
<1>2. Drained'
  BY <1>b, <1>1 DEF Drained
<1>3. DagTypeOK'
  <2>1. published' \in BOOLEAN
    BY DEF FinishSort, DagInv, DagTypeOK
  <2> QED
    BY <1>a, <1>b, <2>1 DEF FinishSort, DagInv, DagTypeOK
<1>4. ~published /\ "cycle" \notin errors
  BY DEF FinishSort, DagInv, Drained
<1>5. published' => Len(order') = Cardinality(Nodes')
  BY <1>a, <1>b, <1>4 DEF FinishSort, AllOrdered
<1>6. "cycle" \in errors' => Len(order') # Cardinality(Nodes')
  BY <1>a, <1>b, <1>4 DEF FinishSort, AllOrdered
<1> QED
  BY <1>b, <1>2, <1>3, <1>5, <1>6 DEF DagInv
\* DagInv is inductive.
LEMMA StepInv == DagInv /\ [DagNext]_dagVars => DagInv'
<1> SUFFICES ASSUME DagInv, [DagNext]_dagVars PROVE DagInv'
  OBVIOUS
<1>1. CASE CollectEdges
  BY <1>1, DagCollectInv
<1>2. CASE Seed
  BY <1>2, SeedInv
<1>3. ASSUME NEW n \in Names, Take(n) PROVE DagInv'
  BY <1>3, TakeInv
<1>4. ASSUME NEW e \in EdgeIds, Relax(e) PROVE DagInv'
  BY <1>4, RelaxInv
<1>5. CASE FinishSort
  BY <1>5, DagFinishInv
<1>6. CASE UNCHANGED dagVars
  <2>1. /\ Nodes' = Nodes /\ Arrows' = Arrows /\ source' = source
        /\ target' = target /\ \A m : In(m)' = In(m)
    BY GraphFixed
  <2>2. /\ dagPc' = dagPc /\ inDeg' = inDeg /\ queue' = queue /\ order' = order
        /\ stage' = stage /\ todo' = todo /\ errors' = errors
        /\ published' = published
    BY <1>6 DEF dagVars
  <2>3. Taken' = Taken /\ Relaxed' = Relaxed
    BY <2>1, <2>2 DEF Taken, Relaxed
  <2>4. SortInv => SortInv'
    BY <2>1, <2>2, <2>3
    DEF SortInv, DegreesCount, QueueHoldsReady, OrderSoFar, TodoIsOut, StagesSoFar
  <2>5. DagTypeOK'
    <3>1. published \in BOOLEAN
      BY DEF DagInv, DagTypeOK
    <3> QED
      BY <2>1, <2>2, <3>1 DEF DagInv, DagTypeOK
  <2> QED
    BY <2>1, <2>2, <2>4, <2>5 DEF DagInv, Drained, Untouched
<1> QED
  BY <1>1, <1>2, <1>3, <1>4, <1>5, <1>6 DEF DagNext

\* The inductive invariant holds in every reachable state.
THEOREM DagInvariance == DagSpec => []DagInv
<1>1. DagInit => DagInv
  BY DagInitInv
<1>2. DagInv /\ [DagNext]_dagVars => DagInv'
  BY StepInv
<1> QED
  BY <1>1, <1>2, PTL DEF DagSpec

-----------------------------------------------------------------------------
(* What it implies.                                                        *)

\* Every node that is held back has a predecessor that is held back.
LEMMA HeldBack ==
  ASSUME DagInv, "cycle" \in errors
  PROVE  Knot(Nodes \ Taken)
<1>a. DagTypeOK /\ Drained /\ Len(order) # Cardinality(Nodes)
  BY DEF DagInv
<1>1. Nodes \ Taken # {}
  <2>1. Taken \subseteq Nodes
    BY <1>a DEF DagTypeOK, Taken
  <2>2. Taken # Nodes
    BY <1>a DEF Drained, SortInv, OrderSoFar
  <2> QED
    BY <2>1, <2>2
<1>2. ASSUME NEW n \in Nodes \ Taken
      PROVE  \E e \in In(n) : source[e] \in Nodes \ Taken
  <2>1. inDeg[n] # 0
    BY <1>a DEF Drained, SortInv, QueueHoldsReady
  <2>2. In(n) \ Relaxed # {}
    BY <1>a, <2>1, FS_EmptySet DEF Drained, SortInv, DegreesCount
  <2>3. PICK e \in In(n) : e \notin Relaxed
    BY <2>2
  <2>4. e \in Arrows /\ source[e] \in Nodes
    BY <1>a, GraphFacts DEF DagTypeOK, In
  <2> QED
    BY <1>a, <2>3, <2>4 DEF Relaxed, Drained
<1> QED
  BY <1>1, <1>2 DEF Knot

\* Once all nodes are in topoOrder, every arrow has been relaxed.
LEMMA AllTaken ==
  ASSUME DagInv, published
  PROVE  /\ DagTypeOK /\ SortInv /\ Taken = Nodes
         /\ \A n \in Nodes : In(n) \subseteq Relaxed
<1>a. DagTypeOK /\ Drained /\ Len(order) = Cardinality(Nodes)
  BY DEF DagInv
<1>1. Taken = Nodes
  <2>1. Taken \subseteq Nodes /\ IsFiniteSet(Nodes)
    BY <1>a, GraphFinite DEF DagTypeOK, Taken
  <2>2. Cardinality(Taken) = Cardinality(Nodes)
    BY <1>a DEF Drained, SortInv, OrderSoFar
  <2> QED
    BY <2>1, <2>2, FS_Subset
<1>2. \A n \in Nodes : In(n) \subseteq Relaxed
  BY <1>a, <1>1, GraphFacts DEF DagTypeOK, Relaxed, Drained, In
<1> QED
  BY <1>a, <1>1, <1>2 DEF Drained

\* A nonempty set of nodes has one whose stage is lowest.
LEMMA LowestStage ==
  ASSUME stage \in [Names -> Nat], NEW S, S \subseteq Names, S # {}
  PROVE  \E n \in S : \A m \in S : stage[n] <= stage[m]
<1> DEFINE T == {stage[n] : n \in S}
<1>1. T \subseteq Nat /\ T # {}
  OBVIOUS
<1>2. PICK k \in T : \A l \in T : ~(<<l, k>> \in OpToRel(<, Nat))
  BY <1>1, NatLessThanWellFounded, WFMin
<1>3. ASSUME NEW l \in T PROVE k <= l
  <2>1. k \in Nat /\ l \in Nat
    BY <1>1
  <2>2. l < k => <<l, k>> \in OpToRel(<, Nat)
    BY <2>1 DEF OpToRel
  <2>3. ~(l < k)
    <3> HIDE DEF T
    <3> QED
      BY <1>2, <1>3, <2>2
  <2> QED
    BY <2>1, <2>3
<1> QED
  BY <1>2, <1>3

\* The pipeline analysis keeps its variables in their types; in particular
\* localInDeg never becomes negative, however often an arrow is repeated.
THEOREM DagTypeCorrect == DagSpec => []DagTypeOK
<1>1. DagInv => DagTypeOK
  BY DEF DagInv
<1> QED
  BY <1>1, DagInvariance, PTL

\* A pipeline is reported to contain a cycle only if it does.
THEOREM NoFalseCycle == DagSpec => []CycleIsReal
<1>1. DagInv => CycleIsReal
  BY HeldBack DEF CycleIsReal
<1> QED
  BY <1>1, DagInvariance, PTL

\* In a published analysis every arrow leads to a later stage, and no stage is
\* skipped.
THEOREM Stages == DagSpec => []StagesAreTight
<1>1. ASSUME DagInv, published, NEW n \in Nodes
      PROVE  /\ \A e \in In(n) : stage[source[e]] < stage[n]
             /\ stage[n] = 0 \/ \E e \in In(n) : stage[n] = stage[source[e]] + 1
  <2>1. \A e \in In(n) : stage[source[e]] < stage[n]
    BY <1>1, AllTaken DEF SortInv, StagesSoFar, In
  <2>2. stage[n] = 0 \/ \E e \in In(n) : stage[n] = stage[source[e]] + 1
    BY <1>1, AllTaken DEF SortInv, StagesSoFar, In, Relaxed
  <2> QED
    BY <2>1, <2>2
<1>2. DagInv => StagesAreTight
  BY <1>1 DEF StagesAreTight
<1> QED
  BY <1>2, DagInvariance, PTL

\* No cycle goes unnoticed: an analysis is published only of an acyclic graph.
THEOREM NoMissedCycle == DagSpec => []PublishedIsAcyclic
<1>1. ASSUME DagInv, published, NEW S \in SUBSET Nodes, Knot(S)
      PROVE  FALSE
  <2>1. DagTypeOK /\ Nodes \subseteq Names
    BY <1>1, AllTaken, GraphFacts DEF DagTypeOK
  <2>2. PICK n \in S : \A m \in S : stage[n] <= stage[m]
    BY <1>1, <2>1, LowestStage DEF Knot, DagTypeOK
  <2>3. PICK e \in In(n) : source[e] \in S
    BY <1>1 DEF Knot
  <2>4. stage[source[e]] < stage[n]
    BY <1>1, AllTaken DEF SortInv, StagesSoFar, In
  <2>5. stage[n] \in Nat /\ stage[source[e]] \in Nat
    BY <1>1, <2>1, <2>3 DEF DagTypeOK
  <2> QED
    BY <2>2, <2>3, <2>4, <2>5
<1>2. DagInv => PublishedIsAcyclic
  BY <1>1 DEF PublishedIsAcyclic
<1> QED
  BY <1>2, DagInvariance, PTL

\* topoOrder, and with it calledFunctions, lists every node once and after all
\* of its predecessors.
THEOREM TopologicalOrder == DagSpec => []OrderRespectsArrows
<1>1. ASSUME DagInv, published
      PROVE  OrderRespectsArrows
  <2>1. \A n \in Nodes : \E i \in 1..Len(order) : order[i] = n
    BY <1>1, AllTaken DEF Taken
  <2>2. \A i, j \in 1..Len(order) : order[i] = order[j] => i = j
    BY <1>1, AllTaken DEF SortInv, OrderSoFar
  <2>3. ASSUME NEW e \in Arrows, NEW i \in 1..Len(order), NEW j \in 1..Len(order),
               order[i] = source[e], order[j] = target[e]
        PROVE  i < j
    <3>1. e \in In(order[j])
      BY <2>3 DEF In
    <3>2. PICK k \in 1..Len(order) : k < j /\ order[k] = source[e]
      BY <1>1, <3>1, AllTaken DEF SortInv, OrderSoFar
    <3> QED
      BY <2>2, <2>3, <3>2
  <2> QED
    BY <2>1, <2>2, <2>3 DEF OrderRespectsArrows
<1>2. DagInv => OrderRespectsArrows
  BY <1>1 DEF OrderRespectsArrows
<1> QED
  BY <1>2, DagInvariance, PTL

\* A cycle is reported of exactly the graphs that have one.
THEOREM Cycles == DagSpec => []CyclesAreFound
<1>1. CycleIsReal /\ PublishedIsAcyclic => CyclesAreFound
  BY DEF CyclesAreFound
<1> QED
  BY <1>1, NoFalseCycle, NoMissedCycle, PTL

\* The sequence and the stages of a published analysis agree with every arrow.
THEOREM Order == DagSpec => []OrderIsSound
<1>1. OrderRespectsArrows /\ StagesAreTight => OrderIsSound
  BY DEF OrderIsSound
<1> QED
  BY <1>1, TopologicalOrder, Stages, PTL

-----------------------------------------------------------------------------
(* The propagation of priorities.                                          *)

\* An elevated caller still waits, or its callees have what they inherit.
Settled ==
  \A b \in CallNames : eff[b] > Normal /\ b \notin worklist =>
    \A n \in CallGraph(b) \ ExplicitlyAnnotated : eff[n] >= eff[b]

\* Annotated functions keep their own priority.
Kept == \A f \in ExplicitlyAnnotated : eff[f] = Own(f)

\* Only elevated names wait.
WaitElevated == \A n \in worklist : eff[n] > Normal

PriorityInv ==
  /\ PriorityTypeOK
  /\ priorityPc # "collect" => Settled /\ Kept /\ Grounded /\ WaitElevated
  /\ priorityPc = "done" => worklist = {}

-----------------------------------------------------------------------------
\* The ranks a name may have.
LEMMA OwnRank ==
  ASSUME PriorityTypeOK
  PROVE  \A n : Own(n) \in Ranks
<1>1. \A f \in Functions : declared[f] \in Ranks \cup {Undeclared}
  BY ProgramAssumption DEF PriorityTypeOK
<1>2. Normal \in Ranks
  BY DEF Normal, Ranks
<1>3. \A f \in Functions : Priority(f) \in Ranks
  BY <1>1, <1>2 DEF Priority
<1> QED
  BY <1>2, <1>3 DEF Own

\* No step changes the program.
LEMMA ProgramFixed ==
  ASSUME [PriorityNext]_priorityVars
  PROVE  /\ declared' = declared /\ calls' = calls
         /\ ExplicitlyAnnotated' = ExplicitlyAnnotated
         /\ \A n : Own(n)' = Own(n)
         /\ \A n : CallGraph(n)' = CallGraph(n)
         /\ \A r, n : Reaches(r, n) => Reaches(r, n)'
<1>1. declared' = declared /\ calls' = calls
  BY DEF PriorityNext, CollectDeclared, Propagate, FinishPropagation, priorityVars, program
<1>2. \A f : Priority(f)' = Priority(f)
  BY <1>1 DEF Priority
<1>3. ExplicitlyAnnotated' = ExplicitlyAnnotated
  BY <1>2 DEF ExplicitlyAnnotated
<1>4. \A n : Own(n)' = Own(n)
  BY <1>2 DEF Own
<1>5. \A n : CallGraph(n)' = CallGraph(n)
  BY <1>1 DEF CallGraph
<1>6. \A r, n : Reaches(r, n) => Reaches(r, n)'
  BY <1>3, <1>5 DEF Reaches
<1> QED
  BY <1>1, <1>3, <1>4, <1>5, <1>6

\* A callee is a name of the analysis.
LEMMA CalleesAreNames ==
  ASSUME PriorityTypeOK
  PROVE  \A b : CallGraph(b) \subseteq CallNames
BY DEF PriorityTypeOK, CallGraph, CallNames

\* What a name reaches includes itself and what its callees are.
LEMMA ReachesStep ==
  ASSUME NEW r, NEW b \in CallNames, NEW n \in CallGraph(b) \ ExplicitlyAnnotated,
         Reaches(r, b)
  PROVE  Reaches(r, n)
<1> DEFINE Called(S) == UNION {CallGraph(m) \ ExplicitlyAnnotated : m \in S}
<1>1. ASSUME NEW S \in SUBSET Functions, r \in S, Called(S) \cap Functions \subseteq S
      PROVE  n \in S \cup Called(S)
  <2>1. b \in S \cup Called(S)
    BY <1>1 DEF Reaches
\* A name with callees is a function.
  <2>2. b \in Functions
    BY DEF CallGraph
  <2>3. b \in S
    BY <1>1, <2>1, <2>2
  <2> QED
    BY <2>3
<1> QED
  BY <1>1 DEF Reaches

LEMMA ReachesSelf ==
  ASSUME NEW r
  PROVE  Reaches(r, r)
BY DEF Reaches

-----------------------------------------------------------------------------
LEMMA PriorityInitInv == PriorityInit => PriorityInv
BY DEF PriorityInit, PriorityInv, PriorityTypeOK, Ranks, Normal

LEMMA PriorityCollectInv ==
  ASSUME PriorityInv, CollectDeclared
  PROVE  PriorityInv'
<1>a. /\ PriorityTypeOK /\ priorityPc' = "propagate" /\ eff' = [n \in CallNames |-> Own(n)]
      /\ worklist' = Elevated
  BY DEF PriorityInv, CollectDeclared
<1>b. /\ declared' = declared /\ calls' = calls
      /\ ExplicitlyAnnotated' = ExplicitlyAnnotated
      /\ \A n : Own(n)' = Own(n)
      /\ \A n : CallGraph(n)' = CallGraph(n)
  BY ProgramFixed DEF PriorityNext
<1>c. Functions \subseteq CallNames
  BY DEF CallNames
<1>1. PriorityTypeOK'
  BY <1>a, <1>b, <1>c, OwnRank DEF PriorityTypeOK, Elevated
\* Whatever is elevated at first is a function, and it waits.
<1>2. Settled'
  BY <1>a DEF Settled, Own, Elevated, Normal
<1>3. Kept'
  BY <1>a, <1>b, <1>c DEF Kept, ExplicitlyAnnotated
<1>4. Grounded'
  BY <1>a, <1>b DEF Grounded
<1>5. WaitElevated'
  BY <1>a, <1>c DEF WaitElevated, Elevated, Own
<1> QED
  BY <1>a, <1>1, <1>2, <1>3, <1>4, <1>5 DEF PriorityInv

LEMMA PropagateInv ==
  ASSUME PriorityInv, NEW caller \in CallNames, Propagate(caller)
  PROVE  PriorityInv'
<1> DEFINE R == Raised(caller)
<1>a. /\ PriorityTypeOK /\ Settled /\ Kept /\ Grounded /\ WaitElevated
      /\ priorityPc = "propagate" /\ priorityPc' = priorityPc /\ caller \in worklist
      /\ worklist' = (worklist \ {caller}) \cup R
      /\ eff' = [n \in CallNames |-> IF n \in R THEN eff[caller] ELSE eff[n]]
  BY DEF PriorityInv, Propagate, Requeue, Pop, Inherits
<1>b. /\ declared' = declared /\ calls' = calls
      /\ ExplicitlyAnnotated' = ExplicitlyAnnotated
      /\ \A n : Own(n)' = Own(n)
      /\ \A n : CallGraph(n)' = CallGraph(n)
      /\ \A r, n : Reaches(r, n) => Reaches(r, n)'
  BY ProgramFixed DEF PriorityNext
<1>c. \A n \in R : n \in CallNames /\ n \in CallGraph(caller) \ ExplicitlyAnnotated
                   /\ eff[caller] > eff[n]
  BY <1>a, CalleesAreNames DEF Raised
<1>d. \A n \in CallNames : eff[n] \in Nat
  BY <1>a DEF PriorityTypeOK, Ranks
<1>e. eff[caller] > Normal /\ caller \notin R /\ eff'[caller] = eff[caller]
  BY <1>a, <1>c, <1>d DEF WaitElevated
\* Priorities only rise.
<1>f. \A n \in CallNames : eff'[n] \in Nat /\ eff'[n] >= eff[n]
  BY <1>a, <1>c, <1>d
<1> HIDE DEF R
<1>1. PriorityTypeOK'
  BY <1>a, <1>b, <1>c DEF PriorityTypeOK
<1>2. Settled'
  <2> SUFFICES ASSUME NEW b \in CallNames, eff'[b] > Normal, b \notin worklist',
                      NEW n \in CallGraph(b) \ ExplicitlyAnnotated
               PROVE  eff'[n] >= eff'[b]
    BY <1>b DEF Settled
  <2>1. n \in CallNames
    BY <1>a, CalleesAreNames
  <2>2. CASE b = caller
    <3>1. n \in R \/ ~(eff[caller] > eff[n])
      BY <2>2 DEF R, Raised
    <3> QED
      BY <1>a, <1>d, <1>e, <2>1, <2>2, <3>1
  <2>3. CASE b # caller
    <3>1. b \notin R /\ b \notin worklist /\ eff'[b] = eff[b]
      BY <1>a, <2>3
    <3>2. eff[n] >= eff[b]
      BY <1>a, <3>1 DEF Settled
    <3> QED
      BY <1>d, <1>f, <2>1, <3>1, <3>2
  <2> QED
    BY <2>2, <2>3
<1>3. Kept'
  BY <1>a, <1>b, <1>c DEF Kept, CallNames, ExplicitlyAnnotated
<1>4. Grounded'
  <2> SUFFICES ASSUME NEW n \in CallNames, eff'[n] # Own(n)
               PROVE  \E r \in Functions : Own(r) > Normal /\ eff'[n] = Own(r)
                                           /\ Reaches(r, n)
    BY <1>b DEF Grounded
  <2>1. CASE n \notin R
    BY <1>a, <2>1 DEF Grounded
  <2>2. CASE n \in R
    <3>1. eff'[n] = eff[caller]
      BY <1>a, <2>2
    <3>2. CASE eff[caller] = Own(caller)
      <4>1. caller \in Functions
        BY <1>e, <3>2 DEF Own, Normal
      <4>2. Reaches(caller, n)
        BY <1>c, <2>2, ReachesSelf, ReachesStep
      <4> QED
        BY <1>e, <3>1, <3>2, <4>1, <4>2
    <3>3. CASE eff[caller] # Own(caller)
      <4>1. PICK r \in Functions : Own(r) > Normal /\ eff[caller] = Own(r)
                                   /\ Reaches(r, caller)
        BY <1>a, <3>3 DEF Grounded
      <4>2. Reaches(r, n)
        BY <1>c, <2>2, <4>1, ReachesStep
      <4> QED
        BY <3>1, <4>1, <4>2
    <3> QED
      BY <3>2, <3>3
  <2> QED
    BY <2>1, <2>2
<1>5. WaitElevated'
  <2>1. ASSUME NEW n \in worklist' PROVE eff'[n] > Normal
    <3>1. CASE n \in R
      BY <1>a, <1>c, <1>e, <3>1
    <3>2. CASE n \notin R
      <4>1. n \in worklist /\ n \in CallNames /\ eff'[n] = eff[n]
        BY <1>a, <2>1, <3>2 DEF PriorityTypeOK
      <4> QED
        BY <1>a, <4>1 DEF WaitElevated
    <3> QED
      BY <3>1, <3>2
  <2> QED
    BY <2>1 DEF WaitElevated
<1> QED
  BY <1>a, <1>1, <1>2, <1>3, <1>4, <1>5 DEF PriorityInv

\* A step that leaves the variables of the propagation alone.
LEMMA PriorityFinishInv ==
  ASSUME PriorityInv, [PriorityNext]_priorityVars, eff' = eff, worklist' = worklist,
         priorityPc' = priorityPc \/ FinishPropagation
  PROVE  PriorityInv'
<1>a. /\ declared' = declared /\ calls' = calls
      /\ ExplicitlyAnnotated' = ExplicitlyAnnotated
      /\ \A n : Own(n)' = Own(n)
      /\ \A n : CallGraph(n)' = CallGraph(n)
      /\ \A r, n : Reaches(r, n) => Reaches(r, n)'
  BY ProgramFixed
<1>1. PriorityTypeOK'
  BY <1>a DEF PriorityInv, PriorityTypeOK, FinishPropagation
<1>2. ASSUME priorityPc' # "collect"
      PROVE  Settled' /\ Kept' /\ Grounded' /\ WaitElevated'
  <2>1. /\ Settled /\ Kept /\ Grounded /\ WaitElevated
        /\ priorityPc \in {"propagate", "done"}
    BY <1>2 DEF PriorityInv, PriorityTypeOK, FinishPropagation
  <2>2. Settled' /\ Kept' /\ WaitElevated'
    BY <1>a, <2>1 DEF Settled, Kept, WaitElevated
  <2>3. Grounded'
    BY <1>a, <2>1 DEF Grounded
  <2> QED
    BY <2>2, <2>3
<1>3. priorityPc' = "done" => worklist' = {}
  BY DEF PriorityInv, FinishPropagation
<1> QED
  BY <1>1, <1>2, <1>3 DEF PriorityInv

\* The inductive invariant holds in every reachable state.
THEOREM PriorityInvariance == PrioritySpec => []PriorityInv
<1>1. PriorityInit => PriorityInv
  BY PriorityInitInv
<1>2. PriorityInv /\ [PriorityNext]_priorityVars => PriorityInv'
  <2> SUFFICES ASSUME PriorityInv, [PriorityNext]_priorityVars PROVE PriorityInv'
    OBVIOUS
  <2>1. CASE CollectDeclared
    BY <2>1, PriorityCollectInv
  <2>2. ASSUME NEW caller \in CallNames, Propagate(caller) PROVE PriorityInv'
    BY <2>2, PropagateInv
  <2>3. CASE FinishPropagation
    BY <2>3, PriorityFinishInv DEF FinishPropagation
  <2>4. CASE UNCHANGED priorityVars
    BY <2>4, PriorityFinishInv DEF priorityVars
  <2> QED
    BY <2>1, <2>2, <2>3, <2>4 DEF PriorityNext
<1> QED
  BY <1>1, <1>2, PTL DEF PrioritySpec

-----------------------------------------------------------------------------
\* effectivePriority maps names to priority levels throughout.
THEOREM PriorityTypeCorrect == PrioritySpec => []PriorityTypeOK
<1>1. PriorityInv => PriorityTypeOK
  BY DEF PriorityInv
<1> QED
  BY <1>1, PriorityInvariance, PTL

\* When the worklist is empty every callee that is not annotated has at least
\* the priority of each elevated caller, in any call graph.
THEOREM FixedPoint == PrioritySpec => []Closed
<1>1. PriorityInv => Closed
  BY DEF PriorityInv, Closed, Settled
<1> QED
  BY <1>1, PriorityInvariance, PTL

\* No priority comes from nowhere: each one that was raised goes back, along
\* calls, to a function declared with it.
THEOREM NoneUnfounded == PrioritySpec => []Grounded
<1>1. PriorityInv => Grounded
  BY DEF PriorityInv, Grounded
<1> QED
  BY <1>1, PriorityInvariance, PTL

\* Callees named relative to their caller's namespace inherit, for every program.
THEOREM Inheritance == PrioritySpec => []Inherited
<1>1. ASSUME PriorityInv, priorityPc = "done",
             NEW b \in Functions \ Pipelines, NEW text \in calls[b],
             Resolved(b, text) = Prefix(b) \o text,
             eff[b] > Normal, Resolved(b, text) \notin ExplicitlyAnnotated
      PROVE  eff[Resolved(b, text)] >= eff[b]
  <2>1. Resolved(b, text) \in CallGraph(b)
    BY <1>1 DEF CallGraph, Key
  <2>2. b \in CallNames
    BY DEF CallNames
  <2> QED
    BY <1>1, <2>1, <2>2 DEF PriorityInv, Settled
<1>2. PriorityInv => Inherited
  BY <1>1 DEF Inherited
<1> QED
  BY <1>2, PriorityInvariance, PTL

\* Annotations win, other than priority(normal).
THEOREM AnnotationsWin == PrioritySpec => []ExplicitWins
<1>1. ASSUME PriorityInv, priorityPc = "done", NEW f \in Functions,
             declared[f] \notin {Undeclared, Normal}
      PROVE  eff[f] = declared[f]
  <2>1. f \in ExplicitlyAnnotated /\ Own(f) = declared[f]
    BY <1>1 DEF ExplicitlyAnnotated, Own, Priority
  <2> QED
    BY <1>1, <2>1 DEF PriorityInv, Kept
<1>2. PriorityInv => ExplicitWins
  BY <1>1 DEF ExplicitWins
<1> QED
  BY <1>2, PriorityInvariance, PTL

\* The whole contract of the propagation.
THEOREM Soundness == PrioritySpec => []PrioritiesAreSound
<1>1. Inherited /\ Grounded /\ ExplicitWins => PrioritiesAreSound
  BY DEF PrioritiesAreSound
<1> QED
  BY <1>1, Inheritance, NoneUnfounded, AnnotationsWin, PTL

-----------------------------------------------------------------------------
(* The struct matcher.                                                     *)

\* The state keeps its types; matches and errors are of parameters already looked
\* at (SmartStructMatcher.cpp:20-96).
MatchTypeOK ==
  /\ \E n \in 0..MaxFields : fields \in [1..n -> Field]
  /\ \E n \in 0..MaxParams : params \in [1..n -> Field] /\ ti \in 1..(n + 1)
  /\ matches \subseteq (DOMAIN fields) \X (DOMAIN params)
  /\ failed \subseteq DOMAIN params
  /\ \A m \in matches : m[2] < ti
  /\ \A t \in failed : t < ti

\* Every parameter looked at has a match or an error, and never both.
Decided ==
  \A t \in DOMAIN params :
    t < ti => ((\E m \in matches : m[2] = t) <=> t \notin failed)

\* A parameter got a field of another name only when no other field of its type was
\* left; so all of that type are taken.
Exhausted ==
  \A m \in matches : fields[m[1]].name # params[m[2]].name =>
    \A s \in DOMAIN fields :
      fields[s].type = fields[m[1]].type => \E k \in matches : k[1] = s

MatchInv == MatchTypeOK /\ Injective /\ Decided /\ Exhausted /\ NamesHonoured

-----------------------------------------------------------------------------
LEMMA InitHolds == MatchInit => MatchInv
<1> SUFFICES ASSUME MatchInit PROVE MatchInv
  OBVIOUS
<1>1. /\ \E n \in 0..MaxFields : fields \in [1..n -> Field]
      /\ \E n \in 0..MaxParams : params \in [1..n -> Field] /\ ti \in 1..(n + 1)
  BY DEF MatchInit, SeqUpTo
<1>2. MatchTypeOK
  BY <1>1 DEF MatchInit, MatchTypeOK
<1>3. Injective /\ Exhausted /\ NamesHonoured /\ Decided
  BY <1>1 DEF MatchInit, Injective, Exhausted, NamesHonoured, Decided
<1> QED
  BY <1>2, <1>3 DEF MatchInv

\* What a parameter is bound to: a free field of its type, which has its name or is
\* the only one left.
LEMMA Candidate ==
  ASSUME MatchTypeOK, NEW s \in Candidates
  PROVE  /\ s \in Available
         /\ fields[s].name = params[ti].name \/ Available = {s}
<1>1. IsFiniteSet(Available)
  <2>1. PICK n \in 0..MaxFields : fields \in [1..n -> Field]
    BY DEF MatchTypeOK
  <2>2. IsFiniteSet(1..n) /\ Available \subseteq 1..n
    BY <2>1, FS_Interval DEF Available
  <2> QED
    BY <2>2, FS_Subset
<1>2. CASE Cardinality(Available) = 1
  <2>1. PICK x : Available = {x}
    BY <1>1, <1>2, FS_Singleton
  <2>2. Candidates = Available
    BY <1>2 DEF Candidates
  <2> QED
    BY <2>1, <2>2
<1>3. CASE Cardinality(Available) # 1
  BY <1>3 DEF Candidates, Named
<1> QED
  BY <1>2, <1>3

LEMMA InProduct ==
  ASSUME NEW A, NEW B, NEW m \in A \X B
  PROVE  m[1] \in A /\ m[2] \in B /\ m = <<m[1], m[2]>>
  OBVIOUS

\* Matches and errors are of earlier parameters.
LEMMA Earlier ==
  ASSUME MatchTypeOK
  PROVE  /\ \A m \in matches : /\ m[1] \in DOMAIN fields /\ m[2] \in DOMAIN params
                               /\ m[2] < ti /\ m = <<m[1], m[2]>>
         /\ \A t \in failed : t \in DOMAIN params /\ t < ti
<1>1. /\ matches \subseteq (DOMAIN fields) \X (DOMAIN params)
      /\ failed \subseteq DOMAIN params
      /\ \A m \in matches : m[2] < ti
      /\ \A t \in failed : t < ti
  BY DEF MatchTypeOK
<1>2. \A m \in (DOMAIN fields) \X (DOMAIN params) :
        m[1] \in DOMAIN fields /\ m[2] \in DOMAIN params /\ m = <<m[1], m[2]>>
  BY InProduct
<1>3. ASSUME NEW m \in matches PROVE m \in (DOMAIN fields) \X (DOMAIN params)
  BY <1>1
<1> QED
  BY <1>1, <1>2, <1>3

LEMMA FailStep ==
  ASSUME MatchInv, Fail
  PROVE  MatchInv'
<1>1. /\ ti \in DOMAIN params /\ failed' = failed \cup {ti} /\ ti' = ti + 1
      /\ UNCHANGED <<fields, params, matches>>
  BY DEF Fail, Report
<1>2. PICK n \in 0..MaxParams : params \in [1..n -> Field] /\ ti \in 1..(n + 1)
  BY DEF MatchInv, MatchTypeOK
<1>3. ti \in 1..n /\ DOMAIN params = 1..n /\ n \in Nat
  BY <1>1, <1>2, BoundsAssumption
<1>4. MatchTypeOK'
  <2>1. \A m \in matches : m[2] \in 1..n /\ m[2] < ti
    BY <1>3, Earlier DEF MatchInv
  <2>2. \A t \in failed : t \in 1..n /\ t < ti
    BY <1>3, Earlier DEF MatchInv
  <2>3. /\ \A m \in matches : m[2] < ti + 1
        /\ \A t \in failed \cup {ti} : t < ti + 1
    BY <1>3, <2>1, <2>2
  <2>4. ti + 1 \in 1..(n + 1)
    BY <1>3
  <2>5. /\ \E k \in 0..MaxFields : fields \in [1..k -> Field]
        /\ matches \subseteq (DOMAIN fields) \X (DOMAIN params)
    BY DEF MatchInv, MatchTypeOK
  <2>6. failed \cup {ti} \subseteq DOMAIN params
    BY <1>3, <2>2
  <2> QED
    BY <1>1, <1>2, <2>3, <2>4, <2>5, <2>6 DEF MatchTypeOK
<1>5. Injective' /\ Exhausted' /\ NamesHonoured'
  BY <1>1 DEF MatchInv, Injective, Exhausted, NamesHonoured
<1>6. Decided'
  <2> SUFFICES ASSUME NEW t \in 1..n, t < ti + 1
               PROVE  (\E m \in matches : m[2] = t) <=> t \notin failed \cup {ti}
    BY <1>1, <1>3 DEF Decided
  <2>1. CASE t = ti
    BY <1>3, <2>1, Earlier DEF MatchInv
  <2>2. CASE t # ti
    BY <1>3, <2>2 DEF MatchInv, Decided
  <2> QED
    BY <2>1, <2>2
<1> QED
  BY <1>4, <1>5, <1>6 DEF MatchInv

LEMMA BindStep ==
  ASSUME MatchInv, NEW s \in 1..MaxFields, Bind(s)
  PROVE  MatchInv'
<1>1. /\ ti \in DOMAIN params /\ s \in Candidates
      /\ matches' = matches \cup {<<s, ti>>} /\ ti' = ti + 1
      /\ UNCHANGED <<fields, params, failed>>
  BY DEF Bind
<1>2. PICK n \in 0..MaxParams : params \in [1..n -> Field] /\ ti \in 1..(n + 1)
  BY DEF MatchInv, MatchTypeOK
<1>3. ti \in 1..n /\ DOMAIN params = 1..n /\ n \in Nat
  BY <1>1, <1>2, BoundsAssumption
<1>4. /\ s \in DOMAIN fields /\ fields[s].type = params[ti].type
      /\ \A m \in matches : m[1] # s
      /\ fields[s].name = params[ti].name \/ Available = {s}
  BY <1>1, Candidate DEF Available, MatchInv
<1>5. \A m \in matches : /\ m[1] \in DOMAIN fields /\ m[2] \in 1..n
                         /\ m[2] < ti /\ m[2] # ti /\ m = <<m[1], m[2]>>
  BY <1>3, Earlier DEF MatchInv
<1>6. \A t \in failed : t \in 1..n /\ t < ti /\ t # ti
  BY <1>3, Earlier DEF MatchInv
<1> DEFINE new == <<s, ti>>
<1>0. new[1] = s /\ new[2] = ti /\ matches' = matches \cup {new}
  BY <1>1
<1> HIDE DEF new
<1>7. MatchTypeOK'
  <2>1. /\ \A m \in matches' : m[2] < ti + 1
        /\ \A t \in failed : t < ti + 1
    BY <1>0, <1>3, <1>5, <1>6
  <2>2. matches' \subseteq (DOMAIN fields) \X (DOMAIN params)
    <3>1. matches \subseteq (DOMAIN fields) \X (DOMAIN params)
      BY DEF MatchInv, MatchTypeOK
    <3>2. new \in (DOMAIN fields) \X (DOMAIN params)
      BY <1>1, <1>4 DEF new
    <3> QED
      BY <1>0, <3>1, <3>2, Zenon
  <2>3. ti + 1 \in 1..(n + 1)
    BY <1>3
  <2>4. /\ \E k \in 0..MaxFields : fields \in [1..k -> Field]
        /\ failed \subseteq DOMAIN params
    BY DEF MatchInv, MatchTypeOK
  <2> QED
    BY <1>1, <1>2, <2>1, <2>2, <2>3, <2>4 DEF MatchTypeOK
<1>8. Injective'
  BY <1>0, <1>1, <1>4, <1>5 DEF MatchInv, Injective
<1>9. Decided'
  <2> SUFFICES ASSUME NEW t \in 1..n, t < ti + 1
               PROVE  (\E m \in matches' : m[2] = t) <=> t \notin failed
    BY <1>1, <1>3 DEF Decided
  <2>1. CASE t = ti
    BY <1>0, <1>6, <2>1
  <2>2. CASE t # ti
    <3>1. t < ti
      BY <1>3, <2>2
    <3>2. (\E m \in matches' : m[2] = t) <=> (\E m \in matches : m[2] = t)
      BY <1>0, <2>2
    <3> QED
      BY <1>3, <3>1, <3>2 DEF MatchInv, Decided
  <2> QED
    BY <2>1, <2>2
<1>10. Exhausted'
  <2> SUFFICES ASSUME NEW m \in matches', fields[m[1]].name # params[m[2]].name,
                      NEW x \in DOMAIN fields, fields[x].type = fields[m[1]].type
               PROVE  \E k \in matches' : k[1] = x
    BY <1>1 DEF Exhausted
  <2>1. CASE m \in matches
    BY <1>1, <2>1 DEF MatchInv, Exhausted
  <2>2. CASE m = new
    <3>1. Available = {s} /\ fields[x].type = params[ti].type
      BY <1>0, <1>4, <2>2
    <3>2. x # s => \E k \in matches : k[1] = x
      BY <3>1 DEF Available
    <3> QED
      BY <1>0, <3>2
  <2> QED
    BY <1>0, <2>1, <2>2
<1>11. NamesHonoured'
  <2> SUFFICES ASSUME NEW m \in matches',
                      NEW x \in DOMAIN fields, fields[x] = params[m[2]],
                      \A t \in DOMAIN params : params[t] = params[m[2]] => m[2] <= t
               PROVE  fields[m[1]].name = params[m[2]].name
    BY <1>1 DEF NamesHonoured
  <2>1. CASE m \in matches
    BY <2>1 DEF MatchInv, NamesHonoured
  <2>2. ASSUME m = new, fields[s].name # params[ti].name
        PROVE  FALSE
    <3>1. x \notin Available /\ fields[x] = params[ti]
      BY <1>0, <1>4, <2>2 DEF Available
    <3>2. PICK k \in matches : k[1] = x
      BY <1>0, <1>4, <2>2, <3>1 DEF Available
    <3>3. k[2] \in 1..n /\ ~(ti <= k[2]) /\ fields[x].type = params[k[2]].type
      BY <1>3, <1>5, <3>2 DEF MatchInv, Injective
    <3>4. params[k[2]] # params[ti]
      BY <1>0, <1>3, <2>2, <3>3
    <3>5. fields[k[1]].name # params[k[2]].name
      <4>1. params[k[2]] \in Field /\ params[ti] \in Field
        BY <1>2, <1>3, <3>3
      <4> QED
        BY <3>1, <3>2, <3>3, <3>4, <4>1 DEF Field
    <3>6. \E j \in matches : j[1] = s
      BY <1>4, <3>1, <3>2, <3>5 DEF MatchInv, Exhausted
    <3> QED
      BY <1>4, <3>6
  <2> QED
    BY <1>0, <2>1, <2>2
<1> QED
  BY <1>7, <1>8, <1>9, <1>10, <1>11 DEF MatchInv

LEMMA Invariant == MatchSpec => []MatchInv
<1>1. MatchInv /\ [MatchNext]_matchVars => MatchInv'
  <2> SUFFICES ASSUME MatchInv, [MatchNext]_matchVars PROVE MatchInv'
    OBVIOUS
  <2>1. CASE UNCHANGED matchVars
    BY <2>1
    DEF matchVars, MatchInv, MatchTypeOK, Injective, Decided, Exhausted, NamesHonoured
  <2> QED
    BY <2>1, FailStep, BindStep DEF MatchNext
<1> QED
  BY <1>1, InitHolds, PTL DEF MatchSpec

\* The contract of the matcher (SmartStructMatcher.h:24-29) for any number of
\* fields and parameters.
THEOREM Match == MatchSpec => []MatchIsSound
<1>1. MatchInv => MatchIsSound
  <2> SUFFICES ASSUME MatchInv, Matched
               PROVE  Success <=> \A t \in DOMAIN params : \E m \in matches : m[2] = t
    BY DEF MatchIsSound, MatchInv
  <2>1. PICK n \in 0..MaxParams : params \in [1..n -> Field] /\ ti \in 1..(n + 1)
    BY DEF MatchInv, MatchTypeOK
  <2>2. n \in Nat /\ DOMAIN params = 1..n /\ Len(params) = n
    BY <2>1, BoundsAssumption
  <2>3. \A t \in DOMAIN params : t < ti
    BY <2>2 DEF Matched
  <2>4. \A t \in DOMAIN params : (\E m \in matches : m[2] = t) <=> t \notin failed
    BY <2>3 DEF MatchInv, Decided
  <2> QED
    BY <2>4 DEF Success, MatchInv, MatchTypeOK
<1> QED
  BY <1>1, Invariant, PTL
=============================================================================
