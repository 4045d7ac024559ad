----------------------------- MODULE PipelineDag -----------------------------
(***************************************************************************)
(* The pipeline validation of the semantic analyzer, as far as it orders   *)
(* the graph (SemanticAnalyzer::validatePipeline,                          *)
(* lib/Sema/SemanticAnalyzer.cpp): the declared edges are collected, the   *)
(* one terminal edge is found, and Kahn's algorithm sorts the nodes, finds *)
(* cycles and infers each node's stage.  An edge is an entry of            *)
(* block.edges, so the same arrow may occur twice.                         *)
(***************************************************************************)
EXTENDS Naturals, Sequences, FiniteSets

CONSTANTS
  Names,       \* names an edge may mention
  TypeNames,   \* the names that resolve to a type ("void" included)
  Declared,    \* the names that resolve to a declared function
  EdgeIds,     \* indices into block.edges
  MaxNodes     \* the limit on the number of nodes (10000 in the code)

ASSUME GraphAssumption ==
  /\ IsFiniteSet(Names) /\ IsFiniteSet(EdgeIds)
  /\ TypeNames \subseteq Names /\ Declared \subseteq Names
  /\ MaxNodes \in Nat

VARIABLES
  source, target,   \* edge -> its two names, as parsed
  dagPc,            \* "collect", "seed", "sort" or "done"
  inDeg,            \* node -> incoming edges not yet relaxed (localInDeg)
  queue,            \* nodes without such edges that wait to be taken
  order,            \* topoOrder
  stage,            \* stageMap; a node without a stage counts as 0
  todo,             \* edges of the node taken last that are still to be relaxed
  errors,           \* kinds of error reported
  published         \* the analysis was stored in the block

graph == <<source, target>>
dagVars == <<graph, dagPc, inDeg, queue, order, stage, todo, errors, published>>

-----------------------------------------------------------------------------
\* An edge to a type is terminal, also when the name is a function as well.
Terminal == {e \in EdgeIds : target[e] \in TypeNames}
Arrows == EdgeIds \ Terminal

Nodes == {source[e] : e \in EdgeIds} \cup {target[e] : e \in Arrows}

In(n) == {e \in Arrows : target[e] = n}
Out(n) == {e \in Arrows : source[e] = n}

DagInit ==
  /\ source \in [EdgeIds -> Names] /\ target \in [EdgeIds -> Names]
  /\ dagPc = "collect"
  /\ inDeg = [n \in Names |-> 0]
  /\ queue = {} /\ order = <<>> /\ todo = {}
  /\ stage = [n \in Names |-> 0]
  /\ errors = {} /\ published = FALSE

\* inDegree: one per incoming edge, repeated ones included.
Degree(n) == Cardinality(In(n))

\* The edges are collected; there must be exactly one terminal edge.
CollectEdges ==
  /\ dagPc = "collect"
  /\ inDeg' = [n \in Names |-> Degree(n)]
  /\ IF Cardinality(Terminal) = 1
     THEN dagPc' = "seed" /\ UNCHANGED errors
     ELSE dagPc' = "done" /\ errors' = {"terminal"}
  /\ UNCHANGED <<graph, queue, order, stage, todo, published>>

\* Undeclared nodes are reported, too many nodes end the analysis, and the
\* sources are queued.
Seed ==
  /\ dagPc = "seed"
  /\ LET unknown == IF Nodes \subseteq Declared THEN {} ELSE {"unknown-function"}
     IN IF Cardinality(Nodes) > MaxNodes
        THEN /\ errors' = unknown \cup {"size"}
             /\ dagPc' = "done"
             /\ UNCHANGED queue
        ELSE /\ errors' = unknown
             /\ dagPc' = "sort"
             /\ queue' = {n \in Nodes : inDeg[n] = 0}
  /\ UNCHANGED <<graph, inDeg, order, stage, todo, published>>

\* The next node is taken from the queue.  The code's queue is first in first
\* out, seeded in name order; here any waiting node may be next, and a node's
\* edges are relaxed in any order, so that the results rest on neither.
Take(n) ==
  /\ dagPc = "sort" /\ todo = {}
  /\ n \in queue
  /\ queue' = queue \ {n}
  /\ order' = Append(order, n)
  /\ todo' = Out(n)
  /\ UNCHANGED <<graph, dagPc, inDeg, stage, errors, published>>

\* Mutant: a node is queued one edge too late.
MutReadyLate(t) == inDeg[t] = 0

\* Relaxing an edge to t makes it ready: this was its last one.
Ready(t) == inDeg[t] = 1

\* Mutant: the first predecessor decides.
MutNewStage(e) ==
  IF stage[target[e]] = 0 THEN stage[source[e]] + 1 ELSE stage[target[e]]

\* The stage of e's target once e is relaxed: never lowered.
NewStage(e) ==
  LET candidate == stage[source[e]] + 1
  IN IF candidate > stage[target[e]] THEN candidate ELSE stage[target[e]]

Relax(e) ==
  /\ dagPc = "sort" /\ e \in todo
  /\ todo' = todo \ {e}
  /\ stage' = [stage EXCEPT ![target[e]] = NewStage(e)]
  /\ inDeg' = [inDeg EXCEPT ![target[e]] = @ - 1]
  /\ queue' = IF Ready(target[e]) THEN queue \cup {target[e]} ELSE queue
  /\ UNCHANGED <<graph, dagPc, order, errors, published>>

\* Every node made it into topoOrder.
AllOrdered == Len(order) = Cardinality(Nodes)

\* The queue is empty: a node that was never taken lies on or behind a cycle;
\* otherwise calledFunctions, stages and the analysis are stored.
FinishSort ==
  /\ dagPc = "sort" /\ todo = {} /\ queue = {}
  /\ dagPc' = "done"
  /\ IF AllOrdered
     THEN published' = TRUE /\ UNCHANGED errors
     ELSE errors' = errors \cup {"cycle"} /\ UNCHANGED published
  /\ UNCHANGED <<graph, inDeg, queue, order, stage, todo>>

-----------------------------------------------------------------------------
DagNext ==
  \/ CollectEdges \/ Seed \/ FinishSort
  \/ \E n \in Names : Take(n)
  \/ \E e \in EdgeIds : Relax(e)

DagSpec == DagInit /\ [][DagNext]_dagVars

-----------------------------------------------------------------------------
DagTypeOK ==
  /\ source \in [EdgeIds -> Names] /\ target \in [EdgeIds -> Names]
  /\ dagPc \in {"collect", "seed", "sort", "done"}
  /\ inDeg \in [Names -> Nat]
  /\ queue \subseteq Nodes
  /\ order \in Seq(Nodes)
  /\ stage \in [Names -> Nat]
  /\ todo \subseteq Arrows
  /\ errors \subseteq {"terminal", "unknown-function", "size", "cycle"}
  /\ published \in BOOLEAN

\* The nodes in S wait for each other for ever.
Knot(S) == S # {} /\ \A n \in S : \E e \in In(n) : source[e] \in S

\* "contains a cycle" (SemanticAnalyzer.cpp:1294) is reported only of a graph
\* that has one: some nodes each wait for another of them.
CycleIsReal == "cycle" \in errors => \E S \in SUBSET Nodes : Knot(S)

\* A published analysis is of a graph without a cycle: no arrow, repeated or
\* to itself, is missed by the degree counting.
PublishedIsAcyclic == published => \A S \in SUBSET Nodes : ~Knot(S)

\* In topoOrder, and so in calledFunctions, every node occurs once and after
\* all of its predecessors (SemanticAnalyzer.cpp:1475-1485).
OrderRespectsArrows ==
  published =>
    /\ \A n \in Nodes : \E i \in 1..Len(order) : order[i] = n
    /\ \A i, j \in 1..Len(order) : order[i] = order[j] => i = j
    /\ \A e \in Arrows : \A i, j \in 1..Len(order) :
         order[i] = source[e] /\ order[j] = target[e] => i < j

\* "next node's stage = max(predecessors) + 1" (SemanticAnalyzer.cpp:1281):
\* every predecessor is in an earlier stage, and no stage is skipped.
StagesAreTight ==
  published => \A n \in Nodes :
    /\ \A e \in In(n) : stage[source[e]] < stage[n]
    /\ stage[n] = 0 \/ \E e \in In(n) : stage[n] = stage[source[e]] + 1

\* Cycles are found by counting alone: one is reported exactly of the graphs that
\* have one (SemanticAnalyzer.cpp:1294-1297).
CyclesAreFound == CycleIsReal /\ PublishedIsAcyclic

\* What a published analysis says of the order: the sequence and the stages agree
\* with every arrow (SemanticAnalyzer.cpp:1273-1291).
OrderIsSound == OrderRespectsArrows /\ StagesAreTight
=============================================================================
