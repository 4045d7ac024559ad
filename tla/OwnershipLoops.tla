---------------------------- MODULE OwnershipLoops ----------------------------
(***************************************************************************)
(* The two searches for cycles among declarations that the type checks     *)
(* run (lib/Sema/SemanticAnalyzer.cpp): validateOwnershipGraph() follows   *)
(* the shared fields from every class that has any, as deep as a limit     *)
(* allows, and validateTypes() walks up the parents of every constraint.   *)
(***************************************************************************)
EXTENDS Naturals, Sequences, FiniteSets, Functions

CONSTANTS
  MaxDeclared,   \* classes and constraints that are declared, at most
  MaxFields,     \* shared fields of a class, at most
  DfsLimit       \* kMaxDfsDepth (500 in the code)

ASSUME LoopsAssumption == MaxDeclared \in Nat /\ MaxFields \in Nat /\ DfsLimit \in Nat

VARIABLES
  graph,      \* sharedGraph: of each class, in the order of the map, its targets
  parents,    \* of each constraint its parent: NoParent, or a name, declared or not
  gpc,        \* "graph", "parents" or "checked"
  origin,     \* the class the search, or the constraint the walk, began with
  path,       \* calls of dfs(): [node, at], the innermost last; or the walk's node
  visited,    \* nodes the search, or the walk, has met
  cycles      \* the errors: <<rule, declaration>>

loopVars == <<graph, parents, gpc, origin, path, visited, cycles>>

NoParent == 0
Targets(S) == UNION {[1..n -> S] : n \in 0..MaxFields}
\* Classes are the numbers up to that of graph, the next one is a name that has
\* no shared field; with the parents of constraints it is the same.
LoopInit ==
  /\ \E m \in 0..MaxDeclared : \E k \in 0..(MaxDeclared - m) :
       /\ graph \in [1..m -> Targets(1..(m + 1))]
       /\ parents \in [1..k -> 0..(k + 1)]
  /\ gpc = "graph" /\ origin = 1 /\ path = <<>> /\ visited = {} /\ cycles = {}

ReportLoop(rules) == cycles' = cycles \cup {<<r, origin>> : r \in rules}
\* One search or walk ends, with the declaration that is next another one begins.
EndSearch ==
  /\ path' = <<>> /\ visited' = {} /\ origin' = origin + 1
  /\ UNCHANGED <<graph, parents, gpc>>
Turn(here, next, units) ==
  /\ gpc = here /\ path = <<>> /\ origin > Len(units)
  /\ gpc' = next /\ origin' = 1
  /\ UNCHANGED <<graph, parents, path, visited, cycles>>

(* -------------------- cycles of shared fields (S-OWN-004) --------------- *)
Shared(node) == IF node \in DOMAIN graph THEN graph[node] ELSE <<>>
Enter(node) == [node |-> node, at |-> 1]
Deepest == path[Len(path)]
OnPath(node) == \E i \in DOMAIN path : path[i].node = node
NextTarget(calls) == [calls EXCEPT ![Len(calls)].at = @ + 1]

BeginSearch ==
  /\ gpc = "graph" /\ path = <<>> /\ origin <= Len(graph)
  /\ IF Shared(origin) = <<>> THEN EndSearch
     ELSE path' = <<Enter(origin)>> /\ visited' = {origin}
          /\ UNCHANGED <<graph, parents, gpc, origin>>
  /\ UNCHANGED cycles

\* Mutant: a class that was visited closes a cycle, on another branch as well.
MutCloses(node) == node \in visited
\* A class that is met again closes a cycle only where the path comes from it.
Closes(node) == node \in visited /\ OnPath(node)

\* dfs() of the target that is next.
VisitTarget ==
  /\ gpc = "graph" /\ path # <<>> /\ Deepest.at <= Len(Shared(Deepest.node))
  /\ LET node == Shared(Deepest.node)[Deepest.at] IN
     \/ /\ Len(path) > DfsLimit
        /\ ReportLoop({"depth"}) /\ EndSearch
     \/ /\ Len(path) <= DfsLimit /\ Closes(node)
        /\ ReportLoop({"S-OWN-004"}) /\ EndSearch
     \/ /\ Len(path) <= DfsLimit /\ node \in visited /\ ~Closes(node)
        /\ path' = NextTarget(path)
        /\ UNCHANGED <<graph, parents, gpc, origin, visited, cycles>>
     \/ /\ Len(path) <= DfsLimit /\ node \notin visited
        /\ path' = Append(path, Enter(node)) /\ visited' = visited \cup {node}
        /\ UNCHANGED <<graph, parents, gpc, origin, cycles>>

\* dfs() returns false.
LeaveTarget ==
  /\ gpc = "graph" /\ path # <<>> /\ Deepest.at > Len(Shared(Deepest.node))
  /\ IF Len(path) = 1 THEN EndSearch
     ELSE /\ path' = NextTarget(SubSeq(path, 1, Len(path) - 1))
          /\ UNCHANGED <<graph, parents, gpc, origin, visited>>
  /\ UNCHANGED cycles

(* ------------------------ parents of constraints ------------------------ *)
IsConstraint(k) == k \in DOMAIN parents

\* A parent that is not declared is reported; else the walk up begins.
BeginWalk ==
  /\ gpc = "parents" /\ path = <<>> /\ origin <= Len(parents)
  /\ LET parent == parents[origin] IN
     IF IsConstraint(parent)
     THEN /\ path' = <<Enter(parent)>> /\ visited' = {origin}
          /\ UNCHANGED <<graph, parents, gpc, origin, cycles>>
     ELSE EndSearch /\ ReportLoop({r \in {"parent"} : parent # NoParent})

\* The walk is at a declared constraint; it stops above one without a parent,
\* or with one that is not declared.
Climb ==
  /\ gpc = "parents" /\ path # <<>>
  /\ LET here == Deepest.node IN
     \/ here \in visited /\ ReportLoop({"circular"}) /\ EndSearch
     \/ here \notin visited /\ ~IsConstraint(parents[here]) /\ EndSearch /\ UNCHANGED cycles
     \/ /\ here \notin visited /\ IsConstraint(parents[here])
        /\ path' = <<Enter(parents[here])>> /\ visited' = visited \cup {here}
        /\ UNCHANGED <<graph, parents, gpc, origin, cycles>>

LoopNext ==
  \/ BeginSearch \/ VisitTarget \/ LeaveTarget \/ Turn("graph", "parents", graph)
  \/ BeginWalk \/ Climb \/ Turn("parents", "checked", parents)
LoopSpec == LoopInit /\ [][LoopNext]_loopVars

-----------------------------------------------------------------------------
\* What can be reached from x along next, a function from nodes to sets of
\* nodes: what every set has that holds the nodes next to x, and with a node
\* those next to it.
IsClosed(S, next) == \A y \in S : next[y] \subseteq S
Reach(next, x) ==
  {y \in DOMAIN next : \A S \in SUBSET DOMAIN next :
                         next[x] \subseteq S /\ IsClosed(S, next) => y \in S}
LeadsIntoCycle(next, x) == \E d \in Reach(next, x) : d \in Reach(next, d)

SharedFields == [c \in 1..(Len(graph) + 1) |-> Range(Shared(c))]
ParentsOf == [k \in DOMAIN parents |-> {p \in {parents[k]} : IsConstraint(p)}]

\* "use 'weak' to break the cycle": shared fields are reported exactly where
\* they lead into a cycle, unless the chain is longer than the search goes; so
\* are the parents of constraints, for each that leads into a cycle, and the
\* walk ends (SemanticAnalyzer.cpp:1557-1597, 853-868).
LoopsAreReported ==
  gpc = "checked" =>
    /\ \A c \in DOMAIN graph :
         LET into == LeadsIntoCycle(SharedFields, c)
             reported == <<"S-OWN-004", c>> \in cycles
             gaveUp == <<"depth", c>> \in cycles
         IN /\ reported => into
            /\ into => reported \/ gaveUp
            /\ gaveUp => Cardinality({c} \cup Reach(SharedFields, c)) > DfsLimit
    /\ \A k \in DOMAIN parents :
         <<"circular", k>> \in cycles <=> LeadsIntoCycle(ParentsOf, k)
=============================================================================
