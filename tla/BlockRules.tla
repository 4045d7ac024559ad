------------------------------ MODULE BlockRules ------------------------------
(***************************************************************************)
(* What semantic analysis decides of logic blocks: the stages of the calls *)
(* in an fn block (SemanticAnalyzer::validateLogicBlocks), and in a        *)
(* pipeline whose nodes are sorted (PipelineDag) the fields each node      *)
(* takes from its predecessors and the fields each call must deliver       *)
(* (the second half of SemanticAnalyzer::validatePipeline).                *)
(***************************************************************************)
EXTENDS Integers, Sequences, FiniteSets, Functions

CONSTANTS
  MaxBlockCalls,   \* bound: calls in an fn block
  FlowSize,        \* nodes of a pipeline, at most
  BlockFlows       \* the pipelines: who feeds whom, and what functions return and take

\* Nodes are numbered in a topological order.  A node has a function that
\* returns one value or, multi, several fields, of which `with returns` lets
\* those of the ceiling be seen; and that takes its parameters by name.
NamedField(name, type) == [name |-> name, type |-> type]
FieldLists == Seq([name : STRING, type : STRING])
Producer(multi, returns, ceiling) == [multi |-> multi, returns |-> returns, ceiling |-> ceiling]
NoCeiling == {"all"}
ASSUME PipelinesAssumption ==
  /\ FlowSize \in Nat
  /\ \A b \in BlockFlows :
       /\ DOMAIN b = {"edges", "last", "flow", "returns", "params"}
       /\ b.edges \in Seq((1..FlowSize) \X (1..FlowSize)) /\ b.last \in 1..FlowSize
       /\ \A n \in 1..FlowSize : b.returns[n].returns \in FieldLists /\ b.params[n] \in FieldLists

VARIABLES
  block,      \* the block: an fn block or a pipeline
  kpc,        \* "owner" .. "stages" of a block, "match" .. "sites" of a pipeline, "ruled"
  stages,     \* call -> its stage, Unstaged before it has one
  nodeTurn,      \* the node that is next
  demand,     \* node -> the fields its consumers take
  sites,      \* node -> the call site: its style and the fields it delivers
  rejected,   \* the errors
  warned      \* stages with the warning S-OWN-002

blockVars == <<block, kpc, stages, nodeTurn, demand, sites, rejected, warned>>

(* ------------------------------- fn blocks ------------------------------ *)
Unstaged == -1
AssignmentStep == "assign"
\* What is declared: the types of a function's owned parameters.
Owned == [f |-> <<"A">>, g |-> <<"A", "B">>, twice |-> <<"B", "B">>]
BlockCalls == [callee : {"f", "g", "twice", "missing", AssignmentStep},
               stage : {Unstaged, 0, 1, 2}]
\* declared: there is a function of the block's name; bound: it has a binding.
FnBlocks == [calls : UNION {[1..n -> BlockCalls] : n \in 0..MaxBlockCalls},
             owner : {"declared", "orphan", "bound"}]

BlockStart(calls) ==
  stages = [i \in DOMAIN calls |-> calls[i].stage]

Reject(rules) == rejected' = rejected \cup rules

\* An orphan and a binding are errors, and the other rules are checked as well.
CheckOwner ==
  /\ kpc = "owner"
  /\ Reject({block.owner} \ {"declared"})
  /\ kpc' = "references"
  /\ UNCHANGED <<block, stages, nodeTurn, demand, sites, warned>>

Resolves(call) == call.callee \in DOMAIN Owned
CheckReferences ==
  /\ kpc = "references"
  /\ Reject({r \in {"undeclared"} : \E i \in DOMAIN block.calls :
                ~Resolves(block.calls[i]) /\ block.calls[i].callee # AssignmentStep})
  /\ kpc' = "monotone"
  /\ UNCHANGED <<block, stages, nodeTurn, demand, sites, warned>>

\* Each stage that is written is compared with the one written before it.
Before(i) == {j \in 1..(i - 1) : stages[j] # Unstaged}
CheckMonotone ==
  /\ kpc = "monotone"
  /\ Reject({r \in {"stage"} : \E i \in DOMAIN stages :
               /\ stages[i] # Unstaged /\ Before(i) # {}
               /\ stages[i] < stages[CHOOSE j \in Before(i) : \A k \in Before(i) : k <= j]})
  /\ kpc' = "assign"
  /\ UNCHANGED <<block, stages, nodeTurn, demand, sites, warned>>

Largest == CHOOSE m \in {0} \cup {stages[i] : i \in DOMAIN stages} :
             0 <= m /\ \A i \in DOMAIN stages : stages[i] <= m
\* Mutant: counting begins at the last stage, not behind it.
MutNextStage(i) == Largest + Cardinality({j \in 1..(i - 1) : stages[j] = Unstaged})
\* The calls without a stage get stages of their own, behind all that are
\* written: also a call that is written in front of them.
NextStage(i) == Largest + 1 + Cardinality({j \in 1..(i - 1) : stages[j] = Unstaged})
AssignStages ==
  /\ kpc = "assign"
  /\ stages' = [i \in DOMAIN stages |->
                  IF stages[i] = Unstaged THEN NextStage(i) ELSE stages[i]]
  /\ kpc' = "owned"
  /\ UNCHANGED <<block, nodeTurn, demand, sites, rejected, warned>>

\* How often an owned parameter of the type occurs in the calls of a stage.
OwnedUses(t, stage) ==
  {u \in (DOMAIN stages) \X (1..2) :
     /\ stages[u[1]] = stage /\ Resolves(block.calls[u[1]])
     /\ u[2] \in DOMAIN Owned[block.calls[u[1]].callee]
     /\ Owned[block.calls[u[1]].callee][u[2]] = t}
\* S-OWN-002, a warning: of a stage with two calls or more.
WarnOwned ==
  /\ kpc = "owned"
  /\ warned' = {stages[i] : i \in {j \in DOMAIN stages :
                  /\ \E k \in DOMAIN stages \ {j} : stages[k] = stages[j]
                  /\ \E t \in {"A", "B"} : Cardinality(OwnedUses(t, stages[j])) >= 2}}
  /\ kpc' = "ruled"
  /\ UNCHANGED <<block, stages, nodeTurn, demand, sites, rejected>>

(* ------------------------------- pipelines ------------------------------ *)
NoSites == [i \in 1..FlowSize |-> [style |-> "none", used |-> {}]]
BlockInit ==
  /\ \/ block \in FnBlocks /\ kpc = "owner" /\ BlockStart(block.calls)
     \/ block \in BlockFlows /\ kpc = "match" /\ stages = <<>>
  /\ nodeTurn = 1 /\ demand = [i \in 1..FlowSize |-> {}] /\ sites = NoSites
  /\ rejected = {} /\ warned = {}

\* The edges that lead to a node.
Feeders(n) == {i \in DOMAIN block.edges : block.edges[i][2] = n}
\* The fields of all predecessors that return several, each with the node it comes
\* from: a predecessor counts once for each of its edges.
OfferedBy(i, n) ==
  LET p == block.edges[i][1]
      f == block.returns[p]
  IN IF i \in Feeders(n) /\ f.multi
     THEN [k \in DOMAIN f.returns |-> [node |-> p, field |-> f.returns[k]]] ELSE <<>>
Offered(n) ==
  LET upto[k \in 0..Len(block.edges)] ==
        IF k = 0 THEN <<>> ELSE upto[k - 1] \o OfferedBy(k, n)
  IN upto[Len(block.edges)]

\* SmartStructMatcher::match, as SmartStructMatcher has it step by step: pairs
\* of an offer and a parameter.
Matching(offers, params) ==
  LET upto[t \in 0..Len(params)] ==
        IF t = 0 THEN {}
        ELSE LET taken == {m[1] : m \in upto[t - 1]}
                 left == {s \in DOMAIN offers \ taken : offers[s].field.type = params[t].type}
                 named == {s \in left : offers[s].field.name = params[t].name}
                 free == IF Cardinality(left) = 1 THEN left ELSE named
             IN upto[t - 1] \cup {<<s, t>> : s \in {f \in free : \A g \in free : f <= g}}
  IN upto[Len(params)]
Matches1(n) == Matching(Offered(n), block.params[n])
MatchSucceeds(n) == Cardinality(Matches1(n)) = Len(block.params[n])

\* A node that several fields are offered to takes them by type and name; in a
\* flow the single value of a single producer is the node's single parameter.
LoneMismatch(n) ==
  /\ block.flow /\ Cardinality(Feeders(n)) = 1 /\ Len(block.params[n]) = 1
  /\ \E i \in Feeders(n) :
       block.returns[block.edges[i][1]].returns[1].type # block.params[n][1].type
MatchNode ==
  /\ kpc = "match" /\ nodeTurn <= FlowSize
  /\ Reject({r \in {"match"} :
              IF Offered(nodeTurn) = <<>> THEN LoneMismatch(nodeTurn)
              ELSE ~MatchSucceeds(nodeTurn)})
  /\ nodeTurn' = nodeTurn + 1
  /\ UNCHANGED <<block, kpc, stages, demand, sites, warned>>

\* All that the last node returns is asked for...
AskLast ==
  /\ kpc = "match" /\ nodeTurn > FlowSize
  /\ demand' = [demand EXCEPT ![block.last] =
       IF block.returns[block.last].multi
       THEN {f.name : f \in Range(block.returns[block.last].returns)}
       ELSE {}]
  /\ kpc' = "demand" /\ nodeTurn' = FlowSize
  /\ UNCHANGED <<block, stages, sites, rejected, warned>>

\* What node n takes from node p.
Asked(n, p) ==
  {Offered(n)[m[1]].field.name : m \in {k \in Matches1(n) : Offered(n)[k[1]].node = p}}

\* Mutant: what one consumer takes replaces what another one takes.
MutAddDemand(p, names) == IF names = {} THEN demand[p] ELSE names
AddDemand(p, names) == demand[p] \cup names

\* ...and backwards what each node takes from those before it, if its match
\* succeeds: whether its own result is wanted makes no difference.
AskSources ==
  /\ kpc = "demand" /\ nodeTurn >= 1
  /\ demand' = [p \in 1..FlowSize |->
       AddDemand(p, IF Feeders(nodeTurn) # {} /\ MatchSucceeds(nodeTurn)
                    THEN Asked(nodeTurn, p) ELSE {})]
  /\ nodeTurn' = nodeTurn - 1
  /\ UNCHANGED <<block, kpc, stages, sites, rejected, warned>>

\* What is asked for under the ceiling of `with returns`.
Clamp(n) == demand[n] \cap block.returns[n].ceiling

InPipeline(n) == \E i \in DOMAIN block.edges : n \in {block.edges[i][1], block.edges[i][2]}
Site(style, used) == [style |-> style, used |-> used]
\* The call sites: without a demand a call delivers everything, or its ceiling.
SetCallSites ==
  /\ kpc = "demand" /\ nodeTurn = 0
  /\ sites' = [n \in 1..FlowSize |->
       IF ~InPipeline(n) THEN sites[n]
       ELSE CASE demand[n] = {} /\ block.returns[n].ceiling = NoCeiling -> Site("Full", {})
              [] demand[n] = {} /\ block.returns[n].ceiling # NoCeiling ->
                   Site("SmartPass", block.returns[n].ceiling)
              [] demand[n] # {} /\ block.returns[n].ceiling = NoCeiling ->
                     Site("SmartPass", demand[n])
              [] OTHER -> Site("SmartPass", Clamp(n))]
  /\ kpc' = "ruled"
  /\ UNCHANGED <<block, stages, nodeTurn, demand, rejected, warned>>

BlockNext ==
  \/ CheckOwner \/ CheckReferences \/ CheckMonotone \/ AssignStages \/ WarnOwned
  \/ MatchNode \/ AskLast \/ AskSources \/ SetCallSites
BlockSpec == BlockInit /\ [][BlockNext]_blockVars

-----------------------------------------------------------------------------
IsFn == "calls" \in DOMAIN block
Written(i) == block.calls[i].stage
\* Two calls run concurrently only where both were written into the stage, and
\* calls of an accepted block that were staged run in the order they are
\* written in; without a warning, no two of them own a value of the same type
\* (SemanticAnalyzer.cpp:1054-1132).
StagesAgree ==
  kpc = "ruled" /\ IsFn =>
    \A i, j \in DOMAIN stages : i < j =>
      /\ stages[i] = stages[j] => Written(i) = Written(j) /\ Written(i) # Unstaged
      /\ rejected = {} /\ Written(i) # Unstaged => stages[i] <= stages[j]
      /\ (stages[i] = stages[j] /\ stages[i] \notin warned
            /\ Resolves(block.calls[i]) /\ Resolves(block.calls[j])) =>
           LET owned(k) == Range(Owned[block.calls[k].callee])
           IN owned(i) \cap owned(j) = {}

\* What a call delivers.
Delivered(n) ==
  IF sites[n].style = "Full" THEN {f.name : f \in Range(block.returns[n].returns)}
  ELSE sites[n].used
\* A field that `with returns` hides.
HiddenField(n, name) ==
  block.returns[n].ceiling # NoCeiling /\ name \notin block.returns[n].ceiling
\* In an accepted pipeline every parameter of a node that is fed by producers of
\* several fields has a field of its own, of its type, that the producer's call
\* delivers (or that `with returns` hides: this is not diagnosed); and a call
\* that is asked for some fields delivers no field that nothing takes
\* (SemanticAnalyzer.cpp:1374-1470).
ReadIsDelivered ==
  kpc = "ruled" /\ ~IsFn /\ rejected = {} =>
    /\ \A n \in 1..FlowSize : Offered(n) # <<>> =>
         \E bound \in [DOMAIN block.params[n] -> DOMAIN Offered(n)] :
           \A t, u \in DOMAIN bound :
             LET o == Offered(n)[bound[t]] IN
             /\ bound[t] = bound[u] => t = u
             /\ o.field.type = block.params[n][t].type
             /\ o.field.name \in Delivered(o.node) \/ HiddenField(o.node, o.field.name)
    /\ \A n \in 1..FlowSize : \A name \in sites[n].used :
         \/ n = block.last \/ sites[n].used = block.returns[n].ceiling
         \/ \E f \in Range(block.returns[n].returns), e \in Range(block.edges) :
              /\ f.name = name /\ e[1] = n
              /\ \E p \in Range(block.params[e[2]]) : p.type = f.type
=============================================================================
