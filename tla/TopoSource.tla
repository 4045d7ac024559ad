----------------------------- MODULE TopoSource -----------------------------
(***************************************************************************)
(* From a .topo file to a transpile module, without host sources:          *)
(* lib/Transpile/TopoSourceBuilder.cpp turns declarations and logic blocks *)
(* into functions and marks those without a block as unresolved leaves;    *)
(* lib/Transpile/AdapterResolver.cpp fills each leaf from a registry of    *)
(* adapters, or degrades it.  Operators only: TranspileDriver runs them.   *)
(*                                                                         *)
(* A name, a signature and a description are values.  A function is        *)
(*   [q, sig, ext, body, unsupported, fidelity]                            *)
(* where a statement is [s, n, call, bad]: its kind, the variable, the     *)
(* callee if it calls, and the descriptions of the Unsupported nodes in it *)
(* in order.  unsupported is the summary that goes with the body.          *)
(***************************************************************************)
EXTENDS Naturals, Sequences, SequencesExt, FiniteSets, TLC

\* kLeafUnresolvedMarker
Marker == "leaf-unresolved"
None == "none"

StmtOf(s, n, call, bad) == [s |-> s, n |-> n, call |-> call, bad |-> bad]

-----------------------------------------------------------------------------
\* TopoSourceBuilder.  A file is [decls, blocks, flows, externalType]: declarations
\* [q, sig, ext, special] in source order, the logic block of each name that has one, and
\* whether a type is declared external.  An expression is [k, op, a].

\* The operators the transpile model has a node for.
mapsTo(e) == \/ e.k = "Binary" /\ e.op \in {"+", "<", "&&"}
             \/ e.k = "Unary" /\ e.op \in {"-", "!"}

\* The descriptions of what cannot be lowered, in the order met: an operator without a node
\* replaces its whole expression.
RECURSIVE lowerExpr(_)
lowerExpr(e) ==
  CASE e = <<>> -> <<"empty expression">>
    [] e.k \in {"Binary", "Unary"} /\ ~mapsTo(e) -> <<"operator not representable">>
    [] e.k \in {"Binary", "Unary", "Call"} ->
         FlattenSeq([i \in DOMAIN e.a |-> lowerExpr(e.a[i])])
    [] e.k \in {"Literal", "Identifier"} -> <<>>
    [] OTHER -> <<"form not representable">>

Lossy(f, what) == [f EXCEPT !.unsupported = @ \o what,
                            !.fidelity = IF what # <<>> /\ @ = "Source" THEN "Inferred" ELSE @]

\* buildOperationBody, one operation: x = e assigns if x is bound before, else declares it; a
\* call binds one name, is run for its effect, or loses the several names it binds.
boundNames(f) == {f.body[i].n : i \in {j \in DOMAIN f.body : f.body[j].s = "VarDecl"}}
buildOperation(f, op) ==
  LET bad == lowerExpr(op.e)
      do(s, n, call, b) == [f EXCEPT !.body = Append(@, StmtOf(s, n, call, b))]
  IN  CASE op.k = "assign" ->
             Lossy(do(IF op.n \in boundNames(f) THEN "Assign" ELSE "VarDecl", op.n, None, bad), bad)
        [] op.k = "call" /\ op.bind = "one" -> do("VarDecl", op.n, op.callee, <<>>)
        [] op.k = "call" /\ op.bind = "many" ->
             Lossy(do("ExprStmt", None, op.callee, <<>>), <<"multi-value binding">>)
        [] op.k = "call" /\ op.bind = "none" -> do("ExprStmt", None, op.callee, <<>>)

\* buildPipelineBody: a call per node in the order the edges name them, then the return of the
\* last terminal node.  An edge is [src, dst, terminal].
nodeOrder(edges) ==
  FoldLeft(LAMBDA order, e :
             LET one == IF e.src \in ToSet(order) THEN order ELSE Append(order, e.src)
             IN  IF e.terminal \/ e.dst \in ToSet(one) THEN one ELSE Append(one, e.dst),
           <<>>, edges)
buildPipelineBody(f, edges) ==
  LET order == nodeOrder(edges)
      ends == SelectSeq(edges, LAMBDA e : e.terminal)
  IN  [f EXCEPT !.body =
         [i \in DOMAIN order |-> StmtOf("VarDecl", order[i], order[i], <<>>)]
         \o IF ends = <<>> THEN <<>> ELSE <<StmtOf("Return", Last(ends).src, None, <<>>)>>]

buildCompositeBody(f, block) ==
  IF block.pipeline THEN buildPipelineBody(f, block.edges)
  ELSE FoldLeft(buildOperation, f, block.ops)

Function(q, sig, ext) ==
  [q |-> q, sig |-> sig, ext |-> ext, body |-> <<>>, unsupported |-> <<>>, fidelity |-> "Source"]
buildFunction(d, blocks) ==
  LET f == Function(d.q, d.sig, d.ext)
  IN  IF d.q \in DOMAIN blocks THEN buildCompositeBody(f, blocks[d.q])
      ELSE [f EXCEPT !.unsupported = Append(@, Marker)]

\* Operators, constructors and destructors are not collected.  A block without a declaration
\* (a flow) is a function of its own; its place among the others is that of a hash map.
collected(file) == SelectSeq(file.decls, LAMBDA d : ~d.special)
orphans(file) == DOMAIN file.blocks \ {d.q : d \in ToSet(collected(file))}
buildOrphanComposite(q, blocks) == buildCompositeBody(Function(q, "flow", FALSE), blocks[q])
build(file) ==
  LET decls == collected(file)
  IN  [success |-> ~file.externalType,
       functions |-> [i \in DOMAIN decls |-> buildFunction(decls[i], file.blocks)]
                     \o [i \in 1..Cardinality(orphans(file)) |->
                           buildOrphanComposite(SetToSeq(orphans(file))[i], file.blocks)]]

-----------------------------------------------------------------------------
\* AdapterResolver.  An adapter is [id, fn, lang, sig, prov, opaque]; its body is named by id.

provenanceRank(p) == CASE p = "tpm" -> 3 [] p = "topo-app" -> 2 [] p = "builtin" -> 1

\* ManifestAdapterSource::fromJson: a manifest is unreadable, malformed (not an array, a
\* missing key, none or both of the two bodies), or read, with all of its entries.
\* Either failure is a warning, and the other sources stand.
usable(manifest) == manifest.state = "read"
asProvenance(p, entries) == [i \in DOMAIN entries |-> [entries[i] EXCEPT !.prov = p]]
assembleAdapterRegistry(builtin, app, tpm) ==
  LET used == SelectSeq(tpm, usable)
  IN  [entries |-> asProvenance("builtin", builtin)
                   \o (IF usable(app) THEN asProvenance("topo-app", app.entries) ELSE <<>>)
                   \o FlattenSeq([i \in DOMAIN used |-> asProvenance("tpm", used[i].entries)]),
       warnings |-> (IF usable(app) THEN 0 ELSE 1) + Len(tpm) - Len(used)]

isUnresolvedLeaf(f) == Marker \in ToSet(f.unsupported)
lookup(registry, q, lang) == SelectSeq(registry, LAMBDA a : a.fn = q /\ a.lang = lang)
\* Plausible mistake: the signature is not compared.
MutMatches(a, f) == TRUE
signatureMatches(a, f) == a.sig = f.sig

unmarked(f) == SelectSeq(f.unsupported, LAMBDA u : u # Marker)
degradeLeaf(f, reason) ==
  [f EXCEPT !.unsupported = Append(unmarked(f), reason),
            !.body = <<StmtOf("ExprStmt", None, None, <<reason>>)>>,
            !.fidelity = IF @ = "Source" THEN "Inferred" ELSE @]
\* An opaque body is target source in an Unsupported node, embedded as it is.
installAdapter(f, a) ==
  [f EXCEPT !.unsupported = unmarked(f),
            !.body = IF a.opaque THEN <<StmtOf("ExprStmt", None, None, <<a.id>>)>>
                     ELSE <<StmtOf("Return", None, a.id, <<>>)>>]

\* The walk over the ranks of the candidates, the highest first: a rank without a compatible
\* candidate is passed over, one compatible candidate is chosen, more are ambiguous.
RECURSIVE walkRanks(_, _, _)
walkRanks(candidates, f, ranks) ==
  IF ranks = {} THEN [how |-> "none", chosen |-> <<>>]
  ELSE LET r == CHOOSE x \in ranks : \A y \in ranks : x >= y
           compatible == SelectSeq(candidates,
              LAMBDA a : provenanceRank(a.prov) = r /\ signatureMatches(a, f))
       IN  CASE Len(compatible) = 1 -> [how |-> "one", chosen |-> compatible[1]]
             [] Len(compatible) > 1 -> [how |-> "ambiguous", chosen |-> <<>>]
             [] OTHER -> walkRanks(candidates, f, ranks \ {r})

resolveOne(registry, lang, f) ==
  LET candidates == lookup(registry, f.q, lang)
      w == walkRanks(candidates, f, {provenanceRank(candidates[i].prov) : i \in DOMAIN candidates})
  IN  CASE ~isUnresolvedLeaf(f) -> f
        [] candidates = <<>> -> degradeLeaf(f, "no adapter")
        [] w.how = "ambiguous" -> degradeLeaf(f, "ambiguous adapter")
        [] w.how = "none" -> degradeLeaf(f, "signature mismatch")
        [] OTHER -> installAdapter(f, w.chosen)
resolve(functions, registry, lang) ==
  [i \in DOMAIN functions |-> resolveOne(registry, lang, functions[i])]
=============================================================================
