--------------------------- MODULE TranspileDriver ---------------------------
(***************************************************************************)
(* One run of TranspileDriver (lib/Transpile/TranspileDriver.cpp).  From   *)
(* host sources: parse the .topo file, let an extractor process return the *)
(* functions, bind them to the declarations, filter by a pipeline, emit,   *)
(* write, verify.  From .topo sources: build the module (TopoSource),      *)
(* restrict it to the requested functions, resolve the leaves, emit,       *)
(* write, add a project skeleton, verify.  Every early return leaves       *)
(* success FALSE.                                                          *)
(***************************************************************************)
EXTENDS TopoSource

VARIABLES
  tpc,          \* the step the driver is at
  request,      \* what run() is asked
  module,       \* [functions, types]
  built,        \* the functions before the leaves were resolved
  report        \* [warnings, errors, success, files, total, degraded]

driverVars == <<tpc, request, module, built, report>>

NoReport == [warnings |-> {}, errors |-> {}, success |-> FALSE, files |-> {}, total |-> 0,
             degraded |-> FALSE]
NoLimit == 99

-----------------------------------------------------------------------------
\* Verification.

\* The descriptions of the nodes of a function, and the summaries that match none of them:
\* matched by occurrence, so two alike are two.
nodesOf(f) == FlattenSeq([i \in DOMAIN f.body |-> f.body[i].bad])
Occurrences(s, d) == Len(SelectSeq(s, LAMBDA x : x = d))
larger(a, b) == IF a > b THEN a ELSE b
mergeUnsupportedSummaries(nodes, summaries) ==
  FoldLeft(LAMBDA n, d : n + larger(Occurrences(nodes, d), Occurrences(summaries, d)), 0,
           SetToSeq(ToSet(nodes) \cup ToSet(summaries)))
\* A type is [q, lost]: the Unsupported nodes of its field and type initialisers.
verifyModule(m) ==
  FoldLeft(LAMBDA n, f : n + mergeUnsupportedSummaries(nodesOf(f), f.unsupported), 0, m.functions)
  + FoldLeft(LAMBDA n, t : n + mergeUnsupportedSummaries(t.lost, <<>>), 0, m.types)

applyVerificationGate(total, limit) == limit # NoLimit /\ total > limit

-----------------------------------------------------------------------------
\* The steps.

\* The inputs: what the properties tell apart, in small sets.
NoExpr == <<>>
LiteralNode == [k |-> "Literal", op |-> None, a |-> <<>>]
Deref == [k |-> "Unary", op |-> "*", a |-> <<LiteralNode>>]
CallExpr == [k |-> "Call", op |-> None, a |-> <<Deref, LiteralNode>>]
Exprs == {LiteralNode, [k |-> "Binary", op |-> "+", a |-> <<Deref, CallExpr>>],
          [k |-> "Other", op |-> None, a |-> <<>>], NoExpr}
Assignment(e) == [k |-> "assign", n |-> "v", e |-> e]
CallOf(q, how) == [k |-> "call", n |-> "v", callee |-> q, bind |-> how]
Edge(a, b, t) == [src |-> a, dst |-> b, terminal |-> t]
Blocks ==
  {[pipeline |-> FALSE, ops |-> <<CallOf("g", how), Assignment(e)>>] :
     how \in {"one", "many", "none"}, e \in Exprs}
  \cup {[pipeline |-> TRUE, edges |-> <<Edge("g", "h", FALSE), Edge("h", None, TRUE)>>]}
DeclOf(q, sig, special) == [q |-> q, sig |-> sig, ext |-> FALSE, special |-> special]
SourceFiles ==
  {[decls |-> <<DeclOf("f", "s", FALSE), DeclOf("g", "s", FALSE), DeclOf("h", "s", special)>>,
    blocks |-> (name :> b), externalType |-> FALSE] :
      name \in {"f", "flow"}, b \in Blocks, special \in BOOLEAN}
  \cup {[decls |-> <<>>, blocks |-> <<>>, externalType |-> x] : x \in BOOLEAN}
Adapter(id, sig, opaque) ==
  [id |-> id, fn |-> "g", lang |-> "cpp", sig |-> sig, prov |-> None, opaque |-> opaque]
Holds(entries) == [state |-> "read", entries |-> entries]
Manifests ==
  {[state |-> x, entries |-> <<>>] : x \in {"unreadable", "malformed"}}
  \cup {Holds(<<>>), Holds(<<Adapter("m", "s", FALSE)>>), Holds(<<Adapter("m2", "other", FALSE)>>),
        Holds(<<Adapter("m3", "s", TRUE)>>)}
Builtins == {<<>>, <<[Adapter("b", "s", FALSE) EXCEPT !.fn = "h"], Adapter("b2", "s", FALSE)>>}
NoPipeline == [kind |-> "none", calls |-> {}]
Limits == {NoLimit, 0, 2}
TopoRequests ==
  [topo : {TRUE}, file : SourceFiles, parses : {TRUE}, lang : {"cpp"}, builtin : Builtins,
   app : Manifests,
   tpm : {<<>>} \cup {<<m, n>> : m, n \in {Holds(<<>>), Holds(<<Adapter("t", "s", FALSE)>>)}},
   functions : {{}, {"g"}}, pipeline : {NoPipeline}, limit : Limits]
HostRequests ==
  [topo : {FALSE},
   file : {CHOOSE f \in SourceFiles : f.decls # <<>>, CHOOSE f \in SourceFiles : f.decls = <<>>},
   parses : BOOLEAN, functions : {{}, {"f"}}, limit : Limits, external : {{}, {"f"}},
   calls : {{}, {<<"f", "g">>, <<"g", "f">>}},
   pipeline : {NoPipeline, [kind |-> "missing", calls |-> {}]}
              \cup [kind : {"pipeline", "operation"}, calls : {{}, {"f"}}]]
Requests == TopoRequests \cup HostRequests
\* The modules an extractor may return: functions with repeated losses, a type with a lost
\* initialiser.
Extracted(q, nodes, summary) ==
  [Function(q, "T", FALSE) EXCEPT !.unsupported = summary,
     !.body = <<StmtOf("ExprStmt", None, None, nodes)>>]
Replies ==
  [functions : {<<>>} \cup
     {<<Extracted("f", n, s), Extracted("g", <<>>, <<>>), Extracted("h", n, <<>>)>> :
        n, s \in {<<>>, <<"x">>, <<"x", "x">>, <<"x", "y">>}},
   types : {<<>>, <<[q |-> "T", lost |-> <<>>], [q |-> "U", lost |-> <<"y">>]>>}]

DriverInit ==
  /\ request \in Requests
  /\ tpc = "start" /\ module = [functions |-> <<>>, types |-> <<>>] /\ built = <<>>
  /\ report = NoReport

Stop(warnings) ==
  /\ tpc' = "done" /\ report' = [report EXCEPT !.warnings = @ \cup warnings]
  /\ UNCHANGED <<request, module, built>>
Go(next) == tpc' = next /\ UNCHANGED request

\* parseTopoFile(): a file that cannot be opened or parsed, or, for host sources, has semantic
\* errors.
ParseFails == tpc = "start" /\ ~request.parses /\ Stop({"parse errors"})

NothingDeclared ==
  /\ tpc = "start" /\ request.parses /\ ~request.topo
  /\ request.functions = {} /\ request.file.decls = <<>> /\ Stop({"no functions"})
asksForSome == request.functions # {} \/ request.file.decls # <<>>

\* extractFunctions(): no tool, a failed write, an empty or broken answer, diagnostics of
\* severity error or an incomplete analysis.  The message of a degraded but successful run goes
\* into extractErrors, which run() reads only after a failure.
ExtractFails ==
  /\ tpc = "start" /\ request.parses /\ ~request.topo /\ asksForSome
  /\ \E why \in {"no tool", "no output", "bad response", "incomplete analysis"} : Stop({why})
\* Each extracted function is bound to its declaration, external ones are marked.
boundTo(f) == [f EXCEPT !.ext = f.q \in request.external]
Extract ==
  /\ tpc = "start" /\ request.parses /\ ~request.topo /\ asksForSome
  /\ \E reply \in Replies, degraded \in BOOLEAN :
       /\ module' = [reply EXCEPT !.functions = [i \in DOMAIN @ |-> boundTo(@[i])]]
       /\ report' = [report EXCEPT !.degraded = degraded]
  /\ built' = <<>>
  /\ Go("filter")

\* filterByPipeline(): the functions reached over the call sites from those the pipeline calls;
\* with none, the filter returns before it removes anything.
RECURSIVE reachableFrom(_, _)
reachableFrom(seen, calls) ==
  LET more == seen \cup {c[2] : c \in {d \in calls : d[1] \in seen}}
  IN  IF more = seen THEN seen ELSE reachableFrom(more, calls)
keptFunctions(fs, reachable) == SelectSeq(fs, LAMBDA f : f.q \in reachable)
\* A type stays if the signature of a kept function names it.
keptTypes(ts, fs) == SelectSeq(ts, LAMBDA t : \E i \in DOMAIN fs : t.q = fs[i].sig)
Filter ==
  /\ tpc = "filter"
  /\ LET p == request.pipeline
         reachable == reachableFrom(p.calls, request.calls)
         fs == keptFunctions(module.functions, reachable)
     IN  CASE p.kind = "none" -> Go("emit") /\ UNCHANGED <<module, built, report>>
           [] p.kind \in {"missing", "operation"} -> Stop({"no such pipeline"})
           [] p.kind = "pipeline" /\ reachable = {} ->
                /\ report' = [report EXCEPT !.warnings = @ \cup {"no referenced functions"}]
                /\ Go("emit") /\ UNCHANGED <<module, built>>
           [] OTHER ->
                /\ module' = [functions |-> fs, types |-> keptTypes(module.types, fs)]
                /\ Go("emit") /\ UNCHANGED <<built, report>>

\* runFromTopoSource(): an external type fails the build.
BuildFails ==
  /\ tpc = "start" /\ request.parses /\ request.topo
  /\ ~build(request.file).success /\ Stop({"external type"})
Build ==
  /\ tpc = "start" /\ request.parses /\ request.topo
  /\ LET b == build(request.file)
         fs == IF request.functions = {} THEN b.functions
               ELSE keptFunctions(b.functions, request.functions)
     IN  /\ b.success
         /\ IF fs = <<>> THEN Stop({"no functions"})
            ELSE /\ module' = [functions |-> fs, types |-> <<>>] /\ built' = fs
                 /\ Go("resolve") /\ UNCHANGED report
registryOf(r) == assembleAdapterRegistry(r.builtin, r.app, r.tpm)
\* Each degradation is a warning as well; those about skipped and overridden adapters are left
\* out.
degradedReasons(fs) == {"no adapter", "ambiguous adapter", "signature mismatch"}
                       \cap UNION {ToSet(fs[i].unsupported) : i \in DOMAIN fs}
Resolve ==
  /\ tpc = "resolve"
  /\ module' = [module EXCEPT !.functions = resolve(@, registryOf(request).entries, request.lang)]
  /\ report' = [report EXCEPT !.warnings =
       @ \cup (IF registryOf(request).warnings > 0 THEN {"manifest"} ELSE {})
         \cup (IF request.pipeline.kind # "none" THEN {"pipeline ignored"} ELSE {})
         \cup degradedReasons(module'.functions)]
  /\ Go("emit") /\ UNCHANGED built

\* validateEmission() of the emitter refuses initialisers; the code comes out all the same, or
\* is empty.
emitErrors(m) == IF \E i \in DOMAIN m.types : m.types[i].lost # <<>> THEN {"initializer"} ELSE {}
Emit ==
  /\ tpc = "emit"
  /\ \E code \in BOOLEAN :
       LET errors == emitErrors(module)
       IN  /\ report' = [report EXCEPT !.total = verifyModule(module), !.errors =
                           @ \cup errors
                           \cup (IF ~code /\ errors = {} THEN {"empty output"} ELSE {})]
           /\ Go(IF code THEN "write" ELSE "done") /\ UNCHANGED <<module, built>>

\* The output file, then for .topo sources the copy of the file and Topo.toml: only the first
\* failure ends the run.
Write ==
  /\ tpc = "write"
  /\ \E ok \in BOOLEAN :
       IF ~ok THEN Stop({"write failed"})
       ELSE /\ report' = [report EXCEPT !.files = @ \cup {"output"}]
            /\ Go(IF request.topo THEN "skeleton" ELSE "verify") /\ UNCHANGED <<module, built>>
Skeleton ==
  /\ tpc = "skeleton"
  /\ \E made \in SUBSET {"topo", "toml"} :
       report' = [report EXCEPT !.files = @ \cup made, !.warnings =
                    @ \cup (IF made # {"topo", "toml"} THEN {"skeleton"} ELSE {})]
  /\ Go("verify") /\ UNCHANGED <<module, built>>

Tally ==
  /\ tpc = "verify"
  /\ LET total == verifyModule(module)
         fails == applyVerificationGate(total, request.limit)
     IN  report' = [report EXCEPT !.total = total,
           !.warnings = @ \cup (IF total > 0 THEN {"unsupported construct"} ELSE {}),
           !.errors = @ \cup (IF fails THEN {"gate"} ELSE {}),
           !.success = report.errors = {} /\ ~fails]
  /\ Go("done") /\ UNCHANGED <<module, built>>

DriverNext == \/ ParseFails \/ NothingDeclared \/ ExtractFails \/ Extract \/ Filter
              \/ BuildFails \/ Build \/ Resolve \/ Emit \/ Write \/ Skeleton \/ Tally
DriverSpec == DriverInit /\ [][DriverNext]_driverVars

-----------------------------------------------------------------------------
\* What a leaf should become: the adapter of the highest rank among those of its name, target
\* and signature, if there is just one; else one reported placeholder.
Best(f) ==
  LET all == registryOf(request).entries
      fits == {i \in DOMAIN all : all[i].fn = f.q /\ all[i].lang = request.lang
                                  /\ all[i].sig = f.sig}
      rank(i) == provenanceRank(all[i].prov)
  IN  {all[i] : i \in {j \in fits : \A k \in fits : rank(k) <= rank(j)}}
BestCount(f) ==
  LET all == registryOf(request).entries
  IN  Len(SelectSeq(all, LAMBDA a : a \in Best(f)))
LeafIsFilled(f, g) ==
  IF BestCount(f) = 1
    THEN LET a == CHOOSE x \in Best(f) : TRUE
         IN  IF a.opaque THEN nodesOf(g) = <<a.id>> ELSE nodesOf(g) = <<>> /\ g.body[1].call = a.id
    ELSE /\ Len(nodesOf(g)) = 1 /\ g.unsupported = nodesOf(g) /\ g.fidelity # "Source"
         /\ ToSet(nodesOf(g)) \subseteq report.warnings

\* What the source says a function loses: operators and forms without a node, several names
\* bound by one call.
LostBy(f) ==
  IF isUnresolvedLeaf(f) THEN
    IF BestCount(f) # 1 \/ \E a \in Best(f) : a.opaque THEN 1 ELSE 0
  ELSE LET ops == request.file.blocks[f.q].ops
       IN  IF request.file.blocks[f.q].pipeline THEN 0
           ELSE FoldLeft(LAMBDA n, op : n + (IF op.k = "assign" THEN Len(lowerExpr(op.e))
                                             ELSE IF op.bind = "many" THEN 1 ELSE 0), 0, ops)
Sum(fs) == FoldLeft(LAMBDA n, f : n + LostBy(f), 0, fs)

\* After a run from .topo sources that resolved the leaves, each leaf is filled by the one best
\* adapter or holds one reported placeholder, nothing else changed, and every construct that was
\* lost is counted once.  After any run, success means that a file was written, without errors,
\* within the limit; a run with a pipeline kept only what the pipeline reaches.
Accounted ==
  tpc = "done" =>
    /\ built # <<>> /\ "output" \in report.files =>
         /\ \A i \in DOMAIN built :
              IF isUnresolvedLeaf(built[i]) THEN LeafIsFilled(built[i], module.functions[i])
              ELSE module.functions[i] = built[i]
         /\ report.total = Sum(built)
    /\ report.success =>
         /\ "output" \in report.files /\ report.errors = {}
         /\ request.limit = NoLimit \/ report.total <= request.limit
         /\ request.pipeline.kind = "pipeline" /\ ~request.topo /\ request.pipeline.calls # {} =>
              \A i \in DOMAIN module.functions :
                \/ module.functions[i].q \in request.pipeline.calls
                \/ \E c \in request.calls : c[2] = module.functions[i].q
                     /\ c[1] \in reachableFrom(request.pipeline.calls, request.calls)

\* The comment at the end of extractFunctions(): a degraded extraction "is reported even on
\* successful extraction; callers may choose warn vs fail".  run() drops it.
DegradationIsReported ==
  tpc = "done" /\ report.degraded /\ report.success => "degraded mode" \in report.warnings
=============================================================================
