--------------------------- MODULE ModelOptimizer ---------------------------
(***************************************************************************)
(* The idiomatic pipeline of lib/Transpile/ModelOptimizer.cpp: three       *)
(* passes rewrite the body of each function of a transpile module in       *)
(* place.  TempFoldingPass replaces a generated temporary by its           *)
(* initialiser where it is used once, in the next statement; it visits     *)
(* each block from the inside out.  NameHeuristicsPass gives the generated *)
(* names that are left better ones.  DeadCodeElimPass cuts each block      *)
(* after its first terminator.                                             *)
(*                                                                         *)
(* An expression is a record of its kind, its name (variable, operator,    *)
(* callee or literal) and its operands; a statement of its kind, the name  *)
(* it declares, its expressions and its blocks (of a for: the initial      *)
(* statement, then the body).  Three walks of the source, over reference   *)
(* counts, replacement and renaming, skip the same expression kinds, those *)
(* outside Visited: one of them is Throw.                                  *)
(***************************************************************************)
EXTENDS Naturals, Sequences, SequencesExt, FiniteSets, TLC

CONSTANT
  MaxBody       \* statements of a body

VARIABLES
  opc,          \* the next pass
  func,         \* [isExternal, params, body], as it is now
  source        \* the function the pipeline was given

optVars == <<opc, func, source>>

Expr(k, n, a) == [k |-> k, n |-> n, a |-> a]
Stmt(s, n, e, b) == [s |-> s, n |-> n, e |-> e, b |-> b]

\* The kinds countRefs(), replaceRef() and renameInExpr() look into.
Visited == {"BinaryOp", "UnaryOp", "Call", "MemberAccess", "Index", "Construct",
            "Ternary", "CompoundAssign"}

RECURSIVE AllExprs(_)
\* The kinds of every expression of a body (visitStatements).
AllExprs(body) ==
  LET RECURSIVE Kinds(_)
      Kinds(e) == {e.k} \cup UNION {Kinds(e.a[i]) : i \in DOMAIN e.a}
  IN  UNION {UNION {Kinds(body[i].e[j]) : j \in DOMAIN body[i].e}
             \cup UNION {AllExprs(body[i].b[j]) : j \in DOMAIN body[i].b}
             : i \in DOMAIN body}

hasClosureBinding(f) == AllExprs(f.body) \cap {"Lambda", "MethodReference"} # {}

-----------------------------------------------------------------------------
\* TempFoldingPass.

RECURSIVE countRefs(_, _)
countRefs(e, x) ==
  CASE e.k = "VarRef" -> IF e.n = x THEN 1 ELSE 0
    [] e.k \in Visited -> FoldLeft(LAMBDA n, a : n + countRefs(a, x), 0, e.a)
    [] OTHER -> 0

RECURSIVE countRefsInStmt(_, _)
countRefsInStmt(s, x) ==
  FoldLeft(LAMBDA n, e : n + countRefs(e, x), 0, s.e)
  + FoldLeft(LAMBDA n, t : n + countRefsInStmt(t, x), 0, FlattenSeq(s.b))

RECURSIVE replaceRef(_, _, _)
replaceRef(e, x, by) ==
  CASE e.k = "VarRef" /\ e.n = x -> by
    [] e.k \in Visited -> [e EXCEPT !.a = [i \in DOMAIN @ |-> replaceRef(@[i], x, by)]]
    [] OTHER -> e

RECURSIVE replaceRefInStmt(_, _, _)
replaceRefInStmt(s, x, by) ==
  [s EXCEPT !.e = [i \in DOMAIN @ |-> replaceRef(@[i], x, by)],
            !.b = [j \in DOMAIN @ |-> [i \in DOMAIN @[j] |->
                     replaceRefInStmt(@[j][i], x, by)]]]

generatedTemps == {"_tmp0", "_tmp1", "_tmp2"}
\* field1, field2, ... are generated names too, but are not folded.
isGeneratedName(n) == n \in generatedTemps \cup {"field1"}

\* Plausible mistake: the last statement is forgotten.
MutElsewhere(b, i) ==
  FoldLeft(LAMBDA n, s : n + countRefsInStmt(s, b[i].n), 0, SubSeq(b, i + 2, Len(b) - 1))

\* May the declaration at i go: a temporary with an initialiser, used once by the next
\* statement and by none of the later ones.
refsElsewhere(b, i) ==
  FoldLeft(LAMBDA n, s : n + countRefsInStmt(s, b[i].n), 0, SubSeq(b, i + 2, Len(b)))
foldable(b, i) ==
  /\ b[i].s = "VarDecl" /\ b[i].n \in generatedTemps /\ b[i].e # <<>>
  /\ countRefsInStmt(b[i + 1], b[i].n) = 1
  /\ refsElsewhere(b, i) = 0

RECURSIVE foldTemps(_)
foldTemps(b) ==
  LET can == {i \in 1..(Len(b) - 1) : foldable(b, i)}
      i == CHOOSE x \in can : \A y \in can : x <= y
  IN  IF can = {} THEN b
      ELSE foldTemps(SubSeq(b, 1, i - 1)
                     \o <<replaceRefInStmt(b[i + 1], b[i].n, b[i].e[1])>>
                     \o SubSeq(b, i + 2, Len(b)))

\* The blocks the passes go into: the initial statement of a for is none of them.
nested(s) == IF s.s = "For" THEN {2} ELSE DOMAIN s.b

RECURSIVE foldBlock(_)
foldBlock(b) ==
  foldTemps([i \in DOMAIN b |-> [b[i] EXCEPT !.b =
               [j \in DOMAIN @ |-> IF j \in nested(b[i]) THEN foldBlock(@[j]) ELSE @[j]]]])

-----------------------------------------------------------------------------
\* NameHeuristicsPass.  Its state is a record: the renames chosen, the names in use, the
\* counters of names given.

counters == <<"i", "j", "k", "ii", "jj", "kk">>
accumulators == <<"sum", "total", "acc">>

\* Each preferred name is tried first, then with the suffixes 2, 3, ...: one is enough here.
allocateName(h, x, preferred) ==
  LET name == IF preferred \notin h.used THEN preferred ELSE preferred \o "2"
  IN  [h EXCEPT !.renames = (x :> name) @@ @, !.used = @ \cup {name}]
giveCounter(h, x) ==
  allocateName([h EXCEPT !.counter = @ + 1], x, counters[h.counter + 1])
giveAccumulator(h, x) ==
  allocateName([h EXCEPT !.accum = @ + 1], x, accumulators[h.accum + 1])

declares(s) == s.s = "VarDecl" /\ isGeneratedName(s.n)
fresh(h, s) == declares(s) /\ s.n \notin DOMAIN h.renames

\* Visit the nested blocks of a statement in order.
inNested(s, Detect(_, _), h) ==
  FoldLeft(LAMBDA g, j : IF j \in nested(s) THEN Detect(s.b[j], g) ELSE g, h,
           [j \in DOMAIN s.b |-> j])

RECURSIVE detectLoopCounters(_, _)
detectLoopCounters(b, h) ==
  LET one(g, s) == inNested(s, detectLoopCounters,
        IF s.s = "For" /\ s.b[1] # <<>> /\ declares(s.b[1][1])
          THEN giveCounter(g, s.b[1][1].n) ELSE g)
  IN  FoldLeft(one, h, b)

\* Only the first loop after the declaration is searched for  x = x + ...
accumulates(s, x) ==
  LET isX(e) == e.k = "VarRef" /\ e.n = x
  IN  /\ s.s = "Assign" /\ isX(s.e[1])
      /\ s.e[2].k = "BinaryOp" /\ s.e[2].n = "+" /\ (isX(s.e[2].a[1]) \/ isX(s.e[2].a[2]))
loopBody(s) == s.b[Len(s.b)]
accumulatedAfter(b, i) ==
  LET loops == {j \in (i + 1)..Len(b) : b[j].s \in {"For", "While"}}
      j == CHOOSE x \in loops : \A y \in loops : x <= y
  IN  /\ loops # {}
      /\ \E s \in ToSet(loopBody(b[j])) : accumulates(s, b[i].n)

\* The loop over the statements goes on with the next one, skipping the recursion, unless
\* the statement is a candidate declaration: so nested blocks are never reached.
detectAccumulators(b, h) ==
  FoldLeft(LAMBDA g, i :
             IF fresh(g, b[i]) /\ b[i].e # <<>> /\ b[i].e[1].k = "Literal"
                /\ b[i].e[1].n = "0" /\ accumulatedAfter(b, i)
             THEN giveAccumulator(g, b[i].n) ELSE g,
           h, [i \in DOMAIN b |-> i])

\* Literals true, false and comparisons.
isBoolean(e) == \/ e.k = "Literal" /\ e.n \in {"true", "false"}
                \/ e.k = "BinaryOp" /\ e.n \in {"==", "<"}

RECURSIVE detectBooleans(_, _)
detectBooleans(b, h) ==
  LET one(g, s) == inNested(s, detectBooleans,
        IF fresh(g, s) /\ s.e # <<>> /\ isBoolean(s.e[1])
          THEN allocateName(g, s.n, "isReady") ELSE g)
  IN  FoldLeft(one, h, b)

RECURSIVE exprUsedAsIndex(_, _)
exprUsedAsIndex(e, x) ==
  \/ e.k = "Index" /\ e.a[2].k = "VarRef" /\ e.a[2].n = x
  \/ e.k \in Visited \ {"Construct"} /\ \E i \in DOMAIN e.a : exprUsedAsIndex(e.a[i], x)

\* The initial statement of a for is not searched.
RECURSIVE exprUsedAsIndexInStmts(_, _)
exprUsedAsIndexInStmts(b, x) ==
  \E i \in DOMAIN b :
    \/ \E j \in DOMAIN b[i].e : exprUsedAsIndex(b[i].e[j], x)
    \/ \E j \in nested(b[i]) : exprUsedAsIndexInStmts(b[i].b[j], x)

RECURSIVE detectIndices(_, _)
detectIndices(b, h) ==
  LET one(g, s) == inNested(s, detectIndices,
        IF fresh(g, s) /\ exprUsedAsIndexInStmts(b, s.n)
          THEN allocateName(g, s.n, "idx") ELSE g)
  IN  FoldLeft(one, h, b)

renamed(r, n) == IF n \in DOMAIN r THEN r[n] ELSE n
RECURSIVE renameInExpr(_, _)
renameInExpr(e, r) ==
  CASE e.k = "VarRef" -> [e EXCEPT !.n = renamed(r, @)]
    [] e.k \in Visited -> [e EXCEPT !.a = [i \in DOMAIN @ |-> renameInExpr(@[i], r)]]
    [] OTHER -> e
RECURSIVE renameInStmts(_, _)
renameInStmts(b, r) ==
  [i \in DOMAIN b |-> [b[i] EXCEPT
     !.n = IF b[i].s = "VarDecl" THEN renamed(r, @) ELSE @,
     !.e = [j \in DOMAIN @ |-> renameInExpr(@[j], r)],
     !.b = [j \in DOMAIN @ |-> renameInStmts(@[j], r)]]]

\* The names in use at the start are those of the parameters only.
chosenNames(f) ==
  LET h == [renames |-> <<>>, used |-> f.params, counter |-> 0, accum |-> 0]
      g == detectBooleans(f.body, detectAccumulators(f.body, detectLoopCounters(f.body, h)))
  IN  detectIndices(f.body, g).renames

-----------------------------------------------------------------------------
\* DeadCodeElimPass: a throw is no terminator, nor is a loop.
RECURSIVE isTerminator(_)
isTerminator(s) ==
  \/ s.s \in {"Return", "Break", "Continue"}
  \/ /\ s.s = "If" /\ s.b[1] # <<>> /\ s.b[2] # <<>>
     /\ isTerminator(Last(s.b[1])) /\ isTerminator(Last(s.b[2]))

RECURSIVE elimBlock(_)
elimBlock(b) ==
  LET inner == [i \in DOMAIN b |-> [b[i] EXCEPT !.b =
                  [j \in DOMAIN @ |-> IF j \in nested(b[i]) THEN elimBlock(@[j]) ELSE @[j]]]]
      ends == {i \in DOMAIN b : isTerminator(inner[i])}
  IN  IF ends = {} THEN inner
      ELSE SubSeq(inner, 1, CHOOSE i \in ends : \A j \in ends : i <= j)

-----------------------------------------------------------------------------
\* ModelOptimizer::optimize, one step per pass of createIdiomaticPipeline(): the functions
\* of a module do not touch each other, so one is enough.
Lit(n) == Expr("Literal", n, <<>>)
Var(n) == Expr("VarRef", n, <<>>)
Decl(n, e) == Stmt("VarDecl", n, <<e>>, <<>>)
Set(n, e) == Stmt("Assign", "", <<Var(n), e>>, <<>>)
Do(e) == Stmt("ExprStmt", "", <<e>>, <<>>)
Call(n, a) == Expr("Call", n, a)
Plus(a, b) == Expr("BinaryOp", "+", <<a, b>>)
Ret(e) == Stmt("Return", "", <<e>>, <<>>)

\* The statements a body is built from: every statement kind, every visited expression kind.
Statements ==
  { Decl("_tmp0", Lit("0")), Decl("_tmp0", Call("f", <<Var("x")>>)),
    Decl("_tmp1", Expr("BinaryOp", "<", <<Var("_tmp0"), Var("x")>>)),
    Decl("_tmp1", Expr("UnaryOp", "-", <<Var("x")>>)),
    Decl("sum", Call("g", <<Var("_tmp0")>>)),
    Do(Call("g", <<Var("_tmp1"), Call("f", <<Var("_tmp0")>>)>>)),
    Do(Expr("Throw", "throw", <<Var("_tmp0")>>)),
    Do(Expr("CompoundAssign", "+=", <<Var("x"), Expr("Ternary", "?",
         <<Var("_tmp1"), Expr("Construct", "T", <<Var("_tmp0")>>), Lit("0")>>)>>)),
    Ret(Expr("Index", "[]", <<Expr("MemberAccess", "m", <<Var("x")>>), Var("_tmp0")>>)),
    Stmt("If", "", <<Var("_tmp1")>>,
         << <<Ret(Var("_tmp0")), Do(Call("g", <<>>))>>, <<Ret(Var("x"))>> >>),
    Stmt("For", "", <<Expr("BinaryOp", "<", <<Var("_tmp2"), Var("x")>>),
                      Expr("CompoundAssign", "+=", <<Var("_tmp2"), Lit("1")>>)>>,
         << <<Decl("_tmp2", Lit("0"))>>, <<Set("_tmp0", Plus(Var("_tmp0"), Var("_tmp2")))>> >>),
    Stmt("While", "", <<Var("x")>>,
         << <<Decl("field1", Lit("true")), Do(Call("f", <<Var("field1"), Var("_tmp1")>>)),
              Stmt("Break", "", <<>>, <<>>), Do(Call("g", <<>>))>> >>),
    Stmt("Switch", "", <<Var("x")>>,
         << <<Do(Call("f", <<Var("_tmp0")>>)), Stmt("Break", "", <<>>, <<>>)>>,
            <<Do(Expr("Lambda", "", <<>>))>> >>),
    Stmt("TryCatch", "", <<>>,
         << <<Do(Expr("Throw", "throw", <<Var("x")>>))>>, <<Do(Call("f", <<Var("_tmp1")>>))>>,
            <<Do(Call("g", <<Var("x")>>))>> >>) }

OptimizerInit ==
  \E body \in UNION {[1..n -> Statements] : n \in 1..MaxBody}, ext \in BOOLEAN :
    /\ opc = "fold"
    /\ func = [isExternal |-> ext, params |-> {"x", "i"}, body |-> body]
    /\ source = func

Pass(at, next, body) ==
  /\ opc = at /\ opc' = next
  /\ func' = IF func.isExternal THEN func ELSE [func EXCEPT !.body = body]
  /\ UNCHANGED source

TempFolding ==
  Pass("fold", "names", IF hasClosureBinding(func) THEN func.body ELSE foldBlock(func.body))
NameHeuristics ==
  Pass("names", "dead",
       LET r == chosenNames(func)
       IN  IF hasClosureBinding(func) \/ DOMAIN r = {} THEN func.body
           ELSE renameInStmts(func.body, r))
DeadCodeElim == Pass("dead", "done", elimBlock(func.body))

OptimizerNext == TempFolding \/ NameHeuristics \/ DeadCodeElim

-----------------------------------------------------------------------------
\* What a body means, to compare the bodies before and after: run it on symbolic values,
\* with the branches an oracle decides, and record the calls, the tests and the result.

symbol(st, n) == IF n \in DOMAIN st.env THEN st.env[n] ELSE <<"free", n>>
logged(st, what) == [st EXCEPT !.log = Append(@, what)]
set(st, n, v) == [st EXCEPT !.env = (n :> v) @@ @]

\* st.v is the value of the last expression; a throw stops the evaluation.
RECURSIVE Eval(_, _), Operands(_, _, _, _)
Operands(a, i, st, vals) ==
  IF i > Len(a) \/ st.out # "go" THEN [st EXCEPT !.v = vals]
  ELSE LET t == Eval(a[i], st) IN Operands(a, i + 1, t, Append(vals, t.v))
Eval(e, st) ==
  LET t == Operands(e.a, 1, st, <<>>) IN
  CASE e.k = "Literal" -> [st EXCEPT !.v = <<"literal", e.n>>]
    [] e.k = "VarRef" -> [st EXCEPT !.v = symbol(st, e.n)]
    [] t.out # "go" -> t
    [] e.k = "Call" /\ t.out = "go" ->
         [logged(t, <<e.n, t.v>>) EXCEPT !.v = <<"result", Len(t.log)>>]
    [] e.k = "Throw" /\ t.out = "go" -> [logged(t, <<"throw", t.v>>) EXCEPT !.out = "throw"]
    [] e.k = "CompoundAssign" /\ t.out = "go" ->
         IF e.a[1].k = "VarRef" THEN set(t, e.a[1].n, <<e.n, t.v>>)
         ELSE logged(t, <<"store", t.v>>)
    [] OTHER -> [t EXCEPT !.v = <<e.n, t.v>>]

RECURSIVE RunBlock(_, _, _), RunStmt(_, _, _), Loop(_, _, _, _)
RunBlock(b, st, oracle) ==
  FoldLeft(LAMBDA t, s : IF t.out = "go" THEN RunStmt(s, t, oracle) ELSE t, st, b)
Decision(st, oracle) == st.d < Len(oracle) /\ oracle[st.d + 1]
Tested(e, st) == LET t == Eval(e, st) IN [logged(t, <<"test", t.v>>) EXCEPT !.d = @ + 1]
\* A loop of a condition, expressions after each round, and a body.
Loop(s, after, st, oracle) ==
  LET t == Tested(s.e[1], st)
      u == RunBlock(loopBody(s), t, oracle)
      w == IF u.out \in {"go", "Continue"}
             THEN Operands(after, 1, [u EXCEPT !.out = "go"], <<>>) ELSE u
  IN  IF st.out # "go" THEN st
      ELSE IF t.out # "go" \/ ~Decision(st, oracle) THEN t
      ELSE IF w.out = "Break" THEN [w EXCEPT !.out = "go"] ELSE Loop(s, after, w, oracle)
RunStmt(s, st, oracle) ==
  CASE s.s = "VarDecl" -> LET t == Operands(s.e, 1, st, <<>>)
         IN  IF s.e = <<>> \/ t.out # "go" THEN t ELSE set(t, s.n, Last(t.v))
    [] s.s = "Assign" ->
         LET t == Operands(s.e, 1, st, <<>>) IN
         IF t.out # "go" THEN t
         ELSE IF s.e[1].k = "VarRef" THEN set(t, s.e[1].n, Last(t.v))
         ELSE logged(t, <<"store", t.v>>)
    [] s.s = "Return" ->
         LET t == Operands(s.e, 1, st, <<>>)
         IN  IF t.out = "go" THEN [t EXCEPT !.out = "Return"] ELSE t
    [] s.s = "ExprStmt" -> Eval(s.e[1], st)
    [] s.s = "If" ->
         RunBlock(s.b[IF Decision(st, oracle) THEN 1 ELSE 2], Tested(s.e[1], st), oracle)
    [] s.s = "While" -> Loop(s, <<>>, st, oracle)
    [] s.s = "For" -> Loop(s, Tail(s.e), RunBlock(s.b[1], st, oracle), oracle)
    [] s.s = "Switch" ->
         LET t == RunBlock(s.b[IF Decision(st, oracle) THEN 1 ELSE 2], Tested(s.e[1], st), oracle)
         IN  IF t.out = "Break" THEN [t EXCEPT !.out = "go"] ELSE t
    [] s.s = "TryCatch" ->
         LET t == RunBlock(s.b[1], st, oracle)
             u == IF t.out = "throw" THEN RunBlock(s.b[2], [t EXCEPT !.out = "go"], oracle)
                  ELSE t
             w == RunBlock(s.b[3], [u EXCEPT !.out = "go"], oracle)
         IN  IF w.out = "go" THEN [w EXCEPT !.out = u.out, !.v = u.v] ELSE w
    [] OTHER -> [st EXCEPT !.out = s.s]

Meaning(body, oracle) ==
  LET t == RunBlock(body, [env |-> <<>>, log |-> <<>>, d |-> 0, out |-> "go", v |-> <<>>], oracle)
  IN  [log |-> t.log, out |-> t.out, v |-> IF t.out = "Return" THEN t.v ELSE <<>>]
Oracles == [1..3 -> BOOLEAN]

-----------------------------------------------------------------------------
\* The bodies the rewrites are meant for.

RECURSIVE NamesIn(_), Thrown(_), AssignedIn(_), Assigned(_), Declared(_), ThrownIn(_, _)
\* The variables of an expression, those below a throw of it, those it assigns.
NamesIn(e) == (IF e.k = "VarRef" THEN {e.n} ELSE {}) \cup UNION {NamesIn(e.a[i]) : i \in DOMAIN e.a}
Thrown(e) == IF e.k = "Throw" THEN NamesIn(e) ELSE UNION {Thrown(e.a[i]) : i \in DOMAIN e.a}
ThrownIn(b, x) ==
  \E i \in DOMAIN b : \/ \E j \in DOMAIN b[i].e : x \in Thrown(b[i].e[j])
                     \/ \E j \in DOMAIN b[i].b : ThrownIn(b[i].b[j], x)
AssignedIn(e) == (IF e.k = "CompoundAssign" /\ e.a[1].k = "VarRef" THEN {e.a[1].n} ELSE {})
                 \cup UNION {AssignedIn(e.a[i]) : i \in DOMAIN e.a}
Assigned(b) ==
  UNION {(IF b[i].s = "Assign" THEN NamesIn(b[i].e[1]) ELSE {})
         \cup UNION {AssignedIn(b[i].e[j]) : j \in DOMAIN b[i].e}
         \cup UNION {Assigned(b[i].b[j]) : j \in DOMAIN b[i].b} : i \in DOMAIN b}
\* The declarations of a body, each with the statement after it.
Declared(b) ==
  UNION {(IF b[i].s = "VarDecl" THEN {<<b[i], IF i = Len(b) THEN <<>> ELSE <<b[i + 1]>> >>}
          ELSE {}) \cup UNION {Declared(b[i].b[j]) : j \in DOMAIN b[i].b} : i \in DOMAIN b}
Total(b, x) == FoldLeft(LAMBDA n, s : n + countRefsInStmt(s, x), 0, b)
RECURSIVE Declarations(_)
Declarations(b) == FoldLeft(LAMBDA n, s : n + (IF s.s = "VarDecl" THEN 1 ELSE 0)
                                          + Declarations(FlattenSeq(s.b)), 0, b)
RECURSIVE InScope(_, _)
InScope(b, known) ==
  \A i \in DOMAIN b :
    LET here == known \cup {b[j].n : j \in {k \in 1..(i - 1) : b[k].s = "VarDecl"}}
        mine == IF b[i].s = "For" THEN here \cup {b[i].b[1][1].n} ELSE here
    IN  /\ \A j \in DOMAIN b[i].e : NamesIn(b[i].e[j]) \subseteq mine
        /\ \A j \in DOMAIN b[i].b : InScope(b[i].b[j], mine)

RECURSIVE KindsOf(_)
KindsOf(e) == {e.k} \cup UNION {KindsOf(e.a[i]) : i \in DOMAIN e.a}
Effects == {"Call", "CompoundAssign", "Throw"}
\* Is the reference to x the first effect of evaluating e.
RECURSIVE ReadFirst(_, _)
ReadFirst(e, x) ==
  \/ e.k = "VarRef" /\ e.n = x
  \/ \E i \in DOMAIN e.a : /\ ReadFirst(e.a[i], x) /\ (e.k # "Ternary" \/ i = 1)
                           /\ \A j \in 1..(i - 1) : KindsOf(e.a[j]) \cap Effects = {}
UsedFirst(s, x) ==
  s.s \notin {"While", "For", "TryCatch"}
  /\ \E i \in DOMAIN s.e : ReadFirst(s.e[i], x)
                           /\ \A j \in 1..(i - 1) : KindsOf(s.e[j]) \cap Effects = {}
RECURSIVE Stable(_, _)
Stable(e, b) ==
  /\ KindsOf(e) \cap Effects = {} /\ NamesIn(e) \cap Assigned(b) = {}
  /\ \A d \in Declared(b) : (d[1].n \in NamesIn(e) /\ d[1].e # <<>>) => Stable(d[1].e[1], b)
GivenNames == ToSet(counters) \cup ToSet(accumulators) \cup {"isReady", "idx"}

\* One declaration per name, all names in scope, no other local of a name that may be given;
\* a throw refers to no temporary; a temporary that may be folded is not assigned, and its
\* initialiser neither has nor sees an effect or is evaluated first by the next statement.
Tame(f) ==
  LET decls == Declared(f.body)
      names == {d[1].n : d \in decls}
  IN  /\ Cardinality(names) = Declarations(f.body) /\ names \cap f.params = {}
      /\ InScope(f.body, f.params)
      /\ names \cap GivenNames = {}
      /\ \A n \in names : isGeneratedName(n) => ~ThrownIn(f.body, n)
      /\ \A d \in decls : (d[1].n \in generatedTemps /\ Total(f.body, d[1].n) = 1) =>
           /\ d[1].n \notin Assigned(f.body)
           /\ d[1].e # <<>> =>
                \/ Stable(d[1].e[1], f.body)
                \/ d[2] # <<>> /\ UsedFirst(d[2][1], d[1].n)

\* For such a body the pipeline keeps every call, every test and the result, in their order,
\* whatever the branches; and it leaves an external function alone.
Preserved ==
  opc = "done" =>
    /\ source.isExternal => func = source
    /\ Tame(source) =>
         \A o \in Oracles : Meaning(func.body, o) = Meaning(source.body, o)
=============================================================================
