------------------------------- MODULE Imports -------------------------------
(***************************************************************************)
(* A program of several .topo files (lib/Sema/ImportResolver.cpp, the      *)
(* tables of lib/Sema/SymbolTable.cpp, and what SemanticAnalyzer.cpp and   *)
(* tools/topo/main.cpp do with imported symbols): the files are discovered *)
(* depth first, then analysed one by one, each with the symbols its        *)
(* imports lead to.  A name is a sequence of words; a file declares at     *)
(* most one function and calls at most one, from one fn block.             *)
(***************************************************************************)
EXTENDS Naturals, Sequences, FiniteSets, SequencesExt

CONSTANT MaxTopoFiles     \* bound: files; file 1 is the root
ASSUME FilesAssumption == MaxTopoFiles \in Nat /\ MaxTopoFiles >= 3

VARIABLES
  program,    \* file -> [imports, text, broken]
  roots,      \* the files resolve() is asked for, in order
  mark,       \* state of discover(): file -> "new", "open" or "done"
  stack,      \* calls of discover(): [file, at], at the directive to follow
  order,      \* order_: files behind all they import
  failure,    \* the error resolve() ends with
  cache,      \* symbolCache: file -> its table
  fpc         \* "resolve", "analyze", "accepted" or "rejected"

importVars == <<program, roots, mark, stack, order, failure, cache, fpc>>

TopoFilePaths == 1..MaxTopoFiles

(* -------------------------------- programs ------------------------------ *)
NoCall == <<>>
\* A function's symbol: what module it came from, and who may see it.
Symbol(f, vis) == [file |-> f, vis |-> vis]
\* What a file declares, [name, vis, hidden], and where it calls what; hidden
\* in a namespace that is internal.
Text(decl, at, call) == [decl |-> decl, at |-> at, call |-> call]
Declare(name, vis) == {[name |-> name, vis |-> vis, hidden |-> FALSE]}
Hidden(name) == {[name |-> name, vis |-> "public", hidden |-> TRUE]}
f0 == <<"n", "f">>
f1 == <<"n", "m", "f">>
member == <<"n", "T", "f">>    \* a member function of a type T
Empty == Text({}, <<"n">>, NoCall)
Leaves == {Empty} \cup {Text(d, <<"n">>, NoCall) : d \in
  {Declare(f0, "public"), Declare(f0, "internal"), Declare(f1, "public"),
   Hidden(f0), Declare(member, "public"), Hidden(member)}}
Callers == {Text(d, at, call) :
  d \in {{}, Declare(f0, "public"), Declare(f0, "internal")},
  at \in {<<"n">>, <<"n", "m">>},
  call \in {<<"f">>, <<"n", "f">>, <<"m", "f">>, <<"T", "f">>}}

\* selected = {} imports everything.
Directive(f, selected) == [file |-> f, selected |-> selected]
PlainImport(f) == Directive(f, {})
Lists(set, n) == UNION {[1..k -> set] : k \in 0..n}
\* Any graph, also with cycles, broken files and files imported twice...
Graphs ==
  {[f \in TopoFilePaths |-> [imports |-> imports[f], text |-> Empty, broken |-> f \in broken]] :
     imports \in [TopoFilePaths -> Lists({PlainImport(f) : f \in TopoFilePaths}, 2)],
     broken \in {{}, {2}}}
\* ...and a root that calls what a file declares on the way below it.
Selections == {{}, {"f"}, {"T"}}
Chains ==
  {[f \in TopoFilePaths |->
      [imports |-> IF f = 1 THEN down[1] ELSE IF f = 2 THEN down[2] ELSE <<>>,
       text |-> IF f = 1 THEN caller ELSE IF f = 2 THEN leaf[1] ELSE leaf[2],
       broken |-> FALSE]] :
     caller \in Callers,
     leaf \in Leaves \X Leaves,
     down \in {<<<<Directive(2, s)>>, <<Directive(3, t)>>>> : s, t \in Selections}
              \cup {<<<<Directive(3, s), Directive(2, t)>>, <<PlainImport(3)>>>> :
                      s, t \in Selections}}

ImportInit ==
  /\ program \in Graphs \cup Chains
  /\ roots \in IF program[1].text = Empty THEN {<<1>>, <<2, 1>>} ELSE {<<1>>}
  /\ mark = [f \in TopoFilePaths |-> "new"]
  /\ stack = <<>> /\ order = <<>> /\ failure = "none"
  /\ cache = <<>> /\ fpc = "resolve"

(* ------------------------------- discovery ------------------------------ *)
Innermost == stack[1]
Visit(f) == [file |-> f, at |-> 1]
NextImport == program[Innermost.file].imports[Innermost.at]
Followed == Innermost.at > Len(program[Innermost.file].imports)

\* discover() begins: the file is read and parsed; one that does not parse is
\* done with at once, and every caller returns.
Discover(f, rest) ==
  IF program[f].broken
  THEN /\ failure' = "parse" /\ mark' = [mark EXCEPT ![f] = "done"]
       /\ stack' = <<>> /\ roots' = <<>>
  ELSE /\ mark' = [mark EXCEPT ![f] = "open"]
       /\ stack' = <<Visit(f)>> \o rest
       /\ UNCHANGED failure

TakeRoot ==
  /\ fpc = "resolve" /\ stack = <<>> /\ roots # <<>>
  /\ IF mark[Head(roots)] # "new"
     THEN roots' = Tail(roots) /\ UNCHANGED <<mark, stack, failure>>
     ELSE /\ Discover(Head(roots), <<>>)
          /\ ~program[Head(roots)].broken => roots' = Tail(roots)
  /\ UNCHANGED <<program, order, cache, fpc>>

\* The next import: unknown, it is discovered; still open, it closes a cycle.
Follow ==
  /\ stack # <<>> /\ ~Followed
  /\ LET f == NextImport.file
         rest == <<[Innermost EXCEPT !.at = @ + 1]>> \o Tail(stack)
     IN CASE mark[f] = "new" ->
               /\ Discover(f, rest)
               /\ ~program[f].broken => UNCHANGED roots
          [] mark[f] = "open" ->
               /\ failure' = "cycle" /\ stack' = <<>> /\ roots' = <<>> /\ UNCHANGED mark
          [] mark[f] = "done" ->
               /\ stack' = rest /\ UNCHANGED <<mark, roots, failure>>
  /\ UNCHANGED <<program, order, cache, fpc>>

\* Mutant: a file is done with before its imports are.
MutLeave ==
  /\ stack # <<>> /\ (Followed \/ Innermost.at = 1)
  /\ order' = Append(order, Innermost.file)
  /\ mark' = [mark EXCEPT ![Innermost.file] = "done"]
  /\ stack' = Tail(stack)
  /\ UNCHANGED <<program, roots, failure, cache, fpc>>

\* All imports are followed: the file takes its place in the order.
Leave ==
  /\ stack # <<>> /\ Followed
  /\ order' = Append(order, Innermost.file)
  /\ mark' = [mark EXCEPT ![Innermost.file] = "done"]
  /\ stack' = Tail(stack)
  /\ UNCHANGED <<program, roots, failure, cache, fpc>>

Resolved ==
  /\ fpc = "resolve" /\ stack = <<>> /\ roots = <<>>
  /\ fpc' = IF failure = "none" THEN "analyze" ELSE "rejected"
  /\ UNCHANGED <<program, roots, mark, stack, order, failure, cache>>

(* -------------------------------- tables -------------------------------- *)
NoSymbols == [q \in {} |-> 0]
External(table) == {q \in DOMAIN table : table[q].vis # "internal"}
Only(table, names) == [q \in names |-> table[q]]
\* Mutant: a later symbol replaces an earlier one.
MutInto(table, more) ==
  [q \in DOMAIN table \cup DOMAIN more |-> IF q \in DOMAIN more THEN more[q] ELSE table[q]]

\* The emplace() of a table keeps what is there.
Into(table, more) ==
  [q \in DOMAIN table \cup DOMAIN more |-> IF q \in DOMAIN table THEN table[q] ELSE more[q]]

\* mergeSelected(): what is selected by its simple name, internal symbols never.
\* A selected type that is not external comes without its member functions.
Chosen(table, selected) ==
  IF selected = {} THEN Only(table, External(table))
  ELSE Only(table, {q \in External(table) : Last(q) \in selected})
ShownTypes(table) ==
  {r[2] : r \in {q \in DOMAIN table :
     q = member /\ \A d \in program[table[q].file].text.decl : ~d.hidden}}
NotFound(table, selected) ==
  {s \in selected : s \notin ShownTypes(table) /\ \A q \in External(table) : Last(q) # s}

\* The imports of a file are merged in their order; one that is not in the
\* cache adds nothing.
Imported(f) ==
  LET at[i \in 0..Len(program[f].imports)] ==
        IF i = 0 THEN NoSymbols
        ELSE LET d == program[f].imports[i] IN
             IF d.file \in DOMAIN cache THEN Into(at[i - 1], Chosen(cache[d.file], d.selected))
             ELSE at[i - 1]
  IN at[Len(program[f].imports)]
MissingSelections(f) == UNION {NotFound(cache[d.file], d.selected) :
  d \in {e \in Range(program[f].imports) : e.file \in DOMAIN cache}}

\* visitSection(), visitTypeDecl(): an internal namespace makes its functions
\* and types internal, and leaves the members of its types as they are.
Effective(d) == IF d.hidden /\ d.name # member THEN "internal" ELSE d.vis
Own(f) ==
  LET decl == program[f].text.decl IN
  [q \in {d.name : d \in decl} |-> Symbol(f, Effective(CHOOSE d \in decl : d.name = q))]
\* analyze(): what the file declares, then what it imports.
TableOf(f) == Into(Own(f), Only(Imported(f), External(Imported(f))))

\* resolveCallee(): the namespace of the caller; then, of a qualified name, the
\* name itself; then the enclosing namespaces, the nearest first.
Enclosing(at) == [i \in 1..(Len(at) - 1) |-> SubSeq(at, 1, Len(at) - i)]
Candidates(at, callee) ==
  <<at \o callee>> \o (IF Len(callee) > 1 THEN <<callee>> ELSE <<>>)
  \o [i \in 1..(Len(at) - 1) |-> Enclosing(at)[i] \o callee]
Found(table, at, callee) == {i \in DOMAIN Candidates(at, callee) :
                               Candidates(at, callee)[i] \in DOMAIN table}
Calls(f) == program[f].text.call # NoCall
UndeclaredCallees(f) ==
  Calls(f) /\ Found(TableOf(f), program[f].text.at, program[f].text.call) = {}

(* ------------------------------- analysis ------------------------------- *)
Analyzed == Cardinality(DOMAIN cache)
Current == order[Analyzed + 1]
\* A name that is selected and not found is reported, and the files are
\* analysed on; an undeclared function ends the analysis.
Analyze ==
  /\ fpc = "analyze" /\ Analyzed < Len(order)
  /\ IF UndeclaredCallees(Current)
     THEN fpc' = "rejected" /\ UNCHANGED <<cache, failure>>
     ELSE /\ cache' = Into(cache, [f \in {Current} |-> TableOf(f)])
          /\ failure' = IF MissingSelections(Current) # {} THEN "selection" ELSE failure
          /\ UNCHANGED fpc
  /\ UNCHANGED <<program, roots, mark, stack, order>>

Combine ==
  /\ fpc = "analyze" /\ Analyzed = Len(order)
  /\ fpc' = IF failure = "none" THEN "accepted" ELSE "rejected"
  /\ UNCHANGED <<program, roots, mark, stack, order, failure, cache>>

ImportNext == TakeRoot \/ Follow \/ Leave \/ Resolved \/ Analyze \/ Combine
ImportSpec == ImportInit /\ [][ImportNext]_importVars

-----------------------------------------------------------------------------
\* imports as a relation, and what is below a file, itself included.
ImportsDirectly(f, g) == \E d \in Range(program[f].imports) : d.file = g
Below(f) ==
  LET reach[n \in 0..MaxTopoFiles] ==
        IF n = 0 THEN {f} ELSE reach[n - 1]
             \cup {h \in TopoFilePaths : \E g \in reach[n - 1] : ImportsDirectly(g, h)}
  IN reach[MaxTopoFiles]
Cyclic(fs) == \E f \in fs : \E g \in Below(f) : ImportsDirectly(g, f)

\* What is analysed is everything below a root, each file once and behind all
\* that it imports; and a cycle is reported exactly of imports that have one
\* and whose files parse (ImportResolver.cpp:66-109).
ModulesAreOrdered ==
  /\ fpc = "analyze" =>
       /\ IsInjective(order)
       /\ \A i \in DOMAIN order :
            \A g \in TopoFilePaths :
              ImportsDirectly(order[i], g) => \E j \in 1..(i - 1) : order[j] = g
       /\ Below(1) \subseteq Range(order) /\ ~Cyclic(Range(order))
  /\ failure = "cycle" => Cyclic(Below(1) \cup Below(2))

\* A function is seen where it is declared, and, unless it is internal, where
\* a chain of imports leads to it that selects it, or everything, at each step
\* and declares none of its name.
Sees(f) ==
  LET own(g) == program[g].text.decl
      sees[n \in 0..MaxTopoFiles] ==
        [g \in TopoFilePaths |->
           own(g)
           \cup IF n = 0 THEN {}
                ELSE UNION {{d \in sees[n - 1][x.file] :
                               /\ Effective(d) # "internal"
                               /\ x.selected = {} \/ Last(d.name) \in x.selected
                               /\ \A o \in own(g) : o.name # d.name} :
                            x \in Range(program[g].imports)}]
  IN sees[MaxTopoFiles][f]
\* The call of a file names something it sees, in its namespace or around it.
Callable(f) ==
  \E d \in Sees(f), k \in 0..Len(program[f].text.at) :
    d.name = SubSeq(program[f].text.at, 1, k) \o program[f].text.call

\* The call names a member of a type in an internal namespace.  A test says that
\* the "internal namespace forces all members to Internal visibility"
\* (test/unit/SemaTest.cpp:1227), and the code leaves these as declared.
CallsHiddenMember(f) ==
  /\ \E k \in 0..Len(program[f].text.at) :
       member = SubSeq(program[f].text.at, 1, k) \o program[f].text.call
  /\ \E g \in TopoFilePaths : \E d \in program[g].text.decl : d.hidden /\ d.name = member

\* A program is accepted exactly when every call reaches a function its file
\* sees, through imports of imports and selections in any order, and nothing is
\* selected in vain: no internal function is called from another file, and no
\* declared one is missed because its file was analysed too late
\* (main.cpp:63-94, SymbolTable.cpp:167-246, SemanticAnalyzer.cpp:929-985).
\* Whether a member hidden by its namespace may be called is left open.
CallsAreVisible ==
  /\ fpc = "accepted" => \A f \in Range(order) :
       Calls(f) => Callable(f) \/ CallsHiddenMember(f)
  /\ fpc = "rejected" /\ failure = "none" => \E f \in Range(order) :
       Calls(f) /\ (~Callable(f) \/ CallsHiddenMember(f))
=============================================================================
