------------------------------ MODULE TypeRules ------------------------------
(***************************************************************************)
(* The type checks of semantic analysis (SemanticAnalyzer::validateTypes,  *)
(* lib/Sema/TypeResolver.cpp): one resolver, whose set of template         *)
(* parameters is filled and cleared for each declaration, visits all       *)
(* functions and then all classes.  The searches for cycles that follow    *)
(* are in OwnershipLoops.                                                  *)
(***************************************************************************)
EXTENDS Naturals, Sequences, FiniteSets, Functions

CONSTANTS
  BackendTypes, \* the names std::<backend>::<type> that the registry has
  TypeLayers,   \* the types, by how deep they are nested
  Units         \* what may be declared with them

VARIABLES
  unit,       \* what is declared: [functions, classes, others]
  ypc,        \* "functions", "classes" or "checked"
  turn,       \* the declaration that is next
  scope,      \* templateParamNames_ of the resolver
  faults      \* the errors: <<rule, declaration>>

typeVars == <<unit, ypc, turn, scope, faults>>

(* --------------------------------- types -------------------------------- *)
\* A type as the parser leaves it: arguments, names of fields, and the number
\* an argument is, if it is one.
Type(kind, name, args, names, n) ==
  [kind |-> kind, name |-> name, args |-> args, names |-> names, n |-> n]
NotANumber == 99
Std(kind, args) == Type(kind, "", args, <<>>, NotANumber)
Named(name, args) == Type("user", name, args, <<>>, NotANumber)
\* std::<backend>::<type>; every other name of several parts is "qualified".
Backend(name) == Type("backend", name, <<>>, <<>>, NotANumber)
Number(n) == Type("number", "", <<>>, <<>>, n)
Fields(kind, names, types) == Type(kind, "", types, names, NotANumber)

Repeated(s) == ~IsInjective(s)
Scalars == {"u8", "f64"}
Shaped == {"record", "array", "union", "optional", "slice"} \cup Scalars
TypeTrees == UNION Range(TypeLayers)
Inner(d) == UNION {TypeLayers[e] : e \in 1..(d - 1)}
\* Fields have a name each, and a type has less deeply nested types inside.
IsTypeTree(type, inner) ==
  /\ type \in [kind : Shaped \cup {"void", "qualified", "backend", "user", "number"},
               name : STRING, args : Seq(inner), names : Seq(STRING), n : Nat]
  /\ type.kind \in {"record", "union"} => Len(type.args) = Len(type.names)
StdArity(kind) == IF kind \in {"optional", "slice"} THEN 1 ELSE 0

\* isValidType(): the types of the standard library by their shape and their
\* parts, a bare name by what is declared and one of a backend by the registry;
\* another qualified name is opaque and never refused, and the arguments of a
\* declared or qualified type are not looked at.
IsValidType(type, known) ==
  LET valid[t \in TypeTrees] ==
        LET parts == \A i \in DOMAIN t.args : valid[t.args[i]]
        IN CASE t.kind \in {"void", "qualified"} -> TRUE
             [] t.kind = "backend" -> t.name \in BackendTypes
             [] t.kind = "record" -> t.names # <<>> /\ ~Repeated(t.names) /\ parts
             [] t.kind = "array" ->
                  /\ Len(t.args) = 2 /\ t.args[1].kind # "number" /\ valid[t.args[1]]
                  /\ t.args[2].kind = "number" /\ t.args[2].n >= 1
             [] t.kind = "union" ->
                  Len(t.names) >= 2 /\ t.args[1].kind = "u8" /\ ~Repeated(t.names) /\ parts
             [] t.kind \in Scalars \cup {"optional", "slice"} ->
                  Len(t.args) = StdArity(t.kind) /\ parts
             [] t.kind = "user" -> t.name \in known
             [] OTHER -> FALSE
  IN valid[type]

\* validateTemplateArgs(): a class template with another number of arguments;
\* fields are not visited, nor is a type without arguments.
WrongCount(type, params) ==
  LET wrong[t \in TypeTrees] ==
        \/ /\ t.kind = "user" /\ t.args # <<>> /\ t.name \in DOMAIN params
           /\ params[t.name] # <<>> /\ Len(params[t.name]) # Len(t.args)
        \/ t.kind \notin {"record", "union"} /\ \E i \in DOMAIN t.args : wrong[t.args[i]]
  IN wrong[type]

(* ------------------------------ declarations ---------------------------- *)
ClassNames == {unit.classes[i].name : i \in DOMAIN unit.classes}
ParamsOf == [c \in ClassNames |->
  unit.classes[CHOOSE i \in DOMAIN unit.classes : unit.classes[i].name = c].params]
DeclaredNames == ClassNames \cup unit.others

\* odd: the declaration has a fault that shows in itself (an ownership
\* qualifier, a cardinality, a tile size that makes no sense).
FunctionDecl(owner, params, type, odd) ==
  [owner |-> owner, params |-> params, type |-> type, odd |-> odd]
Class(name, params, type) == [name |-> name, params |-> params, type |-> type]
\* others: the names of aliases, imported types and constraints.
Unit(functions, classes, others) ==
  [functions |-> functions, classes |-> classes, others |-> others]

\* Classes are kept by name; a number is no type of a declaration.
IsUnit(u) ==
  /\ u.functions \in Seq([owner : STRING, params : Seq(STRING), type : TypeTrees, odd : BOOLEAN])
  /\ u.classes \in Seq([name : STRING, params : Seq(STRING), type : TypeTrees])
  /\ \A i, j \in DOMAIN u.classes : u.classes[i].name = u.classes[j].name => i = j
  /\ \A d \in Range(u.functions) \cup Range(u.classes) : d.type.kind # "number"

ASSUME TypesAssumption ==
  /\ TypeLayers \in Seq(Range(TypeLayers))
  /\ \A d \in DOMAIN TypeLayers : \A type \in TypeLayers[d] : IsTypeTree(type, Inner(d))
  /\ \A u \in Units : IsUnit(u)

TypeInit ==
  /\ unit \in Units
  /\ ypc = "functions" /\ turn = 1 /\ scope = {} /\ faults = {}

Fault(rules) == faults' = faults \cup {<<r, ypc, turn>> : r \in rules}
\* The rules that a type breaks where the names in seen are template parameters.
BrokenRules(type, seen) ==
  {r \in {"unknown-type"} : ~IsValidType(type, DeclaredNames \cup seen)}
  \cup {r \in {"T002"} : WrongCount(type, ParamsOf)}
Phase(here, next, units) ==
  /\ ypc = here /\ turn > Len(units)
  /\ ypc' = next /\ turn' = 1
  /\ UNCHANGED <<unit, scope, faults>>

(* ----------------------------- the resolver ----------------------------- *)
\* A function sees the parameters of the class it is a member of, and its own.
SeenBy(f) ==
  scope \cup (IF f.owner \in ClassNames THEN Range(ParamsOf[f.owner]) ELSE {}) \cup Range(f.params)
\* Mutant: only a template forgets the parameters it has entered.
MutBehind(f) == IF f.params = <<>> THEN SeenBy(f) ELSE {}
\* What is left of the resolver's names behind a function.
Behind(f) == {}

CheckFunction ==
  /\ ypc = "functions" /\ turn <= Len(unit.functions)
  /\ LET f == unit.functions[turn] IN
     /\ Fault(BrokenRules(f.type, SeenBy(f)) \cup {r \in {"T003"} : Repeated(f.params)}
                \cup {r \in {"odd"} : f.odd})
     /\ scope' = Behind(f)
  /\ turn' = turn + 1
  /\ UNCHANGED <<unit, ypc>>

CheckClass ==
  /\ ypc = "classes" /\ turn <= Len(unit.classes)
  /\ LET c == unit.classes[turn]
         seen == scope \cup Range(c.params) IN
     /\ Fault(BrokenRules(c.type, seen))
     /\ scope' = IF c.params # <<>> THEN {} ELSE scope
  /\ turn' = turn + 1
  /\ UNCHANGED <<unit, ypc>>

TypeNext ==
  \/ CheckFunction \/ Phase("functions", "classes", unit.functions)
  \/ CheckClass \/ Phase("classes", "checked", unit.classes)
TypeSpec == TypeInit /\ [][TypeNext]_typeVars

-----------------------------------------------------------------------------
\* The parts of a type that are resolved: not those of a declared type.
Parts(type) ==
  LET parts[t \in TypeTrees] ==
        {t} \cup IF t.kind \in Shaped THEN UNION {parts[t.args[i]] : i \in DOMAIN t.args} ELSE {}
  IN parts[type]
\* A part that has no shape of its own: the layout of a value of it is not given.
Shapeless(type) ==
  CASE type.kind = "record" -> type.names = <<>> \/ Repeated(type.names)
    [] type.kind = "union" ->
         Len(type.names) < 2 \/ Repeated(type.names) \/ type.args[1].kind # "u8"
    [] type.kind = "array" ->
         Len(type.args) # 2 \/ type.args[2].kind # "number" \/ type.args[2].n = 0
    [] type.kind \in {"optional", "slice"} -> Len(type.args) # 1
    [] type.kind \in Scalars -> type.args # <<>>
    [] OTHER -> FALSE
\* The number that an array ends with is no type, everywhere else a number is wrong.
Misplaced(type) ==
  \E p \in Parts(type) : \E i \in DOMAIN p.args :
    p.kind \in Shaped /\ p.args[i].kind = "number" /\ ~(p.kind = "array" /\ i = 2)
Unresolved(type, names) ==
  \E p \in Parts(type) :
    \/ p.kind = "user" /\ p.name \notin names
    \/ p.kind = "backend" /\ p.name \notin BackendTypes
    \/ Shapeless(p)
\* A value of a declared or qualified type in a record, an array or a union: the
\* comments there say that "the cross-language byte contract is only defined
\* over stdlib types" and that such a type is rejected (TypeResolver.cpp:47-50,
\* 68-73, 99-100), and the code accepts it.
OutsideContract(type) ==
  \E p \in Parts(type) :
    /\ p.kind \in {"record", "array", "union"}
    /\ \E q \in Parts(p) : q.kind \notin Shaped \cup {"number"}
\* The names that hold where declaration i of a kind stands.
ParametersOf(kind, i) ==
  DeclaredNames \cup
  IF kind = "classes" THEN Range(unit.classes[i].params)
  ELSE LET f == unit.functions[i] IN
       Range(f.params)
       \cup UNION {Range(c.params) : c \in {d \in Range(unit.classes) : d.name = f.owner}}

\* A type is refused where it stands in a declaration that does not see a name
\* it is built from, or where it has no layout, and nowhere else: the template
\* parameters of a declaration hold in it and in its members only, although one
\* resolver serves all of them (SemanticAnalyzer.cpp:694-795). Whether a type
\* with one outside the byte contract inside is refused too is left open.
TypesAreKnown ==
  ypc = "checked" =>
    \A kind \in {"functions", "classes"} :
      LET of == IF kind = "classes" THEN unit.classes ELSE unit.functions IN
      \A i \in DOMAIN of :
        LET refused == <<"unknown-type", kind, i>> \in faults
            wrong == Unresolved(of[i].type, ParametersOf(kind, i)) \/ Misplaced(of[i].type)
        IN  (wrong => refused) /\ (refused => wrong \/ OutsideContract(of[i].type))
=============================================================================
