---------------------------- MODULE ExternalTypes ----------------------------
(***************************************************************************)
(* The collection of types and their members into the symbol table         *)
(* (SemanticAnalyzer::visitTypeDecl), and the boundary that a policy draws *)
(* around a type afterwards (SymbolTable::markExternalType): what is        *)
(* external, with what it encloses, is opaque to every later pass.         *)
(***************************************************************************)
EXTENDS Naturals, Sequences, SequencesExt, FiniteSets

CONSTANT MaxMarks     \* bound: calls of markExternalType

VARIABLES
  declaredTypes,    \* what is declared: type -> [external, comptime], members
  visits,     \* types that are still to be visited
  classes,    \* classSymbols_: type -> [external, owner, comptime]
  members,    \* the member functions among functions_: name -> the same
  refusals,   \* the errors
  marks,      \* calls of markExternalType so far
  marked      \* types it was called for and returned true (history)

externalVars == <<declaredTypes, visits, classes, members, refusals, marks, marked>>

(* A type is named by its path; a member by its type, its kind and a name.   *)
TypePaths == {<<"A">>, <<"A", "B">>, <<"A", "B", "C">>, <<"D">>}
Nowhere == <<>>
EnclosingType(p) == SubSeq(p, 1, Len(p) - 1)
Encloses(p, q) == IsPrefix(p, q)
Modifiers == {"none", "external", "comptime"}
MemberDecls == [type : {<<"A">>, <<"A", "B">>, <<"D">>}, kind : {"function", "special"},
             modifier : Modifiers]
TypeSources ==
  [types : [TypePaths -> Modifiers], members : {{}} \cup {{x} : x \in MemberDecls}]
TableEntry(external, owner, comptime) ==
  [external |-> external, owner |-> owner, comptime |-> comptime]
NoEntries == [x \in {} |-> Nowhere]

ExternalInit ==
  /\ declaredTypes \in TypeSources
  /\ visits = TypePaths /\ classes = NoEntries /\ members = NoEntries
  /\ refusals = {} /\ marks = 0 /\ marked = {}

\* What encloses a type makes it external, with the type that did so as its
\* owner; a type that says so itself is its own owner.
Inherited(p) == IF Len(p) = 1 THEN Nowhere ELSE classes[EnclosingType(p)].owner
Says(p, modifier) == declaredTypes.types[p] = modifier
OwnerOf(p) == IF Says(p, "external") THEN p ELSE Inherited(p)
ClassEntry(p) ==
  TableEntry(Says(p, "external") \/ Inherited(p) # Nowhere, OwnerOf(p), Says(p, "comptime"))
\* A member is external by its own word or with its type; a constructor, a
\* destructor or an operator only with its type.
IsExternal(x, class) == x.modifier = "external" \/ class.external
Conflicts(x, class) == IsExternal(x, class) /\ x.modifier = "comptime"
Misnamed(x, class) == x.modifier = "external" /\ ~class.external /\ x.kind = "special"
\* Functions are added to the table, the rest only of an external type.
Collected(p) ==
  {x \in declaredTypes.members :
     /\ x.type = p /\ ~Conflicts(x, ClassEntry(p)) /\ ~Misnamed(x, ClassEntry(p))
     /\ x.kind = "function" \/ ClassEntry(p).external}
VisitTypeDecl(p) ==
  /\ p \in visits /\ (Len(p) > 1 => EnclosingType(p) \notin visits)
  /\ visits' = visits \ {p}
  /\ classes' = [q \in DOMAIN classes \cup {p} |-> IF q = p THEN ClassEntry(p) ELSE classes[q]]
  /\ members' = [x \in DOMAIN members \cup Collected(p) |->
       IF x \in Collected(p)
       THEN TableEntry(IsExternal(x, ClassEntry(p)), OwnerOf(p), x.modifier = "comptime")
       ELSE members[x]]
  /\ refusals' = refusals
       \cup {r \in {"comptime"} : ClassEntry(p).external /\ ClassEntry(p).comptime}
       \cup {r \in {"comptime"} :
               \E x \in declaredTypes.members : x.type = p /\ Conflicts(x, ClassEntry(p))}
       \cup {r \in {"special"} :
               \E x \in declaredTypes.members : x.type = p /\ Misnamed(x, ClassEntry(p))}
  /\ UNCHANGED <<declaredTypes, marks, marked>>

\* Mutant: only the types directly inside are looked for.
MutOwners(p) == {q \in DOMAIN classes : q = p \/ EnclosingType(q) = p}
\* The fixed point of "what an owner encloses is an owner".
Owners(p) == {q \in DOMAIN classes : Encloses(p, q)}

\* A policy marks a type: with all it encloses, or, where any of that is
\* comptime, not at all.
MarkExternalType(p) ==
  /\ visits = {} /\ refusals = {} /\ marks < MaxMarks
  /\ marks' = marks + 1
  /\ LET owners == Owners(p)
         inside == {x \in DOMAIN members : x.type \in owners}
     IN IF \/ \E q \in owners : classes[q].comptime
           \/ \E x \in inside : members[x].comptime
        THEN UNCHANGED <<classes, members, marked>>
        ELSE /\ classes' = [q \in DOMAIN classes |->
                  IF q \in owners THEN [classes[q] EXCEPT !.external = TRUE, !.owner = p]
                  ELSE classes[q]]
             /\ members' = [x \in DOMAIN members |->
                  IF x \in inside THEN [members[x] EXCEPT !.external = TRUE, !.owner = p]
                  ELSE members[x]]
             /\ marked' = marked \cup {p}
  /\ UNCHANGED <<declaredTypes, visits, refusals>>

ExternalNext == \E p \in TypePaths : VisitTypeDecl(p) \/ MarkExternalType(p)
ExternalSpec == ExternalInit /\ [][ExternalNext]_externalVars

-----------------------------------------------------------------------------
\* externalTypeForMember(): the type of a member, if it is external.
ExternalTypeForMember(x) == IF classes[x.type].external THEN x.type ELSE Nowhere

\* The boundary is closed, however declarations and policies draw it one over
\* the other: an external type has an owner around it (or itself) that said so
\* or was marked, all that the owner encloses is external, down to each member,
\* and nothing inside is comptime (SymbolTable.cpp:74-109,
\* SemanticAnalyzer.cpp:430-437, 447-460).
BoundaryIsClosed ==
  visits = {} /\ refusals = {} =>
    /\ \A p \in TypePaths : classes[p].external =>
         /\ Encloses(classes[p].owner, p) /\ classes[p].owner # Nowhere
         /\ Says(classes[p].owner, "external") \/ classes[p].owner \in marked
         /\ ~classes[p].comptime
         /\ \A q \in TypePaths : Encloses(p, q) => classes[q].external
    /\ \A x \in DOMAIN members :
         /\ ExternalTypeForMember(x) # Nowhere =>
              members[x].external /\ ~members[x].comptime
              /\ members[x].owner = classes[x.type].owner
         /\ members[x].external => x.modifier = "external" \/ classes[x.type].external
    /\ \A p \in marked : \A q \in TypePaths : Encloses(p, q) => classes[q].external
=============================================================================
