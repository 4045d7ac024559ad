---------------------------- MODULE RulesProofs -----------------------------
(***************************************************************************)
(* Proofs about what the semantic analysis says of single declarations: the *)
(* boundary of external types, the stages of a block and what its pipelines *)
(* deliver, the cycles of shared fields and of parents, the order of the   *)
(* imported modules and what they may call of each other, and the types    *)
(* that resolve; for any number of declarations, fields, nodes, calls and  *)
(* files, and types nested to any depth.                                   *)
(***************************************************************************)
EXTENDS TypeRules, ExternalTypes, BlockRules, OwnershipLoops, Imports, TLAPS, SequenceTheorems,
        FiniteSetTheorems, WellFoundedInduction

-----------------------------------------------------------------------------
(* The boundary of external types.                                         *)

\* A prefix, place by place.
LEMMA PrefixIs ==
  ASSUME NEW S, NEW s \in Seq(S), NEW t \in Seq(S)
  PROVE  IsPrefix(s, t) <=> Len(s) <= Len(t) /\ \A i \in 1..Len(s) : s[i] = t[i]
<1>1. /\ Len(s) \in Nat /\ Len(t) \in Nat
      /\ (\A i \in 1..Len(s) : s[i] \in S) /\ (\A i \in 1..Len(t) : t[i] \in S)
  BY LenProperties, ElementOfSeq
<1>2. /\ SubSeq(s, 1, Len(s)) \in Seq(S) /\ Len(SubSeq(s, 1, Len(s))) = Len(s)
      /\ \A i \in 1..Len(s) : SubSeq(s, 1, Len(s))[i] = s[i]
  BY <1>1, SubSeqProperties
<1>3. CASE Len(s) <= Len(t)
  <2>1. /\ SubSeq(t, 1, Len(s)) \in Seq(S) /\ Len(SubSeq(t, 1, Len(s))) = Len(s)
        /\ \A i \in 1..Len(s) : SubSeq(t, 1, Len(s))[i] = t[i]
    <3>1. \A i \in 1..Len(s) : t[i] \in S
      BY <1>1, <1>3
    <3> QED
      BY <1>1, <3>1, SubSeqProperties
  <2>2. SubSeq(s, 1, Len(s)) = SubSeq(t, 1, Len(s)) <=> \A i \in 1..Len(s) : s[i] = t[i]
    <3>1. ASSUME \A i \in 1..Len(s) : s[i] = t[i]
          PROVE  SubSeq(s, 1, Len(s)) = SubSeq(t, 1, Len(s))
      <4>1. \A i \in 1..Len(s) : SubSeq(s, 1, Len(s))[i] = SubSeq(t, 1, Len(s))[i]
        BY <1>2, <2>1, <3>1
      <4> QED
        BY <1>2, <2>1, <4>1, SeqEqual
    <3> QED
      BY <1>2, <2>1, <3>1
  <2> QED
    BY <1>3, <2>2 DEF IsPrefix
<1>4. CASE ~(Len(s) <= Len(t))
  BY <1>4 DEF IsPrefix
<1> QED
  BY <1>3, <1>4

\* The names on the paths of types.
PathWords == {"A", "B", "C", "D"}

\* A path has a name at least, and what encloses a type has a path.
LEMMA PathsAre ==
  /\ TypePaths \subseteq Seq(PathWords)
  /\ \A p \in TypePaths : Len(p) > 1 => EnclosingType(p) \in TypePaths
  /\ \A p \in TypePaths : Len(p) \in Nat \ {0}
  /\ Nowhere \notin TypePaths
<1>0. "A" \in PathWords /\ "B" \in PathWords /\ "C" \in PathWords /\ "D" \in PathWords
  BY DEF PathWords
<1>1. TypePaths \subseteq Seq(PathWords)
  BY <1>0 DEF TypePaths
<1>2. ASSUME NEW p \in TypePaths, Len(p) > 1 PROVE EnclosingType(p) \in TypePaths
  <2>1. CASE p = <<"A", "B">>
    <3>1. Len(p) = 2 /\ p[1] = "A" /\ p \in Seq(PathWords)
      BY <1>0, <2>1
    <3>2. SubSeq(p, 1, 1) = <<"A">>
      <4> DEFINE u == SubSeq(p, 1, 1)
                 v == <<"A">>
      <4>1. u \in Seq(PathWords) /\ Len(u) = 1 /\ u[1] = "A"
        BY <3>1, SubSeqProperties
      <4>2. v \in Seq(PathWords) /\ Len(v) = 1 /\ v[1] = "A"
        BY <1>0
      <4> HIDE DEF u, v
      <4>3. u = v
        BY <4>1, <4>2, SeqEqual
      <4> QED
        BY <4>3 DEF u, v
    <3>3. Len(p) - 1 = 1
      BY <3>1
    <3> QED
      BY <3>2, <3>3 DEF EnclosingType, TypePaths
  <2>2. CASE p = <<"A", "B", "C">>
    <3>1. Len(p) = 3 /\ p[1] = "A" /\ p[2] = "B" /\ p \in Seq(PathWords)
      BY <1>0, <2>2
    <3>2. SubSeq(p, 1, 2) = <<"A", "B">>
      <4> DEFINE u == SubSeq(p, 1, 2)
                 v == <<"A", "B">>
      <4>1. u \in Seq(PathWords) /\ Len(u) = 2 /\ u[1] = "A" /\ u[2] = "B"
        BY <3>1, SubSeqProperties
      <4>2. v \in Seq(PathWords) /\ Len(v) = 2 /\ v[1] = "A" /\ v[2] = "B"
        BY <1>0
      <4> HIDE DEF u, v
      <4>3. u = v
        BY <4>1, <4>2, SeqEqual
      <4> QED
        BY <4>3 DEF u, v
    <3>3. Len(p) - 1 = 2
      BY <3>1
    <3> QED
      BY <3>2, <3>3 DEF EnclosingType, TypePaths
  <2>3. CASE p = <<"A">> \/ p = <<"D">>
    BY <1>2, <2>3
  <2> QED
    BY <2>1, <2>2, <2>3 DEF TypePaths
<1>3. \A p \in TypePaths : Len(p) \in Nat \ {0}
  BY DEF TypePaths
<1>4. Nowhere \notin TypePaths
  BY <1>3 DEF Nowhere
<1> QED
  BY <1>1, <1>2, <1>3, <1>4

\* Enclosing is a partial order, and what encloses a type encloses the type around it.
LEMMA EnclosesIs ==
  /\ \A p \in TypePaths : Encloses(p, p)
  /\ \A p, q, r \in TypePaths : Encloses(p, q) /\ Encloses(q, r) => Encloses(p, r)
  /\ \A p, q \in TypePaths : Encloses(p, q) /\ Encloses(q, p) => p = q
  /\ \A p \in TypePaths : Len(p) > 1 => Encloses(EnclosingType(p), p) /\ EnclosingType(p) # p
  /\ \A p, q \in TypePaths : Encloses(p, q) /\ p # q =>
       Len(q) > 1 /\ Encloses(p, EnclosingType(q))
<1>1. /\ TypePaths \subseteq Seq(PathWords)
      /\ \A p \in TypePaths : Len(p) > 1 => EnclosingType(p) \in TypePaths
  BY PathsAre
<1>2. \A p, q \in TypePaths :
        /\ Encloses(p, q) <=> Len(p) <= Len(q) /\ \A i \in 1..Len(p) : p[i] = q[i]
        /\ Len(p) \in Nat /\ Len(p) # 0
  <2>1. \A p \in TypePaths : Len(p) \in Nat /\ Len(p) # 0
    BY DEF TypePaths
  <2>2. \A p, q \in TypePaths :
        Encloses(p, q) <=> Len(p) <= Len(q) /\ \A i \in 1..Len(p) : p[i] = q[i]
    BY <1>1, PrefixIs DEF Encloses
  <2> QED
    BY <2>1, <2>2
<1>3. \A p \in TypePaths : Len(p) > 1 =>
        /\ Len(EnclosingType(p)) = Len(p) - 1
        /\ \A i \in 1..(Len(p) - 1) : EnclosingType(p)[i] = p[i]
  <2> SUFFICES ASSUME NEW p \in TypePaths, Len(p) > 1
               PROVE  /\ Len(EnclosingType(p)) = Len(p) - 1
                      /\ \A i \in 1..(Len(p) - 1) : EnclosingType(p)[i] = p[i]
    OBVIOUS
  <2>1. Len(p) \in Nat /\ p \in Seq(PathWords)
    BY <1>1, <1>2
  <2>2. \A i \in 1..(Len(p) - 1) : p[i] \in PathWords
    BY <2>1, ElementOfSeq
  <2> QED
    BY <2>1, <2>2, SubSeqProperties DEF EnclosingType
<1>4. \A p \in TypePaths : Encloses(p, p)
  BY <1>2
<1>5. ASSUME NEW p \in TypePaths, NEW q \in TypePaths, NEW r \in TypePaths,
             Encloses(p, q), Encloses(q, r)
      PROVE  Encloses(p, r)
  <2>1. Len(p) <= Len(q) /\ Len(q) <= Len(r) /\ Len(p) <= Len(r)
    BY <1>2, <1>5
  <2>2. \A i \in 1..Len(p) : p[i] = r[i]
    BY <1>2, <1>5, <2>1
  <2> QED
    BY <1>2, <2>1, <2>2
<1>6. ASSUME NEW p \in TypePaths, NEW q \in TypePaths, Encloses(p, q), Len(p) = Len(q)
      PROVE  p = q
  <2>1. p \in Seq(PathWords) /\ q \in Seq(PathWords) /\ \A i \in 1..Len(p) : p[i] = q[i]
    BY <1>1, <1>2, <1>6
  <2> QED
    BY <1>6, <2>1, SeqEqual
<1>7. ASSUME NEW p \in TypePaths, NEW q \in TypePaths, Encloses(p, q), Encloses(q, p)
      PROVE  p = q
  <2>1. Len(p) = Len(q)
    BY <1>2, <1>7
  <2> QED
    BY <1>6, <1>7, <2>1
<1>8. ASSUME NEW p \in TypePaths, Len(p) > 1
      PROVE  Encloses(EnclosingType(p), p) /\ EnclosingType(p) # p
  BY <1>1, <1>2, <1>3, <1>8
<1>9. ASSUME NEW p \in TypePaths, NEW q \in TypePaths, Encloses(p, q), p # q
      PROVE  Len(q) > 1 /\ Encloses(p, EnclosingType(q))
  <2>1. Len(p) <= Len(q) /\ (\A i \in 1..Len(p) : p[i] = q[i])
        /\ Len(p) \in Nat /\ Len(q) \in Nat /\ Len(p) # 0
    BY <1>2, <1>9
  <2>2. Len(p) # Len(q)
    BY <1>6, <1>9
  <2>3. Len(q) > 1 /\ Len(p) <= Len(q) - 1
    BY <2>1, <2>2
  <2>4. \A i \in 1..Len(p) : p[i] = EnclosingType(q)[i]
    BY <1>3, <2>1, <2>3
  <2> QED
    BY <1>1, <1>2, <1>3, <2>3, <2>4
<1> QED
  BY <1>4, <1>5, <1>7, <1>8, <1>9

-----------------------------------------------------------------------------
\* What the table says of a type.
ClassEntries == [external : BOOLEAN, owner : TypePaths \cup {Nowhere}, comptime : BOOLEAN]

\* The state keeps its types.
ExternalTyped ==
  /\ declaredTypes \in TypeSources
  /\ visits \in SUBSET TypePaths
  /\ classes \in [TypePaths \ visits -> ClassEntries]
  /\ DOMAIN members \subseteq MemberDecls
  /\ members \in [DOMAIN members -> ClassEntries]
  /\ marked \subseteq TypePaths

\* Types are visited from the outside in, and marked when all are.
OutsideIn ==
  /\ \A p, q \in TypePaths : Encloses(p, q) /\ p \in visits => q \in visits
  /\ \A x \in DOMAIN members : x.type \in TypePaths \ visits
  /\ marked # {} => visits = {}

\* The boundary around what was visited so far.
Drawn ==
  \A p \in TypePaths \ visits :
    /\ classes[p].external => /\ classes[p].owner \in TypePaths /\ Encloses(classes[p].owner, p)
                              /\ Says(classes[p].owner, "external") \/ classes[p].owner \in marked
    /\ classes[p].owner # Nowhere => classes[p].external
    /\ refusals = {} => ~(classes[p].external /\ classes[p].comptime)
    /\ \A q \in TypePaths \ visits :
         Encloses(p, q) /\ classes[p].external => classes[q].external
    /\ p \in marked => classes[p].external

\* Members are inside with their type.
Inside ==
  \A x \in DOMAIN members :
    /\ classes[x.type].external =>
         members[x].external /\ ~members[x].comptime /\ members[x].owner = classes[x.type].owner
    /\ members[x].external => x.modifier = "external" \/ classes[x.type].external

\* What holds after each declaration and each mark.
ExternalInv == ExternalTyped /\ OutsideIn /\ Drawn /\ Inside

\* It holds in the initial states.
LEMMA ExternalStarts == ExternalInit => ExternalInv
<1> SUFFICES ASSUME ExternalInit PROVE ExternalInv
  OBVIOUS
<1>1. visits = TypePaths /\ classes = NoEntries /\ members = NoEntries /\ marked = {}
      /\ declaredTypes \in TypeSources
  BY DEF ExternalInit
<1>2. DOMAIN NoEntries = {} /\ NoEntries \in [{} -> ClassEntries]
  BY DEF NoEntries
<1> QED
  BY <1>1, <1>2 DEF ExternalInv, ExternalTyped, OutsideIn, Drawn, Inside

\* A type is declared, after those around it.
LEMMA VisitKeeps ==
  ASSUME ExternalInv, NEW p \in TypePaths, VisitTypeDecl(p)
  PROVE  ExternalInv'
<1> DEFINE E == ClassEntry(p)
           C == Collected(p)
<1>0. /\ p \in visits /\ (Len(p) > 1 => EnclosingType(p) \notin visits)
      /\ visits' = visits \ {p}
      /\ classes' = [q \in DOMAIN classes \cup {p} |-> IF q = p THEN E ELSE classes[q]]
      /\ members' = [x \in DOMAIN members \cup C |->
           IF x \in C THEN TableEntry(IsExternal(x, E), OwnerOf(p), x.modifier = "comptime")
           ELSE members[x]]
      /\ refusals' = {} => refusals = {} /\ ~(E.external /\ E.comptime)
      /\ UNCHANGED <<declaredTypes, marked>>
  BY DEF VisitTypeDecl
<1>1. ExternalTyped /\ OutsideIn /\ Drawn /\ Inside
  BY DEF ExternalInv
<1>1a. Len(p) > 1 => Len(p) # 1
  <2>1. PICK n \in Nat : n = Len(p)
    BY PathsAre
  <2> QED
    BY <2>1
<1>2. Len(p) > 1 => /\ EnclosingType(p) \in TypePaths \ visits
                    /\ classes[EnclosingType(p)] \in ClassEntries
  BY <1>0, <1>1, PathsAre DEF ExternalTyped
<1>3. /\ Inherited(p) \in TypePaths \cup {Nowhere}
      /\ Inherited(p) # Nowhere =>
           /\ Inherited(p) \in TypePaths /\ Encloses(Inherited(p), p)
           /\ Says(Inherited(p), "external") \/ Inherited(p) \in marked
  <2>1. CASE Len(p) = 1
    BY <2>1 DEF Inherited
  <2>2. CASE Len(p) # 1
    <3>0. Len(p) > 1
      BY <2>2 DEF TypePaths
    <3> DEFINE q == EnclosingType(p)
    <3>1. q \in TypePaths \ visits /\ classes[q] \in ClassEntries /\ Inherited(p) = classes[q].owner
      BY <1>2, <2>2, <3>0 DEF Inherited
    <3>2. Encloses(q, p)
      BY <3>0, EnclosesIs
    <3> HIDE DEF q
    <3>3. classes[q].owner # Nowhere =>
            /\ classes[q].owner \in TypePaths /\ Encloses(classes[q].owner, q)
            /\ Says(classes[q].owner, "external") \/ classes[q].owner \in marked
      BY <1>1, <3>1 DEF Drawn
    <3>4. classes[q].owner \in TypePaths \cup {Nowhere}
      BY <3>1 DEF ClassEntries
    <3>5. classes[q].owner # Nowhere => Encloses(classes[q].owner, p)
      BY <3>1, <3>2, <3>3, EnclosesIs
    <3> QED
      BY <3>1, <3>3, <3>4, <3>5
  <2> QED
    BY <2>1, <2>2
<1>4. /\ E.external = (Says(p, "external") \/ Inherited(p) # Nowhere)
      /\ E.owner = (IF Says(p, "external") THEN p ELSE Inherited(p))
      /\ E.comptime = Says(p, "comptime") /\ E.owner = OwnerOf(p)
      /\ E = TableEntry(Says(p, "external") \/ Inherited(p) # Nowhere, OwnerOf(p), Says(p, "comptime"))
  BY DEF ClassEntry, TableEntry, OwnerOf
<1>5. E \in ClassEntries
  BY <1>3, <1>4 DEF TableEntry, ClassEntries, OwnerOf, Says
<1>6. /\ E.external => /\ E.owner \in TypePaths /\ Encloses(E.owner, p)
                       /\ Says(E.owner, "external") \/ E.owner \in marked
      /\ E.owner # Nowhere => E.external
  <2> HIDE DEF E
  <2>1. CASE Says(p, "external")
    <3>1. E.owner = p /\ E.external /\ Encloses(p, p)
      BY <1>4, <2>1, EnclosesIs
    <3> QED
      BY <2>1, <3>1
  <2>2. CASE ~Says(p, "external")
    <3>1. E.owner = Inherited(p) /\ (E.external <=> Inherited(p) # Nowhere)
      BY <1>4, <2>2
    <3>2. CASE Inherited(p) = Nowhere
      BY <3>1, <3>2
    <3>3. CASE Inherited(p) # Nowhere
      <4> DEFINE o == Inherited(p)
      <4>1. /\ o \in TypePaths /\ Encloses(o, p)
            /\ Says(o, "external") \/ o \in marked
        BY <1>3, <3>3
      <4>2. E.owner = o
        BY <3>1
      <4> HIDE DEF o
      <4> QED
        BY <3>1, <3>3, <4>1, <4>2 DEF o
    <3> QED
      BY <3>2, <3>3
  <2> QED
    BY <2>1, <2>2
<1>7. \A x \in C : /\ x \in MemberDecls /\ x.type = p /\ ~Conflicts(x, E)
  BY <1>1 DEF Collected, ExternalTyped, TypeSources
<1> HIDE DEF E, C
<1>8. /\ DOMAIN classes' = TypePaths \ visits' /\ classes'[p] = E
      /\ \A q \in TypePaths \ visits : classes'[q] = classes[q]
      /\ DOMAIN classes = TypePaths \ visits
  BY <1>0, <1>1 DEF ExternalTyped
<1>9. /\ DOMAIN members' = DOMAIN members \cup C
      /\ \A x \in C :
           members'[x] = TableEntry(IsExternal(x, E), OwnerOf(p), x.modifier = "comptime")
      /\ \A x \in DOMAIN members \ C : members'[x] = members[x]
  BY <1>0
<1>10. ExternalTyped'
  <2>1. classes' \in [TypePaths \ visits' -> ClassEntries]
    BY <1>0, <1>1, <1>5, <1>8 DEF ExternalTyped
  <2>2. \A x \in C : TableEntry(IsExternal(x, E), OwnerOf(p), x.modifier = "comptime") \in ClassEntries
    BY <1>4, <1>5 DEF TableEntry, ClassEntries, IsExternal
  <2>3. members' \in [DOMAIN members' -> ClassEntries] /\ DOMAIN members' \subseteq MemberDecls
    BY <1>0, <1>1, <1>7, <1>9, <2>2 DEF ExternalTyped
  <2> QED
    BY <1>0, <1>1, <2>1, <2>3 DEF ExternalTyped
<1>11. OutsideIn'
  <2>1. marked = {}
    BY <1>0, <1>1 DEF OutsideIn
  <2>2. ASSUME NEW q \in TypePaths, NEW r \in TypePaths, Encloses(q, r), q \in visits'
        PROVE  r \in visits'
    <3>1. r \in visits /\ q \in visits /\ q # p
      BY <1>0, <1>1, <2>2 DEF OutsideIn
    <3>2. r # p
      <4> SUFFICES ASSUME r = p PROVE FALSE
        OBVIOUS
      <4>1. Len(p) > 1 /\ Encloses(q, EnclosingType(p))
        BY <2>2, <3>1, EnclosesIs
      <4>2. EnclosingType(p) \in visits
        BY <1>1, <1>2, <3>1, <4>1 DEF OutsideIn
      <4> QED
        BY <1>0, <4>1, <4>2
    <3> QED
      BY <1>0, <3>1, <3>2
  <2>3. \A x \in DOMAIN members' : x.type \in TypePaths \ visits'
    BY <1>0, <1>1, <1>7, <1>9 DEF OutsideIn
  <2> QED
    BY <1>0, <2>1, <2>2, <2>3 DEF OutsideIn, Encloses
<1>12. Drawn'
  <2>1. marked = {} /\ marked' = {}
    BY <1>0, <1>1 DEF OutsideIn
  <2>1a. \A q, m : Says(q, m)' <=> Says(q, m)
    BY <1>0 DEF Says
  <2>2. ASSUME NEW q \in TypePaths \ visits'
        PROVE  /\ classes'[q].external =>
                    /\ classes'[q].owner \in TypePaths /\ Encloses(classes'[q].owner, q)
                    /\ Says(classes'[q].owner, "external") \/ classes'[q].owner \in marked'
               /\ classes'[q].owner # Nowhere => classes'[q].external
               /\ refusals' = {} => ~(classes'[q].external /\ classes'[q].comptime)
    <3>1. CASE q = p
      BY <1>0, <1>6, <1>8, <3>1
    <3>2. CASE q # p
      <4>1. q \in TypePaths \ visits /\ classes'[q] = classes[q]
        BY <1>0, <1>8, <3>2
      <4> QED
        BY <1>0, <1>1, <4>1 DEF Drawn
    <3> QED
      BY <3>1, <3>2
  <2>3. ASSUME NEW q \in TypePaths \ visits', NEW r \in TypePaths \ visits',
               Encloses(q, r), classes'[q].external
        PROVE  classes'[r].external
    <3>1. CASE q = r
      BY <2>3, <3>1
    <3>2. CASE q # r /\ r = p
      <4>1. Len(p) > 1 /\ Encloses(q, EnclosingType(p)) /\ q \in TypePaths \ visits
        BY <1>0, <2>3, <3>2, EnclosesIs
      <4>2. classes[q].external
        BY <1>8, <2>3, <4>1
      <4>3. classes[EnclosingType(p)].external
        BY <1>1, <1>2, <4>1, <4>2 DEF Drawn
      <4>4. classes[EnclosingType(p)].owner \in TypePaths
        BY <1>1, <1>2, <4>1, <4>3 DEF Drawn
      <4>5. Inherited(p) # Nowhere
        <5>0. Nowhere \notin TypePaths
          BY PathsAre
        <5>1. Len(p) # 1
          BY <1>1a, <4>1
        <5>2. Inherited(p) = classes[EnclosingType(p)].owner
          BY <5>1 DEF Inherited
        <5> QED
          BY <4>4, <5>0, <5>2
      <4> QED
        BY <1>4, <1>8, <3>2, <4>5
    <3>3. CASE q # r /\ q = p
      BY <1>0, <1>1, <2>3, <3>3 DEF OutsideIn
    <3>4. CASE q # p /\ r # p
      <4>1. q \in TypePaths \ visits /\ r \in TypePaths \ visits
        BY <1>0, <3>4
      <4> QED
        BY <1>1, <1>8, <2>3, <4>1 DEF Drawn
    <3> QED
      BY <3>1, <3>2, <3>3, <3>4
  <2> QED
    BY <2>1, <2>1a, <2>2, <2>3 DEF Drawn, Encloses
<1>13. Inside'
  <2> SUFFICES ASSUME NEW x \in DOMAIN members'
               PROVE  /\ classes'[x.type].external =>
                           /\ members'[x].external /\ ~members'[x].comptime
                           /\ members'[x].owner = classes'[x.type].owner
                      /\ members'[x].external =>
                           x.modifier = "external" \/ classes'[x.type].external
    BY DEF Inside
  <2>1. CASE x \in C
    <3>1. /\ members'[x].external = IsExternal(x, E) /\ members'[x].owner = E.owner
          /\ members'[x].comptime = (x.modifier = "comptime") /\ x.type = p
          /\ ~Conflicts(x, E)
      BY <1>4, <1>7, <1>9, <2>1 DEF TableEntry
    <3> QED
      BY <1>8, <3>1 DEF IsExternal, Conflicts
  <2>2. CASE x \notin C
    <3>1. x \in DOMAIN members /\ members'[x] = members[x] /\ classes'[x.type] = classes[x.type]
      BY <1>1, <1>8, <1>9, <2>2 DEF OutsideIn
    <3> QED
      BY <1>1, <3>1 DEF Inside
  <2> QED
    BY <2>1, <2>2
<1> QED
  BY <1>10, <1>11, <1>12, <1>13 DEF ExternalInv

\* A policy marks a type: all it encloses goes with it.
LEMMA MarkKeeps ==
  ASSUME ExternalInv, NEW p \in TypePaths, MarkExternalType(p)
  PROVE  ExternalInv'
<1> DEFINE O == Owners(p)
           I == {x \in DOMAIN members : x.type \in O}
<1>1. ExternalTyped /\ OutsideIn /\ Drawn /\ Inside /\ visits = {} /\ refusals = {}
      /\ UNCHANGED <<declaredTypes, visits, refusals>>
  BY DEF ExternalInv, MarkExternalType
<1>2. CASE UNCHANGED <<classes, members, marked>>
  BY <1>1, <1>2 DEF ExternalInv, ExternalTyped, OutsideIn, Drawn, Inside, Says, Encloses
<1>3. ASSUME ~UNCHANGED <<classes, members, marked>> PROVE ExternalInv'
  <2>0. /\ \A q \in O : ~classes[q].comptime
        /\ \A x \in I : ~members[x].comptime
        /\ classes' = [q \in DOMAIN classes |->
             IF q \in O THEN [classes[q] EXCEPT !.external = TRUE, !.owner = p] ELSE classes[q]]
        /\ members' = [x \in DOMAIN members |->
             IF x \in I THEN [members[x] EXCEPT !.external = TRUE, !.owner = p] ELSE members[x]]
        /\ marked' = marked \cup {p}
    BY <1>3 DEF MarkExternalType
  <2>1. DOMAIN classes = TypePaths /\ \A q \in TypePaths : q \in O <=> Encloses(p, q)
    BY <1>1 DEF ExternalTyped, Owners
  <2> HIDE DEF O
  <2>2. \A q \in TypePaths : classes[q] \in ClassEntries
    BY <1>1 DEF ExternalTyped
  <2>3. \A q \in TypePaths : q \in O =>
          classes'[q].external = TRUE /\ classes'[q].owner = p /\ classes'[q].comptime = FALSE
          /\ classes'[q] \in ClassEntries
    BY <2>0, <2>1, <2>2 DEF ClassEntries
  <2>4. \A q \in TypePaths : q \notin O => classes'[q] = classes[q]
    BY <2>0, <2>1
  <2>5. \A x \in DOMAIN members : members[x] \in ClassEntries /\ x.type \in TypePaths /\ x \in MemberDecls
    BY <1>1 DEF ExternalTyped, OutsideIn
  <2>6. \A x \in DOMAIN members : x.type \in O =>
          members'[x].external = TRUE /\ members'[x].owner = p /\ members'[x].comptime = FALSE
          /\ members'[x] \in ClassEntries
    BY <2>0, <2>5 DEF ClassEntries
  <2>7. \A x \in DOMAIN members : x.type \notin O => members'[x] = members[x]
    BY <2>0
  <2>8. DOMAIN members' = DOMAIN members /\ DOMAIN classes' = DOMAIN classes
    BY <2>0
  <2>9. ExternalTyped'
    <3>1. classes' \in [TypePaths -> ClassEntries] /\ members' \in [DOMAIN members -> ClassEntries]
      <4>1. classes' = [q \in TypePaths |-> classes'[q]] /\ \A q \in TypePaths : classes'[q] \in ClassEntries
        BY <2>0, <2>1, <2>2, <2>3, <2>4
      <4>2. members' = [x \in DOMAIN members |-> members'[x]]
            /\ \A x \in DOMAIN members : members'[x] \in ClassEntries
        BY <2>0, <2>5, <2>6, <2>7
      <4> QED
        BY <4>1, <4>2
    <3> QED
      BY <1>1, <2>0, <2>8, <3>1 DEF ExternalTyped
  <2>10. OutsideIn'
    BY <1>1, <2>8 DEF OutsideIn, Encloses
  <2>11. Drawn'
    <3> SUFFICES ASSUME NEW q \in TypePaths
        PROVE  /\ classes'[q].external =>
                    /\ classes'[q].owner \in TypePaths /\ Encloses(classes'[q].owner, q)
                    /\ Says(classes'[q].owner, "external") \/ classes'[q].owner \in marked'
               /\ classes'[q].owner # Nowhere => classes'[q].external
               /\ ~(classes'[q].external /\ classes'[q].comptime)
               /\ \A r \in TypePaths : Encloses(q, r) /\ classes'[q].external => classes'[r].external
               /\ q \in marked' => classes'[q].external
      BY <1>1 DEF Drawn, Encloses, Says
    <3>1. CASE q \in O
      <4>1. Encloses(p, q)
        BY <2>1, <3>1
      <4>2. \A r \in TypePaths : Encloses(q, r) => r \in O
        BY <2>1, <4>1, EnclosesIs
      <4>3. /\ classes'[q].external = TRUE /\ classes'[q].owner = p /\ classes'[q].comptime = FALSE
            /\ p \in marked'
        BY <2>0, <2>3, <3>1
      <4>4. \A r \in TypePaths : Encloses(q, r) => classes'[r].external
        BY <2>3, <4>2
      <4> QED
        BY <4>1, <4>3, <4>4
    <3>2. CASE q \notin O
      <4>1. classes'[q] = classes[q] /\ q # p
        BY <2>1, <2>4, <3>2, EnclosesIs
      <4>2. \A r \in TypePaths : Encloses(q, r) /\ classes[q].external => classes'[r].external
        <5> SUFFICES ASSUME NEW r \in TypePaths, Encloses(q, r), classes[q].external
                     PROVE  classes'[r].external
          OBVIOUS
        <5>1. classes[r].external
          BY <1>1 DEF Drawn
        <5> QED
          BY <2>3, <2>4, <5>1
      <4>3. /\ classes[q].external =>
                 /\ classes[q].owner \in TypePaths /\ Encloses(classes[q].owner, q)
                 /\ Says(classes[q].owner, "external") \/ classes[q].owner \in marked
            /\ classes[q].owner # Nowhere => classes[q].external
            /\ ~(classes[q].external /\ classes[q].comptime)
            /\ q \in marked => classes[q].external
        BY <1>1 DEF Drawn
      <4>4. (q \in marked' => q \in marked) /\ marked \subseteq marked'
        BY <2>0, <4>1
      <4>5. classes'[q].external => Says(classes'[q].owner, "external") \/ classes'[q].owner \in marked'
        BY <4>1, <4>3, <4>4
      <4> QED
        BY <4>1, <4>2, <4>3, <4>4, <4>5
    <3> QED
      BY <3>1, <3>2
  <2>12. Inside'
    <3> SUFFICES ASSUME NEW x \in DOMAIN members
                 PROVE  /\ classes'[x.type].external =>
                             /\ members'[x].external /\ ~members'[x].comptime
                             /\ members'[x].owner = classes'[x.type].owner
                        /\ members'[x].external =>
                             x.modifier = "external" \/ classes'[x.type].external
      BY <2>8 DEF Inside
    <3>1. CASE x.type \in O
      BY <2>3, <2>5, <2>6, <3>1
    <3>2. CASE x.type \notin O
      <4>1. members'[x] = members[x] /\ classes'[x.type] = classes[x.type]
        BY <2>4, <2>5, <2>7, <3>2
      <4> QED
        BY <1>1, <4>1 DEF Inside
    <3> QED
      BY <3>1, <3>2
  <2> QED
    BY <2>9, <2>10, <2>11, <2>12 DEF ExternalInv
<1> QED
  BY <1>2, <1>3

\* The boundary is closed, however declarations and policies draw it: an external type has an
\* owner around it that said so or was marked, all it encloses is external down to each member,
\* and nothing inside is comptime (SymbolTable.cpp:74-109, SemanticAnalyzer.cpp:430-437).
THEOREM BoundaryAlwaysClosed == ExternalSpec => []BoundaryIsClosed
<1>1. ExternalInv => BoundaryIsClosed
  <2> SUFFICES ASSUME ExternalInv, visits = {}, refusals = {} PROVE BoundaryIsClosed
    BY DEF BoundaryIsClosed
  <2>1. ASSUME NEW p \in TypePaths, classes[p].external
        PROVE  /\ Encloses(classes[p].owner, p) /\ classes[p].owner # Nowhere
               /\ Says(classes[p].owner, "external") \/ classes[p].owner \in marked
               /\ ~classes[p].comptime
               /\ \A q \in TypePaths : Encloses(p, q) => classes[q].external
    BY <2>1, PathsAre DEF ExternalInv, Drawn
  <2>2. ASSUME NEW x \in DOMAIN members
        PROVE  /\ ExternalTypeForMember(x) # Nowhere =>
                    /\ members[x].external /\ ~members[x].comptime
                    /\ members[x].owner = classes[x.type].owner
               /\ members[x].external => x.modifier = "external" \/ classes[x.type].external
    BY DEF ExternalInv, Inside, ExternalTypeForMember
  <2>3. ASSUME NEW p \in marked, NEW q \in TypePaths, Encloses(p, q) PROVE classes[q].external
    <3>1. p \in TypePaths
      BY DEF ExternalInv, ExternalTyped
    <3> QED
      BY <2>3, <3>1 DEF ExternalInv, Drawn
  <2> QED
    BY <2>1, <2>2, <2>3 DEF BoundaryIsClosed
<1>2. ExternalInit => ExternalInv
  BY ExternalStarts
<1>3. ExternalInv /\ [ExternalNext]_externalVars => ExternalInv'
  <2> SUFFICES ASSUME ExternalInv, [ExternalNext]_externalVars PROVE ExternalInv'
    OBVIOUS
  <2>1. CASE UNCHANGED externalVars
    BY <2>1 DEF externalVars, ExternalInv, ExternalTyped, OutsideIn, Drawn, Inside, Says, Encloses
  <2> QED
    BY <2>1, VisitKeeps, MarkKeeps DEF ExternalNext
<1> QED
  BY <1>1, <1>2, <1>3, PTL DEF ExternalSpec

-----------------------------------------------------------------------------
(* The stages of a block.                                                  *)

\* A set of numbers that is not empty has a least one.
LEMMA LeastNumber ==
  ASSUME NEW T, T \subseteq Nat, T # {}
  PROVE  \E x \in T : \A y \in T : x <= y
<1> DEFINE W == {0..x : x \in T}
<1>1. W \subseteq FiniteSubsetsOf(Nat) /\ W # {}
  <2>1. \A x \in T : IsFiniteSet(0..x) /\ 0..x \in SUBSET Nat
    BY FS_Interval
  <2> QED
    BY <2>1 DEF FiniteSubsetsOf
<1>2. \E w \in W : \A u \in W : ~(<<u, w>> \in StrictSubsetOrdering(Nat))
  <2>1. IsWellFoundedOn(StrictSubsetOrdering(Nat), FiniteSubsetsOf(Nat))
    BY FS_StrictSubsetOrderingWellFounded, Zenon
  <2> HIDE DEF W
  <2> QED
    BY <1>1, <2>1, WFMin, Zenon
<1>3. PICK x \in T : \A y \in T : ~(<<0..y, 0..x>> \in StrictSubsetOrdering(Nat))
  BY <1>2
<1>4. ASSUME NEW y \in T, ~(x <= y) PROVE FALSE
  <2>1. 0..y \subseteq 0..x /\ x \in 0..x /\ x \notin 0..y
    BY <1>4
  <2>2. 0..y \in SUBSET Nat /\ 0..x \in SUBSET Nat
    BY <1>4
  <2> QED
    BY <1>3, <2>1, <2>2 DEF StrictSubsetOrdering
<1> QED
  BY <1>4

\* And a bounded one a last.
LEMMA Greatest ==
  ASSUME NEW n \in Nat, NEW T, T \subseteq 1..n, T # {}
  PROVE  \E x \in T : \A y \in T : y <= x
<1> DEFINE U == {n - x : x \in T}
<1>1. U \subseteq Nat /\ U # {}
  <2>1. \A x \in T : n - x \in Nat
    BY SMT
  <2> QED
    BY <2>1
<1>2. PICK u \in U : \A v \in U : u <= v
  <2> HIDE DEF U
  <2> QED
    BY <1>1, LeastNumber
<1>3. PICK x \in T : u = n - x
  BY <1>2
<1>4. \A y \in T : u <= n - y
  BY <1>2
<1> HIDE DEF U
<1>5. ASSUME NEW y \in T PROVE y <= x
  <2>1. n - x <= n - y /\ x \in Int /\ y \in Int
    BY <1>3, <1>4
  <2> QED
    BY <2>1
<1> QED
  BY <1>5

-----------------------------------------------------------------------------
\* Where the validation is before and after the stages are assigned.
BlockStaged == {"owner", "references", "monotone", "assign"}
BlockSettled == {"owned", "ruled"}

\* What is written of the stages is monotone, unless this was reported.
WrittenMonotone ==
  rejected = {} =>
    \A i, j \in DOMAIN stages :
      i < j /\ Written(i) # Unstaged /\ Written(j) # Unstaged => Written(i) <= Written(j)

\* The others come behind all that is written, in their order.
AssignedBehind ==
  \A i, j \in DOMAIN stages :
    /\ Written(i) # Unstaged => stages[i] = Written(i)
    /\ Written(i) = Unstaged => stages[i] \in Int /\ stages[i] # Unstaged
    /\ Written(i) = Unstaged /\ Written(j) # Unstaged => stages[j] < stages[i]
    /\ Written(i) = Unstaged /\ Written(j) = Unstaged /\ i < j => stages[i] < stages[j]

\* The owned values of the calls of one stage are apart, unless it has the warning.
OwnedApart ==
  \A i, j \in DOMAIN stages :
    i # j /\ stages[i] = stages[j] /\ stages[i] \notin warned
      /\ Resolves(block.calls[i]) /\ Resolves(block.calls[j]) =>
         Range(Owned[block.calls[i].callee]) \cap Range(Owned[block.calls[j].callee]) = {}

\* What holds at each check.
BlockInv ==
  \/ /\ block \in FnBlocks /\ DOMAIN stages = DOMAIN block.calls
     /\ kpc \in BlockStaged \cup BlockSettled
     /\ kpc \in BlockStaged => \A i \in DOMAIN stages : stages[i] = Written(i)
     /\ kpc \in {"assign"} \cup BlockSettled => WrittenMonotone
     /\ kpc \in BlockSettled => AssignedBehind
     /\ kpc = "ruled" => OwnedApart
  \/ ~IsFn /\ kpc \in {"match", "demand", "ruled"}

\* The calls of a block are numbered.
LEMMA CallsAre ==
  ASSUME block \in FnBlocks
  PROVE  \E n \in Nat : /\ DOMAIN block.calls = 1..n
                         /\ \A i \in 1..n : /\ block.calls[i] \in BlockCalls
                                            /\ Written(i) \in {Unstaged, 0, 1, 2}
<1>1. PICK n \in 0..MaxBlockCalls : block.calls \in [1..n -> BlockCalls]
  BY DEF FnBlocks
<1>2. n \in Nat /\ \A i \in 1..n : block.calls[i] \in BlockCalls
  BY <1>1
<1> QED
  BY <1>1, <1>2 DEF Written, BlockCalls

\* It holds in the initial states.
LEMMA BlockStarts == BlockInit => BlockInv
<1> SUFFICES ASSUME BlockInit PROVE BlockInv
  OBVIOUS
<1>1. CASE block \in FnBlocks /\ kpc = "owner" /\ BlockStart(block.calls)
  <2>1. stages = [i \in DOMAIN block.calls |-> block.calls[i].stage]
    BY <1>1 DEF BlockStart
  <2> QED
    BY <1>1, <2>1 DEF BlockInv, BlockStaged, BlockSettled, Written
<1>2. CASE block \in BlockFlows /\ kpc = "match"
  <2>1. DOMAIN block = {"edges", "last", "flow", "returns", "params"}
    BY <1>2, PipelinesAssumption
  <2>2. ~IsFn
    BY <2>1 DEF IsFn
  <2> QED
    BY <1>2, <2>2 DEF BlockInv
<1> QED
  BY <1>1, <1>2 DEF BlockInit

\* The steps that only report.
LEMMA ReportKeeps ==
  ASSUME BlockInv, CheckOwner \/ CheckReferences
  PROVE  BlockInv'
<1>1. /\ kpc \in {"owner", "references"} /\ kpc' \in {"references", "monotone"}
      /\ UNCHANGED <<block, stages>>
  BY DEF CheckOwner, CheckReferences
<1>2. /\ block \in FnBlocks /\ DOMAIN stages = DOMAIN block.calls
      /\ \A i \in DOMAIN stages : stages[i] = Written(i)
  BY <1>1 DEF BlockInv, BlockStaged
<1> QED
  BY <1>1, <1>2 DEF BlockInv, BlockStaged, BlockSettled, Written

\* Each stage that is written is as large as the one before it: so all are.
LEMMA MonotoneKeeps ==
  ASSUME BlockInv, CheckMonotone
  PROVE  BlockInv'
<1>1. /\ kpc = "monotone" /\ kpc' = "assign" /\ UNCHANGED <<block, stages>>
      /\ rejected' = rejected \cup {r \in {"stage"} : \E i \in DOMAIN stages :
           /\ stages[i] # Unstaged /\ Before(i) # {}
           /\ stages[i] < stages[CHOOSE j \in Before(i) : \A k \in Before(i) : k <= j]}
  BY DEF CheckMonotone, Reject
<1>2. /\ block \in FnBlocks /\ DOMAIN stages = DOMAIN block.calls
      /\ \A i \in DOMAIN stages : stages[i] = Written(i)
  BY <1>1 DEF BlockInv, BlockStaged, BlockSettled
<1>3. PICK n \in Nat : /\ DOMAIN stages = 1..n
                       /\ \A i \in 1..n : stages[i] \in {Unstaged, 0, 1, 2}
  BY <1>2, CallsAre
<1>4. ASSUME rejected' = {}, NEW i \in 1..n, NEW j \in 1..n,
             i < j, stages[i] # Unstaged, stages[j] # Unstaged, ~(stages[i] <= stages[j])
      PROVE  FALSE
  <2> DEFINE Bad(y) == /\ y \in 1..n /\ stages[y] # Unstaged
                       /\ \E x \in 1..n : x < y /\ stages[x] # Unstaged /\ ~(stages[x] <= stages[y])
             T == {y \in 1..n : Bad(y)}
  <2>1. T \subseteq Nat /\ T # {}
    BY <1>4
  <2>2. PICK y \in T : \A z \in T : y <= z
    <3> HIDE DEF T
    <3> QED
      BY <2>1, LeastNumber
  <2>3. PICK x \in 1..n : x < y /\ stages[x] # Unstaged /\ ~(stages[x] <= stages[y])
    BY <2>2
  <2>4. y \in 1..n /\ stages[y] # Unstaged
    BY <2>2
  <2>5. x \in Before(y) /\ Before(y) \subseteq 1..(y - 1) /\ y - 1 \in Nat
    BY <2>3, <2>4 DEF Before
  <2> DEFINE m == CHOOSE k \in Before(y) : \A l \in Before(y) : l <= k
  <2>6. m \in Before(y) /\ \A l \in Before(y) : l <= m
    <3>1. \E k \in Before(y) : \A l \in Before(y) : l <= k
      BY <2>5, Greatest
    <3> QED
      BY <3>1
  <2>7. ~(stages[y] < stages[m])
    <3>1. "stage" \notin rejected'
      BY <1>4
    <3> QED
      BY <1>1, <1>3, <2>4, <2>5, <3>1
  <2> HIDE DEF m, T, Bad
  <2>8. m \in 1..n /\ m < y /\ stages[m] # Unstaged /\ x <= m
    BY <1>3, <2>4, <2>5, <2>6 DEF Before
  <2>9. stages[m] \in Int /\ stages[y] \in Int /\ stages[x] \in Int
    BY <1>3, <2>3, <2>4, <2>8 DEF Unstaged
  <2>10. ~(stages[x] <= stages[m])
    BY <2>3, <2>7, <2>9
  <2>11. x # m
    BY <2>9, <2>10
  <2>12. m \in T
    BY <2>3, <2>8, <2>10, <2>11 DEF T, Bad
  <2> QED
    BY <2>2, <2>4, <2>8, <2>12
<1>5. WrittenMonotone'
  BY <1>1, <1>2, <1>3, <1>4 DEF WrittenMonotone, Written
<1> QED
  BY <1>1, <1>2, <1>5 DEF BlockInv, BlockStaged, BlockSettled, Written

\* The largest stage that is written bounds them all.
LEMMA LargestIs ==
  ASSUME NEW n \in Nat, DOMAIN stages = 1..n, \A i \in 1..n : stages[i] \in {Unstaged, 0, 1, 2}
  PROVE  Largest \in {0, 1, 2} /\ \A i \in 1..n : stages[i] <= Largest
<1> DEFINE S == {0} \cup {stages[i] : i \in DOMAIN stages}
<1>1. \E m \in S : 0 <= m /\ \A i \in DOMAIN stages : stages[i] <= m
  <2>0. 0 \in S /\ (\A i \in 1..n : stages[i] \in S) /\ DOMAIN stages = 1..n
    OBVIOUS
  <2> HIDE DEF S
  <2>1. CASE \E i \in 1..n : stages[i] = 2
    <3>1. 2 \in S
      BY <2>0, <2>1
    <3>2. \A i \in DOMAIN stages : stages[i] <= 2
      BY DEF Unstaged
    <3> QED
      BY <3>1, <3>2
  <2>2. CASE (\E i \in 1..n : stages[i] = 1) /\ ~\E i \in 1..n : stages[i] = 2
    <3>1. 1 \in S
      BY <2>0, <2>2
    <3>2. \A i \in DOMAIN stages : stages[i] <= 1
      BY <2>2 DEF Unstaged
    <3> QED
      BY <3>1, <3>2
  <2>3. CASE ~(\E i \in 1..n : stages[i] = 1) /\ ~\E i \in 1..n : stages[i] = 2
    <3>1. \A i \in DOMAIN stages : stages[i] <= 0
      BY <2>3 DEF Unstaged
    <3> QED
      BY <2>0, <3>1
  <2> QED
    BY <2>1, <2>2, <2>3
<1>2. Largest \in S /\ 0 <= Largest /\ \A i \in DOMAIN stages : stages[i] <= Largest
  BY <1>1 DEF Largest
<1>3. Largest \in {Unstaged, 0, 1, 2}
  BY <1>2
<1> QED
  BY <1>2, <1>3 DEF Unstaged

\* The call after a call without a stage counts one more of them.
LEMMA CountGrows ==
  ASSUME NEW n \in Nat, NEW i \in 1..n, NEW j \in 1..n, i < j, stages[i] = Unstaged
  PROVE  LET before(x) == {y \in 1..(x - 1) : stages[y] = Unstaged} IN
         /\ Cardinality(before(i)) \in Nat /\ Cardinality(before(j)) \in Nat
         /\ Cardinality(before(i)) < Cardinality(before(j))
<1> DEFINE before(x) == {y \in 1..(x - 1) : stages[y] = Unstaged}
<1>1. \A x \in 1..n : IsFiniteSet(before(x)) /\ Cardinality(before(x)) \in Nat
  <2> TAKE x \in 1..n
  <2>1. IsFiniteSet(1..(x - 1)) /\ before(x) \subseteq 1..(x - 1)
    BY FS_Interval
  <2> QED
    BY <2>1, FS_Subset, FS_CardinalityType
<1>2. i \notin before(i)
  OBVIOUS
<1>3. Cardinality(before(i) \cup {i}) = Cardinality(before(i)) + 1
  BY <1>1, <1>2, FS_AddElement
<1>4. before(i) \cup {i} \subseteq before(j)
  OBVIOUS
<1>5. /\ Cardinality(before(i) \cup {i}) \in Nat
      /\ Cardinality(before(i) \cup {i}) <= Cardinality(before(j))
  BY <1>1, <1>4, FS_Subset, FS_CardinalityType
<1> HIDE DEF before
<1>6. /\ Cardinality(before(i)) \in Nat /\ Cardinality(before(j)) \in Nat
      /\ Cardinality(before(i)) < Cardinality(before(j))
  BY <1>1, <1>3, <1>5
<1> QED
  BY <1>6 DEF before

\* Calls without a stage get the ones after the largest.
LEMMA AssignKeeps ==
  ASSUME BlockInv, AssignStages
  PROVE  BlockInv'
<1>1. /\ kpc = "assign" /\ kpc' = "owned" /\ UNCHANGED <<block, rejected>>
      /\ stages' = [i \in DOMAIN stages |->
                      IF stages[i] = Unstaged THEN NextStage(i) ELSE stages[i]]
  BY DEF AssignStages
<1>2. /\ block \in FnBlocks /\ DOMAIN stages = DOMAIN block.calls /\ WrittenMonotone
      /\ \A i \in DOMAIN stages : stages[i] = Written(i)
  BY <1>1 DEF BlockInv, BlockStaged, BlockSettled
<1>3. PICK n \in Nat : /\ DOMAIN stages = 1..n
                       /\ \A i \in 1..n : stages[i] \in {Unstaged, 0, 1, 2}
  BY <1>2, CallsAre
<1>4. Largest \in {0, 1, 2} /\ \A i \in 1..n : stages[i] <= Largest
  BY <1>3, LargestIs
<1> DEFINE count(x) == Cardinality({y \in 1..(x - 1) : stages[y] = Unstaged})
<1>5. \A x \in 1..n : NextStage(x) = Largest + 1 + count(x)
  BY DEF NextStage
<1>6. \A x \in 1..n : count(x) \in Nat
  <2> TAKE x \in 1..n
  <2>1. IsFiniteSet(1..(x - 1)) /\ {y \in 1..(x - 1) : stages[y] = Unstaged} \subseteq 1..(x - 1)
    BY FS_Interval
  <2> QED
    BY <2>1, FS_Subset, FS_CardinalityType
<1>7. \A x, y \in 1..n : x < y /\ stages[x] = Unstaged => count(x) < count(y)
  BY CountGrows
<1> HIDE DEF count
<1>8. \A x \in 1..n : NextStage(x) \in Int /\ Largest < NextStage(x) /\ 0 < NextStage(x)
  BY <1>4, <1>5, <1>6
<1>9. \A x, y \in 1..n : x < y /\ stages[x] = Unstaged => NextStage(x) < NextStage(y)
  BY <1>4, <1>5, <1>6, <1>7
<1> HIDE DEF NextStage, Largest
<1>10. DOMAIN stages' = 1..n /\ \A x \in 1..n :
         stages'[x] = IF stages[x] = Unstaged THEN NextStage(x) ELSE stages[x]
  BY <1>1, <1>3
<1>11. \A x \in 1..n : Written(x)' = Written(x) /\ Written(x) = stages[x]
  BY <1>1, <1>2, <1>3 DEF Written
<1>12. AssignedBehind'
  <2> SUFFICES ASSUME NEW x \in 1..n, NEW y \in 1..n
               PROVE  /\ stages[x] # Unstaged => stages'[x] = stages[x]
                      /\ stages[x] = Unstaged => stages'[x] \in Int /\ stages'[x] # Unstaged
                      /\ stages[x] = Unstaged /\ stages[y] # Unstaged => stages'[y] < stages'[x]
                      /\ stages[x] = Unstaged /\ stages[y] = Unstaged /\ x < y =>
                           stages'[x] < stages'[y]
    BY <1>10, <1>11 DEF AssignedBehind
  <2>1. stages[x] # Unstaged => stages'[x] = stages[x]
    BY <1>10
  <2>2. stages[x] = Unstaged => stages'[x] \in Int /\ stages'[x] # Unstaged
    BY <1>8, <1>10 DEF Unstaged
  <2>3. ASSUME stages[x] = Unstaged, stages[y] # Unstaged PROVE stages'[y] < stages'[x]
    <3>1. stages'[y] = stages[y] /\ stages'[x] = NextStage(x) /\ stages[y] \in Int
      BY <1>3, <1>10, <2>3 DEF Unstaged
    <3> QED
      BY <1>4, <1>8, <3>1
  <2>4. stages[x] = Unstaged /\ stages[y] = Unstaged /\ x < y => stages'[x] < stages'[y]
    BY <1>9, <1>10
  <2> QED
    BY <2>1, <2>2, <2>3, <2>4
<1>13. WrittenMonotone'
  BY <1>1, <1>2, <1>3, <1>10, <1>11 DEF WrittenMonotone
<1> QED
  BY <1>1, <1>2, <1>3, <1>10, <1>12, <1>13 DEF BlockInv, BlockStaged, BlockSettled

\* The declared functions own one value or two.
LEMMA OwnedAre ==
  ASSUME NEW f \in DOMAIN Owned
  PROVE  /\ DOMAIN Owned[f] \subseteq 1..2
         /\ \A k \in DOMAIN Owned[f] : Owned[f][k] \in {"A", "B"}
         /\ Range(Owned[f]) = {Owned[f][k] : k \in DOMAIN Owned[f]}
<1>1. f \in {"f", "g", "twice"}
  BY DEF Owned
<1>2. Owned[f] = CASE f = "f" -> <<"A">> [] f = "g" -> <<"A", "B">> [] f = "twice" -> <<"B", "B">>
  BY <1>1 DEF Owned
<1> QED
  BY <1>1, <1>2 DEF Range

\* Pairs of finitely many are finitely many.
LEMMA PairsFinite ==
  ASSUME NEW S, NEW T, IsFiniteSet(S), IsFiniteSet(T)
  PROVE  IsFiniteSet(S \X T)
BY FS_Product, Zenon

\* Two different members make two at least.
LEMMA PairCounts ==
  ASSUME NEW S, IsFiniteSet(S), NEW a \in S, NEW b \in S, a # b
  PROVE  Cardinality(S) >= 2
<1>1. IsFiniteSet({a}) /\ Cardinality({a}) = 1 /\ b \notin {a}
  BY FS_Singleton
<1>2. IsFiniteSet({a} \cup {b}) /\ Cardinality({a} \cup {b}) = 2
  BY <1>1, FS_AddElement
<1>3. 2 <= Cardinality(S) /\ Cardinality(S) \in Nat
  BY <1>2, FS_Subset, FS_CardinalityType
<1> QED
  BY <1>3

\* The stages that share an owned value are warned of.
LEMMA WarnKeeps ==
  ASSUME BlockInv, WarnOwned
  PROVE  BlockInv'
<1>1. /\ kpc = "owned" /\ kpc' = "ruled" /\ UNCHANGED <<block, stages, rejected>>
      /\ warned' = {stages[i] : i \in {j \in DOMAIN stages :
                      /\ \E k \in DOMAIN stages \ {j} : stages[k] = stages[j]
                      /\ \E t \in {"A", "B"} : Cardinality(OwnedUses(t, stages[j])) >= 2}}
  BY DEF WarnOwned
<1>2. /\ block \in FnBlocks /\ DOMAIN stages = DOMAIN block.calls
      /\ WrittenMonotone /\ AssignedBehind
  BY <1>1 DEF BlockInv, BlockStaged, BlockSettled
<1>3. PICK n \in Nat : DOMAIN stages = 1..n
  BY <1>2, CallsAre
<1>4. ASSUME NEW i \in 1..n, NEW j \in 1..n, i # j, stages[i] = stages[j],
             Resolves(block.calls[i]), Resolves(block.calls[j]),
             NEW t \in Range(Owned[block.calls[i].callee])
                         \cap Range(Owned[block.calls[j].callee])
      PROVE  stages[i] \in warned'
  <2> DEFINE f == block.calls[i].callee
             g == block.calls[j].callee
             U == OwnedUses(t, stages[i])
  <2>1. f \in DOMAIN Owned /\ g \in DOMAIN Owned
    BY <1>4 DEF Resolves
  <2>2. PICK k \in DOMAIN Owned[f] : Owned[f][k] = t
    BY <1>4, <2>1, OwnedAre
  <2>3. PICK l \in DOMAIN Owned[g] : Owned[g][l] = t
    BY <1>4, <2>1, OwnedAre
  <2>4. t \in {"A", "B"} /\ k \in 1..2 /\ l \in 1..2
    BY <2>1, <2>2, <2>3, OwnedAre
  <2>5. <<i, k>> \in U /\ <<j, l>> \in U
    BY <1>3, <1>4, <2>2, <2>3, <2>4 DEF OwnedUses
  <2>6. U \subseteq (1..n) \X (1..2)
    BY <1>3 DEF OwnedUses
  <2>7. IsFiniteSet((1..n) \X (1..2))
    <3>1. IsFiniteSet(1..n)
      BY FS_Interval
    <3>2. IsFiniteSet(1..2)
      <4>1. 1..2 = {1} \cup {2}
        BY SMT
      <4>2. IsFiniteSet({1})
        BY FS_Singleton
      <4>3. IsFiniteSet({1} \cup {2})
        BY <4>2, FS_AddElement
      <4> QED
        BY <4>1, <4>3
    <3> QED
      BY <3>1, <3>2, PairsFinite
  <2>8. IsFiniteSet(U)
    BY <2>6, <2>7, FS_Subset
  <2>9. <<i, k>> # <<j, l>>
    BY <1>4
  <2> HIDE DEF U
  <2>12. Cardinality(U) >= 2
    BY <2>5, <2>8, <2>9, PairCounts
  <2>13. Cardinality(OwnedUses(t, stages[i])) >= 2
    BY <2>12 DEF U
  <2> HIDE DEF f, g
  <2>14. j \in DOMAIN stages \ {i} /\ i \in DOMAIN stages
    BY <1>3, <1>4
  <2> QED
    BY <1>1, <1>4, <2>4, <2>13, <2>14
<1>5. OwnedApart'
  BY <1>1, <1>3, <1>4 DEF OwnedApart, Resolves
<1>6. WrittenMonotone' /\ AssignedBehind'
  BY <1>1, <1>2 DEF WrittenMonotone, AssignedBehind, Written
<1> QED
  BY <1>1, <1>2, <1>5, <1>6 DEF BlockInv, BlockStaged, BlockSettled

\* Every step keeps the invariant.
LEMMA BlockSteps == BlockInv /\ [BlockNext]_blockVars => BlockInv'
<1> SUFFICES ASSUME BlockInv, [BlockNext]_blockVars PROVE BlockInv'
  OBVIOUS
<1>1. CASE CheckOwner \/ CheckReferences
  BY <1>1, ReportKeeps
<1>2. CASE CheckMonotone
  BY <1>2, MonotoneKeeps
<1>3. CASE AssignStages
  BY <1>3, AssignKeeps
<1>4. CASE WarnOwned
  BY <1>4, WarnKeeps
<1>5. CASE MatchNode \/ AskLast \/ AskSources \/ SetCallSites
  <2>1. /\ kpc \in {"match", "demand"} /\ kpc' \in {"match", "demand", "ruled"}
        /\ UNCHANGED block
    BY <1>5 DEF MatchNode, AskLast, AskSources, SetCallSites
  <2>2. ~IsFn
    BY <2>1 DEF BlockInv, BlockStaged, BlockSettled
  <2> QED
    BY <2>1, <2>2 DEF BlockInv, IsFn
<1>6. CASE UNCHANGED blockVars
  BY <1>6 DEF blockVars, BlockInv, WrittenMonotone, AssignedBehind, OwnedApart, IsFn, Written
<1> QED
  BY <1>1, <1>2, <1>3, <1>4, <1>5, <1>6 DEF BlockNext

\* The stages agree when the invariant holds.
LEMMA InvAgrees == BlockInv => StagesAgree
<1> SUFFICES ASSUME BlockInv, kpc = "ruled", IsFn PROVE StagesAgree
  BY DEF StagesAgree
<1>1. /\ block \in FnBlocks /\ DOMAIN stages = DOMAIN block.calls
      /\ WrittenMonotone /\ AssignedBehind /\ OwnedApart
  BY DEF BlockInv, BlockSettled
<1>2. PICK n \in Nat : /\ DOMAIN stages = 1..n
                       /\ \A i \in 1..n : Written(i) \in {Unstaged, 0, 1, 2}
  BY <1>1, CallsAre
<1>3. \A i \in 1..n : stages[i] \in Int
  BY <1>1, <1>2 DEF AssignedBehind, Unstaged
<1>4. ASSUME NEW i \in 1..n, NEW j \in 1..n, i < j
      PROVE  /\ stages[i] = stages[j] => Written(i) = Written(j) /\ Written(i) # Unstaged
             /\ rejected = {} /\ Written(i) # Unstaged => stages[i] <= stages[j]
  <2>1. CASE Written(i) # Unstaged /\ Written(j) # Unstaged
    BY <1>1, <1>2, <1>4, <2>1 DEF AssignedBehind, WrittenMonotone
  <2>2. CASE Written(i) = Unstaged /\ Written(j) = Unstaged
    BY <1>1, <1>2, <1>3, <1>4, <2>2 DEF AssignedBehind
  <2>3. CASE Written(i) # Unstaged /\ Written(j) = Unstaged
    BY <1>1, <1>2, <1>3, <2>3 DEF AssignedBehind
  <2>4. CASE Written(i) = Unstaged /\ Written(j) # Unstaged
    BY <1>1, <1>2, <1>3, <2>4 DEF AssignedBehind
  <2> QED
    BY <2>1, <2>2, <2>3, <2>4
<1>5. ASSUME NEW i \in 1..n, NEW j \in 1..n, i < j, stages[i] = stages[j],
             stages[i] \notin warned, Resolves(block.calls[i]), Resolves(block.calls[j])
      PROVE  Range(Owned[block.calls[i].callee]) \cap Range(Owned[block.calls[j].callee]) = {}
  <2>1. i # j
    BY <1>5
  <2> QED
    BY <1>1, <1>2, <1>5, <2>1 DEF OwnedApart
<1> HIDE DEF IsFn
<1> QED
  BY <1>2, <1>4, <1>5 DEF StagesAgree

(***************************************************************************)
(* In a logic block that has its stages, two calls share a stage only      *)
(* where both were written into it; an accepted block runs the calls that  *)
(* were staged in the order they are written in, for any number of calls:  *)
(* each stage is compared with the last written one only, and the stages   *)
(* that are given out follow behind all of them                            *)
(* (SemanticAnalyzer::validateLogicBlocks).                                *)
(***************************************************************************)
THEOREM StagesAlwaysAgree == BlockSpec => []StagesAgree
<1>1. BlockInit => BlockInv
  BY BlockStarts
<1>2. BlockInv /\ [BlockNext]_blockVars => BlockInv'
  BY BlockSteps
<1>3. BlockInv => StagesAgree
  BY InvAgrees
<1> QED
  BY <1>1, <1>2, <1>3, PTL DEF BlockSpec

-----------------------------------------------------------------------------
(* What pipelines deliver.                                                 *)

\* f takes each value from the one before, by the step of its place.
Iterates(f, n, base, step) == f = [k \in 0..n |-> IF k = 0 THEN base ELSE step[k][f[k - 1]]]
StepsWithin(f, n, V) == \A k \in 0..n : f[k] \in V[k]
StepsLead(n, V, step) == \A k \in 1..n : \A x \in V[k - 1] : step[k][x] \in V[k]

\* With steps that lead from V[k - 1] to V[k] there is one, with its values there.
LEMMA StepsExist ==
  ASSUME NEW n \in Nat, NEW V, NEW base \in V[0], NEW step, StepsLead(n, V, step)
  PROVE  \E f : Iterates(f, n, base, step) /\ StepsWithin(f, n, V)
<1> USE DEF Iterates, StepsWithin, StepsLead
<1> DEFINE Fits(m) == \E f : /\ f = [k \in 0..m |-> IF k = 0 THEN base ELSE step[k][f[k - 1]]]
                             /\ \A k \in 0..m : f[k] \in V[k]
           T == {m \in 0..n : ~Fits(m)}
<1> SUFFICES ASSUME T # {} PROVE FALSE
  OBVIOUS
<1>1. T \subseteq Nat
  OBVIOUS
<1>2. PICK m \in T : \A y \in T : m <= y
  <2> HIDE DEF T
  <2> QED
    BY <1>1, LeastNumber
<1>3. m \in Nat /\ m \in 0..n /\ ~Fits(m)
  BY <1>2
<1>4. CASE m = 0
  <2> DEFINE g == [k \in 0..0 |-> base]
  <2>1. \A k \in 0..0 : k = 0 /\ g[k] = base
    OBVIOUS
  <2>2. g = [k \in 0..0 |-> IF k = 0 THEN base ELSE step[k][g[k - 1]]]
    BY <2>1
  <2>3. Fits(0)
    BY <2>1, <2>2
  <2> QED
    BY <1>3, <1>4, <2>3
<1>5. CASE m # 0
  <2>1. m - 1 \in 0..n /\ m - 1 \notin T
    BY <1>2, <1>3, <1>5
  <2>2. PICK g : /\ g = [k \in 0..(m - 1) |-> IF k = 0 THEN base ELSE step[k][g[k - 1]]]
                 /\ \A k \in 0..(m - 1) : g[k] \in V[k]
    BY <2>1
  <2> DEFINE h == [k \in 0..m |-> IF k = m THEN step[m][g[m - 1]] ELSE g[k]]
  <2>3. \A k \in 0..(m - 1) : g[k] = IF k = 0 THEN base ELSE step[k][g[k - 1]]
    BY <2>2
  <2>4. ASSUME NEW k \in 0..m PROVE h[k] = (IF k = 0 THEN base ELSE step[k][h[k - 1]]) /\ h[k] \in V[k]
    <3>1. CASE k = m
      <4>1. m - 1 \in 0..(m - 1) /\ m \in 1..n /\ m - 1 \in 0..m /\ m - 1 # m
        BY <1>3, <1>5
      <4>2. h[m] = step[m][g[m - 1]] /\ h[m - 1] = g[m - 1]
        BY <4>1
      <4>3. h[m] \in V[m]
        BY <2>2, <4>1, <4>2
      <4> QED
        BY <1>5, <3>1, <4>2, <4>3
    <3>2. CASE k = 0
      <4>1. 0 \in 0..(m - 1) /\ k # m
        BY <1>3, <1>5, <3>2
      <4>2. h[k] = g[0] /\ g[0] = base
        BY <2>3, <3>2, <4>1
      <4> QED
        BY <2>2, <3>2, <4>1, <4>2
    <3>3. CASE k # m /\ k # 0
      <4>1. k \in 0..(m - 1) /\ k - 1 \in 0..m /\ k - 1 # m
        BY <1>3, <3>3
      <4>2. h[k] = g[k] /\ h[k - 1] = g[k - 1]
        BY <3>3, <4>1
      <4> QED
        BY <2>2, <2>3, <3>3, <4>1, <4>2
    <3> QED
      BY <3>1, <3>2, <3>3
  <2>5. h = [k \in 0..m |-> IF k = 0 THEN base ELSE step[k][h[k - 1]]]
    <3>1. DOMAIN h = 0..m /\ h = [k \in 0..m |-> h[k]]
      OBVIOUS
    <3> HIDE DEF h
    <3> QED
      BY <2>4, <3>1
  <2>6. Fits(m)
    <3> HIDE DEF h
    <3> QED
      BY <2>4, <2>5
  <2> QED
    BY <1>3, <2>6
<1> QED
  BY <1>4, <1>5

\* Any function that takes its values so has them there.
LEMMA StepsStay ==
  ASSUME NEW n \in Nat, NEW V, NEW g, g[0] \in V[0],
         \A k \in 1..n : g[k - 1] \in V[k - 1] => g[k] \in V[k]
  PROVE  \A k \in 0..n : g[k] \in V[k]
<1> DEFINE T == {m \in 0..n : g[m] \notin V[m]}
<1> SUFFICES ASSUME T # {} PROVE FALSE
  OBVIOUS
<1>1. T \subseteq Nat
  OBVIOUS
<1>2. PICK m \in T : \A y \in T : m <= y
  <2> HIDE DEF T
  <2> QED
    BY <1>1, LeastNumber
<1>3. m \in 0..n /\ g[m] \notin V[m] /\ m # 0
  BY <1>2
<1>4. m \in 1..n /\ m - 1 \in 0..n /\ m - 1 \notin T
  BY <1>2, <1>3
<1> QED
  BY <1>3, <1>4

-----------------------------------------------------------------------------
FlowNodes == 1..FlowSize
\* What a predecessor of n can offer.
Offer(n, o) ==
  \E i \in DOMAIN block.edges :
    /\ block.edges[i][2] = n /\ o.node = block.edges[i][1]
    /\ o.field \in Range(block.returns[o.node].returns)
OffersTo(n) == {o \in [node : FlowNodes, field : [name : STRING, type : STRING]] : Offer(n, o)}

\* What a pipeline of the constant holds.
LEMMA FlowIs ==
  ASSUME block \in BlockFlows
  PROVE  /\ FlowSize \in Nat /\ block.last \in FlowNodes
         /\ Len(block.edges) \in Nat /\ DOMAIN block.edges = 1..Len(block.edges)
         /\ \A i \in DOMAIN block.edges : block.edges[i][1] \in FlowNodes /\ block.edges[i][2] \in FlowNodes
         /\ \A n \in FlowNodes : /\ block.returns[n].returns \in FieldLists
                                 /\ block.params[n] \in FieldLists
<1>1. /\ FlowSize \in Nat /\ block.last \in FlowNodes
      /\ block.edges \in Seq(FlowNodes \X FlowNodes)
      /\ \A n \in FlowNodes : /\ block.returns[n].returns \in FieldLists
                              /\ block.params[n] \in FieldLists
  BY PipelinesAssumption DEF FlowNodes
<1> QED BY <1>1

\* What is offered to a node comes from a node with an edge to it.
LEMMA OfferedIs ==
  ASSUME block \in BlockFlows, NEW n \in FlowNodes
  PROVE  Offered(n) \in Seq(OffersTo(n))
<1> DEFINE m == Len(block.edges)
           S == OffersTo(n)
           V == [k \in 0..m |-> Seq(S)]
           step == [k \in 1..m |-> [x \in Seq(S) |-> x \o OfferedBy(k, n)]]
           Grows(f) == f = [k \in 0..m |-> IF k = 0 THEN <<>> ELSE f[k - 1] \o OfferedBy(k, n)]
<1>1. /\ m \in Nat /\ DOMAIN block.edges = 1..m
      /\ \A i \in 1..m : block.edges[i][1] \in FlowNodes
      /\ \A p \in FlowNodes : block.returns[p].returns \in FieldLists
  BY FlowIs
<1>2. ASSUME NEW k \in 1..m PROVE OfferedBy(k, n) \in Seq(S)
  <2> DEFINE p == block.edges[k][1]
             r == block.returns[p].returns
             o == [i \in DOMAIN r |-> [node |-> p, field |-> r[i]]]
  <2>1. CASE k \in Feeders(n) /\ block.returns[p].multi
    <3>1. OfferedBy(k, n) = o
      BY <2>1 DEF OfferedBy
    <3>2. r \in FieldLists /\ p \in FlowNodes /\ block.edges[k][2] = n
      BY <1>1, <2>1 DEF Feeders
    <3>3. Len(r) \in Nat /\ DOMAIN r = 1..Len(r)
          /\ \A i \in DOMAIN r : r[i] \in [name : STRING, type : STRING] /\ r[i] \in Range(r)
      <4> DEFINE F == [name : STRING, type : STRING]
      <4>1. r \in Seq(F)
        BY <3>2 DEF FieldLists
      <4> HIDE DEF r, F
      <4>2. Len(r) \in Nat /\ DOMAIN r = 1..Len(r) /\ \A i \in DOMAIN r : r[i] \in F
        BY <4>1
      <4>3. \A i \in DOMAIN r : r[i] \in Range(r)
        BY DEF Range
      <4> QED
        BY <4>2, <4>3 DEF F
    <3>4. ASSUME NEW i \in DOMAIN r PROVE o[i] \in S
      <4> DEFINE a == [node |-> p, field |-> r[i]]
      <4>1. a.node = p /\ a.field = r[i] /\ a \in [node : FlowNodes, field : [name : STRING, type : STRING]]
        BY <3>2, <3>3
      <4>2. Offer(n, a)
        BY <1>1, <3>2, <3>3, <4>1 DEF Offer
      <4> QED
        BY <4>1, <4>2 DEF OffersTo
    <3>5. o \in [1..Len(r) -> S]
      BY <3>3, <3>4
    <3>6. o \in Seq(S)
      <4> HIDE DEF o, r, S
      <4> QED BY <3>3, <3>5, SeqDef
    <3> QED
      BY <3>1, <3>6
  <2>2. CASE ~(k \in Feeders(n) /\ block.returns[p].multi)
    <3>1. OfferedBy(k, n) = <<>>
      BY <2>2 DEF OfferedBy
    <3> QED
      BY <3>1
  <2> QED
    BY <2>1, <2>2
<1> HIDE DEF S
<1>3. \A k \in 1..m : \A x \in Seq(S) : x \o OfferedBy(k, n) \in Seq(S)
  BY <1>2
<1>4. /\ \A k \in 0..m : V[k] = Seq(S)
      /\ \A k \in 1..m : \A x \in Seq(S) : step[k][x] = x \o OfferedBy(k, n)
  OBVIOUS
<1>5. 0 \in 0..m /\ m \in 0..m /\ \A k \in 1..m : k \in 0..m /\ k - 1 \in 0..m
  BY <1>1
<1> HIDE DEF m, V, step
<1>6. PICK f : /\ f = [k \in 0..m |-> IF k = 0 THEN <<>> ELSE step[k][f[k - 1]]]
               /\ \A k \in 0..m : f[k] \in V[k]
  <2>1. <<>> \in V[0]
    <3>1. V[0] = Seq(S)
      BY <1>4, <1>5
    <3> QED
      BY <3>1
  <2>2. ASSUME NEW k \in 1..m, NEW x \in V[k - 1] PROVE step[k][x] \in V[k]
    <3>1. V[k] = Seq(S) /\ V[k - 1] = Seq(S)
      BY <1>4, <1>5
    <3>2. x \in Seq(S)
      BY <3>1
    <3>3. step[k][x] = x \o OfferedBy(k, n)
      BY <1>4, <3>2
    <3> QED
      BY <1>2, <3>1, <3>2, <3>3
  <2> QED
    <3>1. \A k \in 1..m : \A x \in V[k - 1] : step[k][x] \in V[k]
      BY <2>2
    <3>2. StepsLead(m, V, step)
      BY <3>1 DEF StepsLead
    <3>3. \E f : Iterates(f, m, <<>>, step) /\ StepsWithin(f, m, V)
      BY <1>1, <2>1, <3>2, StepsExist
    <3> QED
      BY <3>3 DEF Iterates, StepsWithin
<1>7. Grows(f)
  <2>1. ASSUME NEW k \in 0..m
        PROVE f[k] = IF k = 0 THEN <<>> ELSE f[k - 1] \o OfferedBy(k, n)
    <3>1. f[k] = IF k = 0 THEN <<>> ELSE step[k][f[k - 1]]
      BY <1>6
    <3>2. CASE k # 0
      <4>1. k \in 1..m /\ f[k - 1] \in Seq(S)
        <5>1. k \in 1..m
          BY <1>1, <3>2
        <5>2. k - 1 \in 0..m
          BY <1>5, <5>1
        <5>3. V[k - 1] = Seq(S) /\ f[k - 1] \in V[k - 1]
          BY <1>4, <1>6, <5>2
        <5> QED
          BY <5>1, <5>3
      <4> QED
        BY <1>4, <3>1, <3>2, <4>1
    <3> QED
      BY <3>1, <3>2
  <2>2. f = [k \in 0..m |-> f[k]]
    BY <1>6
  <2> QED
    BY <2>1, <2>2
<1> DEFINE g == CHOOSE h : Grows(h)
<1>8. Grows(g)
  BY <1>7
<1>9. Offered(n) = g[m]
  BY DEF Offered, m
<1> HIDE DEF g
<1>10. \A k \in 0..m : g[k] \in V[k]
  <2>1. \A k \in 0..m : g[k] = IF k = 0 THEN <<>> ELSE g[k - 1] \o OfferedBy(k, n)
    BY <1>8
  <2>2. g[0] \in V[0]
    <3>1. V[0] = Seq(S) /\ g[0] = <<>>
      BY <1>4, <1>5, <2>1
    <3> QED
      BY <3>1
  <2>3. ASSUME NEW k \in 1..m, g[k - 1] \in V[k - 1] PROVE g[k] \in V[k]
    <3>1. g[k - 1] \in Seq(S) /\ k # 0 /\ k \in 0..m
      BY <1>1, <1>4, <1>5, <2>3
    <3> QED
      BY <1>3, <1>4, <2>1, <3>1
  <2> QED
    BY <1>1, <2>2, <2>3, StepsStay
<1> QED
  BY <1>4, <1>5, <1>9, <1>10 DEF S

-----------------------------------------------------------------------------
\* The pairs that one parameter adds to those of the parameters before it.
NewPairs(t, x, offers, params) ==
  LET taken == {m[1] : m \in x}
      left == {s \in DOMAIN offers \ taken : offers[s].field.type = params[t].type}
      named == {s \in left : offers[s].field.name = params[t].name}
      free == IF Cardinality(left) = 1 THEN left ELSE named
  IN {<<s, t>> : s \in {f \in free : \A g \in free : f <= g}}

\* Pairs of an offer and one of the first k parameters: no offer and no parameter
\* is in two of them, and the types agree.
PairsApart(x, offers, params) ==
  /\ \A a, b \in x : (a[1] = b[1] \/ a[2] = b[2]) => a = b
  /\ \A a \in x : offers[a[1]].field.type = params[a[2]].type
Pairings(k, offers, params) ==
  {x \in SUBSET ((DOMAIN offers) \X (1..k)) : PairsApart(x, offers, params)}

\* The pairs of the first k offers, written out.
LEMMA PairingsAre ==
  ASSUME NEW k, NEW offers, NEW params, NEW x
  PROVE  x \in Pairings(k, offers, params) <=>
           x \subseteq (DOMAIN offers) \X (1..k) /\ PairsApart(x, offers, params)
BY DEF Pairings, PairsApart

\* One more parameter is paired, or not: the pairs stay apart.
LEMMA PairsAdded ==
  ASSUME NEW S, NEW offers \in Seq(S), NEW params, NEW k \in Nat, k # 0,
         NEW x \in Pairings(k - 1, offers, params)
  PROVE  x \cup NewPairs(k, x, offers, params) \in Pairings(k, offers, params)
<1> DEFINE y == NewPairs(k, x, offers, params)
           D == DOMAIN offers
<1>1. D \subseteq Nat
  <2>1. D = 1..Len(offers) /\ Len(offers) \in Nat
    BY LenProperties
  <2> QED
    BY <2>1
<1>2. /\ x \subseteq D \X (1..(k - 1)) /\ PairsApart(x, offers, params)
  <2> HIDE DEF y, D
  <2>1. x \subseteq (DOMAIN offers) \X (1..(k - 1))
    BY PairingsAre, Zenon
  <2>2. PairsApart(x, offers, params)
    BY PairingsAre, Zenon
  <2> QED
    BY <2>1, <2>2 DEF D
<1>3. \A a \in y : \E s \in D :
        /\ a = <<s, k>> /\ s \notin {m[1] : m \in x}
        /\ offers[s].field.type = params[k].type
  BY DEF NewPairs
<1>4. \A a, b \in y : a = b
  <2> DEFINE taken == {m[1] : m \in x}
             left == {s \in DOMAIN offers \ taken : offers[s].field.type = params[k].type}
             named == {s \in left : offers[s].field.name = params[k].name}
             free == IF Cardinality(left) = 1 THEN left ELSE named
  <2>1. y = {<<s, k>> : s \in {f \in free : \A g \in free : f <= g}}
    BY DEF NewPairs
  <2>2. free \subseteq Nat
    BY <1>1
  <2> HIDE DEF y, free
  <2>3. \A s, r \in {f \in free : \A g \in free : f <= g} : s = r
    BY <2>2
  <2> QED
    BY <2>1, <2>3
<1>5. \A j \in 1..(k - 1) : j \in 1..k /\ j # k
  OBVIOUS
<1>6. k \in 1..k
  OBVIOUS
<1> HIDE DEF y, D
<1>7. \A a \in x : a = <<a[1], a[2]>> /\ a[1] \in D /\ a[2] \in 1..k /\ a[2] # k
  BY <1>2, <1>5
<1>8. \A a \in y : /\ a \in D \X (1..k) /\ a[2] = k /\ offers[a[1]].field.type = params[a[2]].type
                   /\ \A b \in x : a[1] # b[1]
  BY <1>3, <1>6
<1>9. x \cup y \subseteq D \X (1..k)
  BY <1>7, <1>8
<1>10. PairsApart(x \cup y, offers, params)
  <2>1. ASSUME NEW a \in x \cup y, NEW b \in x \cup y, a[1] = b[1] \/ a[2] = b[2]
        PROVE  a = b
    <3>1. CASE a \in x /\ b \in x
      BY <1>2, <2>1, <3>1 DEF PairsApart
    <3>2. CASE a \in y /\ b \in y
      BY <1>4, <3>2
    <3>3. CASE a \in x /\ b \in y
      BY <1>7, <1>8, <2>1, <3>3
    <3>4. CASE a \in y /\ b \in x
      <4>1. a[1] # b[1] /\ a[2] = k /\ b[2] # k
        BY <1>7, <1>8, <3>4
      <4> QED
        BY <2>1, <4>1
    <3> QED
      BY <3>1, <3>2, <3>3, <3>4
  <2>2. \A a \in x \cup y : offers[a[1]].field.type = params[a[2]].type
    BY <1>2, <1>8 DEF PairsApart
  <2> QED
    BY <2>1, <2>2 DEF PairsApart
<1> QED
  <2>1. x \cup y \subseteq (DOMAIN offers) \X (1..k)
    BY <1>9 DEF D
  <2>2. x \cup y \in Pairings(k, offers, params)
    BY <1>10, <2>1, PairingsAre, Zenon
  <2> QED
    BY <2>2 DEF y

\* What is matched are such pairs.
LEMMA MatchingIs ==
  ASSUME NEW S, NEW offers \in Seq(S), NEW params \in FieldLists
  PROVE  Matching(offers, params) \in Pairings(Len(params), offers, params)
<1> DEFINE m == Len(params)
           V == [k \in 0..m |-> Pairings(k, offers, params)]
           step == [k \in 1..m |-> [x \in Pairings(k - 1, offers, params) |->
                                      x \cup NewPairs(k, x, offers, params)]]
           Grows(f) == f = [k \in 0..m |->
                              IF k = 0 THEN {} ELSE f[k - 1] \cup NewPairs(k, f[k - 1], offers, params)]
<1>1. m \in Nat
  <2>1. params \in Seq([name : STRING, type : STRING])
    BY DEF FieldLists
  <2> QED
    BY <2>1
<1>2. /\ \A k \in 0..m : V[k] = Pairings(k, offers, params)
      /\ \A k \in 1..m : \A x \in Pairings(k - 1, offers, params) :
           step[k][x] = x \cup NewPairs(k, x, offers, params)
  OBVIOUS
<1>3. \A k \in 1..m : k \in Nat /\ k # 0 /\ k \in 0..m /\ k - 1 \in 0..m
  BY <1>1
<1>4. 0 \in 0..m /\ m \in 0..m /\ \A k \in 0..m : k # 0 => k \in 1..m
  BY <1>1
<1>5. {} \in V[0]
  <2>1. {} \in Pairings(0, offers, params)
    BY DEF Pairings, PairsApart
  <2> QED
    BY <1>2, <1>4, <2>1
<1> HIDE DEF m, V, step
<1>6. StepsLead(m, V, step)
  <2> SUFFICES ASSUME NEW k \in 1..m, NEW x \in V[k - 1] PROVE step[k][x] \in V[k]
    BY DEF StepsLead
  <2>1. x \in Pairings(k - 1, offers, params) /\ V[k] = Pairings(k, offers, params)
    BY <1>2, <1>3
  <2>2. x \cup NewPairs(k, x, offers, params) \in Pairings(k, offers, params)
    BY <1>3, <2>1, PairsAdded
  <2> QED
    BY <1>2, <2>1, <2>2
<1>7. PICK f : Iterates(f, m, {}, step) /\ StepsWithin(f, m, V)
  BY <1>1, <1>5, <1>6, StepsExist
<1>8. Grows(f)
  <2>1. ASSUME NEW k \in 0..m
        PROVE f[k] = IF k = 0 THEN {} ELSE f[k - 1] \cup NewPairs(k, f[k - 1], offers, params)
    <3>1. f[k] = IF k = 0 THEN {} ELSE step[k][f[k - 1]]
      BY <1>7 DEF Iterates
    <3>2. CASE k # 0
      <4>1. k \in 1..m /\ f[k - 1] \in Pairings(k - 1, offers, params)
        BY <1>2, <1>3, <1>4, <1>7, <3>2 DEF StepsWithin
      <4> QED
        BY <1>2, <3>1, <3>2, <4>1
    <3> QED
      BY <3>1, <3>2
  <2>2. f = [k \in 0..m |-> f[k]]
    BY <1>7 DEF Iterates
  <2> QED
    BY <2>1, <2>2
<1> DEFINE g == CHOOSE h : Grows(h)
<1>9. Grows(g)
  BY <1>8
<1>10. Matching(offers, params) = g[m]
  BY DEF Matching, NewPairs, m
<1> HIDE DEF g
<1>11. \A k \in 0..m : g[k] \in V[k]
  <2>1. \A k \in 0..m : g[k] = IF k = 0 THEN {} ELSE g[k - 1] \cup NewPairs(k, g[k - 1], offers, params)
    BY <1>9
  <2>2. g[0] \in V[0]
    BY <1>4, <1>5, <2>1
  <2>3. ASSUME NEW k \in 1..m, g[k - 1] \in V[k - 1] PROVE g[k] \in V[k]
    <3>1. g[k - 1] \in Pairings(k - 1, offers, params)
      BY <1>2, <1>3, <2>3
    <3>2. g[k] = g[k - 1] \cup NewPairs(k, g[k - 1], offers, params)
      BY <1>3, <2>1
    <3>3. g[k] \in Pairings(k, offers, params)
      BY <1>3, <3>1, <3>2, PairsAdded
    <3> QED
      BY <1>2, <1>3, <3>3
  <2> QED
    BY <1>1, <2>2, <2>3, StepsStay
<1> QED
  BY <1>2, <1>4, <1>10, <1>11 DEF m

\* The matching of a node: its pairs, and what they stand for.
LEMMA MatchIs ==
  ASSUME block \in BlockFlows, NEW n \in FlowNodes
  PROVE  /\ Len(block.params[n]) \in Nat /\ DOMAIN block.params[n] = 1..Len(block.params[n])
         /\ Matches1(n) \subseteq (DOMAIN Offered(n)) \X (1..Len(block.params[n]))
         /\ PairsApart(Matches1(n), Offered(n), block.params[n])
         /\ \A i \in DOMAIN Offered(n) : Offered(n)[i] \in OffersTo(n)
<1>1. block.params[n] \in FieldLists
  BY FlowIs
<1>2. Offered(n) \in Seq(OffersTo(n))
  BY OfferedIs
<1>3. Matches1(n) \in Pairings(Len(block.params[n]), Offered(n), block.params[n])
  BY <1>1, <1>2, MatchingIs DEF Matches1
<1>4. Len(block.params[n]) \in Nat /\ DOMAIN block.params[n] = 1..Len(block.params[n])
  BY <1>1, LenProperties DEF FieldLists
<1>5. \A i \in DOMAIN Offered(n) : Offered(n)[i] \in OffersTo(n)
  <2> DEFINE o == Offered(n)
             S == OffersTo(n)
  <2>1. o \in Seq(S)
    BY <1>2
  <2> HIDE DEF o, S
  <2>2. \A i \in DOMAIN o : o[i] \in S
    BY <2>1
  <2> QED
    BY <2>2 DEF o, S
<1> QED
  BY <1>3, <1>4, <1>5, PairingsAre, Zenon

\* A matching of as many pairs as parameters has one for each.
LEMMA MatchIsWhole ==
  ASSUME block \in BlockFlows, NEW n \in FlowNodes, MatchSucceeds(n)
  PROVE  \A t \in 1..Len(block.params[n]) : \E a \in Matches1(n) : a[2] = t
<1> DEFINE M == Matches1(n)
           L == Len(block.params[n])
           f == [a \in M |-> a[2]]
<1>1. /\ L \in Nat /\ M \subseteq (DOMAIN Offered(n)) \X (1..L)
      /\ PairsApart(M, Offered(n), block.params[n])
      /\ Cardinality(M) = L
  BY MatchIs DEF MatchSucceeds
<1> HIDE DEF M, L
<1>2. f \in Injection(M, 1..L)
  <2>1. f \in [M -> 1..L]
    BY <1>1
  <2>2. \A a, b \in M : f[a] = f[b] => a = b
    BY <1>1 DEF PairsApart
  <2> QED
    BY <2>1, <2>2 DEF Injection, IsInjective
<1>3. IsFiniteSet(1..L) /\ Cardinality(1..L) = L
  BY <1>1, FS_Interval
<1>4. f \in Surjection(M, 1..L)
  <2> HIDE DEF f
  <2> QED
    BY <1>1, <1>2, <1>3, FS_Injection
<1>5. \A t \in 1..L : \E a \in M : f[a] = t
  <2> HIDE DEF f
  <2> QED
    BY <1>4 DEF Surjection
<1>6. \A a \in M : f[a] = a[2]
  OBVIOUS
<1> QED
  BY <1>5, <1>6 DEF M, L

\* All of this is decided by the pipeline.
LEMMA FlowStays ==
  ASSUME UNCHANGED block
  PROVE  \A n : /\ Feeders(n)' = Feeders(n)
                /\ Offered(n)' = Offered(n)
                /\ Matches1(n)' = Matches1(n)
                /\ MatchSucceeds(n)' <=> MatchSucceeds(n)
                /\ \A p : Asked(n, p)' = Asked(n, p)
<1> SUFFICES ASSUME NEW n
             PROVE  /\ Feeders(n)' = Feeders(n)
                    /\ Offered(n)' = Offered(n)
                    /\ Matches1(n)' = Matches1(n)
                    /\ MatchSucceeds(n)' <=> MatchSucceeds(n)
                    /\ \A p : Asked(n, p)' = Asked(n, p)
  OBVIOUS
<1>1. Feeders(n)' = Feeders(n)
  BY DEF Feeders
<1>3. Offered(n)' = Offered(n)
  BY DEF Offered, OfferedBy, Feeders
<1>4. Matches1(n)' = Matches1(n)
  BY <1>3 DEF Matches1
<1>5. MatchSucceeds(n)' <=> MatchSucceeds(n)
  BY <1>4 DEF MatchSucceeds
<1>6. \A p : Asked(n, p)' = Asked(n, p)
  BY <1>3, <1>4 DEF Asked
<1> QED
  BY <1>1, <1>3, <1>4, <1>5, <1>6

-----------------------------------------------------------------------------
\* A node that passed the match: what several fields are offered to has all it takes.
Fed(n) == Offered(n) # <<>> => MatchSucceeds(n)
AllFed == rejected = {} => \A n \in FlowNodes : Fed(n)
\* The nodes behind nodeTurn have asked...
AskedFor ==
  \A n \in FlowNodes : n > nodeTurn /\ Feeders(n) # {} /\ MatchSucceeds(n) =>
    \A p \in FlowNodes : Asked(n, p) \subseteq demand[p]
\* ...and only what a node takes is asked for.
Sourced ==
  \A p \in FlowNodes : \A name \in demand[p] :
    p = block.last \/ \E n \in FlowNodes : name \in Asked(n, p)

\* The call site of a node.
SiteOf(n) ==
  CASE demand[n] = {} /\ block.returns[n].ceiling = NoCeiling -> Site("Full", {})
    [] demand[n] = {} /\ block.returns[n].ceiling # NoCeiling ->
         Site("SmartPass", block.returns[n].ceiling)
    [] demand[n] # {} /\ block.returns[n].ceiling = NoCeiling ->
           Site("SmartPass", demand[n])
    [] OTHER -> Site("SmartPass", Clamp(n))

\* What holds while a pipeline is matched and its nodes are asked.
FlowInv ==
  /\ block \in BlockFlows /\ ~IsFn
  /\ kpc \in {"match", "demand", "ruled"} /\ nodeTurn \in Nat
  /\ demand = [n \in FlowNodes |-> demand[n]]
  /\ kpc = "match" =>
       /\ \A n \in FlowNodes : demand[n] = {}
       /\ rejected = {} => \A n \in FlowNodes : n < nodeTurn => Fed(n)
  /\ kpc # "match" => AllFed /\ AskedFor /\ Sourced
  /\ kpc # "ruled" => sites = NoSites
  /\ kpc = "ruled" =>
       /\ nodeTurn = 0
       /\ \A n \in FlowNodes : /\ InPipeline(n) => sites[n] = SiteOf(n)
                               /\ ~InPipeline(n) => sites[n].used = {}

\* A block is an fn block with its stages or a pipeline.
FlowOrFn == FlowInv \/ (block \in FnBlocks /\ kpc \in BlockStaged \cup BlockSettled)

\* It holds in the initial states.
LEMMA FlowStarts == BlockInit => FlowOrFn
<1> SUFFICES ASSUME BlockInit PROVE FlowOrFn
  OBVIOUS
<1>1. CASE block \in FnBlocks /\ kpc = "owner"
  BY <1>1 DEF FlowOrFn, BlockStaged
<1>2. CASE block \in BlockFlows /\ kpc = "match"
  <2>1. DOMAIN block = {"edges", "last", "flow", "returns", "params"}
    BY <1>2, PipelinesAssumption
  <2>2. ~IsFn
    BY <2>1 DEF IsFn
  <2>3. /\ nodeTurn = 1 /\ sites = NoSites
        /\ demand = [n \in FlowNodes |-> {}]
    BY DEF BlockInit, FlowNodes
  <2>4. \A n \in FlowNodes : ~(n < 1) /\ demand[n] = {}
    BY <2>3, FlowIs, <1>2 DEF FlowNodes
  <2>5. demand = [n \in FlowNodes |-> demand[n]]
    BY <2>3
  <2> QED
    BY <1>2, <2>2, <2>3, <2>4, <2>5 DEF FlowOrFn, FlowInv
<1> QED
  BY <1>1, <1>2 DEF BlockInit

\* A node whose match fails is reported.
LEMMA MatchKeeps ==
  ASSUME FlowInv, MatchNode
  PROVE  FlowInv'
<1>1. /\ kpc = "match" /\ kpc' = "match" /\ nodeTurn \in Nat /\ nodeTurn' = nodeTurn + 1
      /\ UNCHANGED <<block, demand, sites>>
      /\ rejected' = rejected \cup {r \in {"match"} :
              IF Offered(nodeTurn) = <<>> THEN LoneMismatch(nodeTurn)
              ELSE ~MatchSucceeds(nodeTurn)}
  BY DEF FlowInv, MatchNode, Reject
<1>2. \A n : Fed(n)' <=> Fed(n)
  BY <1>1, FlowStays DEF Fed
<1>3. rejected' = {} => rejected = {} /\ Fed(nodeTurn)
  BY <1>1 DEF Fed
<1>4. \A n \in FlowNodes : n < nodeTurn + 1 => n < nodeTurn \/ n = nodeTurn
  <2>1. FlowNodes \subseteq Nat
    BY FlowIs DEF FlowInv, FlowNodes
  <2> QED
    BY <1>1, <2>1
<1>5. rejected' = {} => \A n \in FlowNodes : n < nodeTurn' => Fed(n)'
  BY <1>1, <1>2, <1>3, <1>4 DEF FlowInv
<1> QED
  BY <1>1, <1>5 DEF FlowInv, IsFn, FlowNodes, NoSites

\* Then all have been matched, and none has asked.
LEMMA LastKeeps ==
  ASSUME FlowInv, AskLast
  PROVE  FlowInv'
<1>1. /\ kpc = "match" /\ kpc' = "demand" /\ nodeTurn > FlowSize /\ nodeTurn' = FlowSize
      /\ UNCHANGED <<block, sites, rejected>>
      /\ demand' = [demand EXCEPT ![block.last] =
           IF block.returns[block.last].multi
           THEN {f.name : f \in Range(block.returns[block.last].returns)}
           ELSE {}]
  BY DEF AskLast
<1>2. /\ block \in BlockFlows /\ nodeTurn \in Nat /\ FlowSize \in Nat /\ block.last \in FlowNodes
  BY FlowIs DEF FlowInv
<1>3. \A n \in FlowNodes : n < nodeTurn /\ ~(n > FlowSize)
  BY <1>1, <1>2 DEF FlowNodes
<1>4. \A n \in FlowNodes : n # block.last => demand'[n] = {}
  BY <1>1 DEF FlowInv
<1>5. demand' = [n \in FlowNodes |-> demand'[n]]
  BY <1>1 DEF FlowInv
<1>6. AllFed'
  <2>1. \A n : Fed(n)' <=> Fed(n)
    BY <1>1, FlowStays DEF Fed
  <2> QED
    BY <1>1, <1>3, <2>1 DEF AllFed, FlowInv, FlowNodes
<1>7. AskedFor' /\ Sourced'
  BY <1>1, <1>3, <1>4 DEF AskedFor, Sourced, FlowNodes
<1> QED
  BY <1>1, <1>2, <1>5, <1>6, <1>7 DEF FlowInv, IsFn, FlowNodes, NoSites

\* The node that is next asks for what it takes, and nothing is taken back.
LEMMA AskKeeps ==
  ASSUME FlowInv, AskSources
  PROVE  FlowInv'
<1> DEFINE add(p) == IF Feeders(nodeTurn) # {} /\ MatchSucceeds(nodeTurn)
                     THEN Asked(nodeTurn, p) ELSE {}
<1>1. /\ kpc = "demand" /\ kpc' = "demand" /\ nodeTurn >= 1 /\ nodeTurn' = nodeTurn - 1
      /\ UNCHANGED <<block, sites, rejected>>
      /\ demand' = [p \in FlowNodes |-> demand[p] \cup add(p)]
  BY DEF AskSources, AddDemand, FlowNodes
<1>2. /\ AllFed /\ AskedFor /\ Sourced /\ nodeTurn \in Nat /\ FlowSize \in Nat
  BY <1>1, FlowIs DEF FlowInv
<1>3. /\ \A p \in FlowNodes : demand'[p] = demand[p] \cup add(p)
      /\ demand' = [n \in FlowNodes |-> demand'[n]]
  BY <1>1
<1>4. AllFed'
  BY <1>1, <1>2, FlowStays DEF AllFed, Fed, FlowNodes
<1>5. AskedFor'
  <2> SUFFICES ASSUME NEW n \in FlowNodes, n > nodeTurn', Feeders(n) # {}, MatchSucceeds(n),
                      NEW p \in FlowNodes
               PROVE  Asked(n, p) \subseteq demand'[p]
    BY <1>1, FlowStays DEF AskedFor, FlowNodes
  <2>1. n \in Nat /\ (n > nodeTurn \/ n = nodeTurn)
    BY <1>1, <1>2 DEF FlowNodes
  <2>2. CASE n > nodeTurn
    BY <1>2, <1>3, <2>2 DEF AskedFor
  <2>3. CASE n = nodeTurn
    BY <1>3, <2>3
  <2> QED
    BY <2>1, <2>2, <2>3
<1>6. Sourced'
  <2>1. ASSUME NEW p \in FlowNodes, NEW name \in demand'[p]
        PROVE  p = block.last \/ \E n \in FlowNodes : name \in Asked(n, p)
    <3>1. CASE name \in demand[p]
      BY <1>2, <3>1 DEF Sourced
    <3>2. CASE name \in add(p)
      <4>1. name \in Asked(nodeTurn, p) /\ Feeders(nodeTurn) # {}
        BY <3>2
      <4>2. nodeTurn \in FlowNodes
        <5>1. PICK i \in DOMAIN block.edges : block.edges[i][2] = nodeTurn
          BY <4>1 DEF Feeders
        <5> QED
          BY <5>1, FlowIs DEF FlowInv
      <4> QED
        BY <4>1, <4>2
    <3> QED
      BY <1>3, <3>1, <3>2
  <2> QED
    BY <1>1, <2>1, FlowStays DEF Sourced, FlowNodes
<1>7. nodeTurn' \in Nat
  BY <1>1, <1>2
<1> HIDE DEF add
<1> QED
  BY <1>1, <1>3, <1>4, <1>5, <1>6, <1>7 DEF FlowInv, IsFn, FlowNodes, NoSites

\* The call sites follow from what is asked for.
LEMMA SitesKeep ==
  ASSUME FlowInv, SetCallSites
  PROVE  FlowInv'
<1>1. /\ kpc = "demand" /\ kpc' = "ruled" /\ nodeTurn = 0
      /\ UNCHANGED <<block, nodeTurn, demand, rejected>>
      /\ sites' = [n \in FlowNodes |-> IF ~InPipeline(n) THEN sites[n] ELSE SiteOf(n)]
  BY DEF SetCallSites, SiteOf, FlowNodes
<1>2. /\ AllFed /\ AskedFor /\ Sourced /\ sites = NoSites
  BY <1>1 DEF FlowInv
<1>3. AllFed' /\ AskedFor' /\ Sourced'
  BY <1>1, <1>2, FlowStays DEF AllFed, AskedFor, Sourced, Fed, FlowNodes
<1>4. \A n : (InPipeline(n)' <=> InPipeline(n)) /\ SiteOf(n)' = SiteOf(n)
  BY <1>1 DEF InPipeline, SiteOf, Clamp
<1>5. \A n \in FlowNodes : /\ InPipeline(n) => sites'[n] = SiteOf(n)
                           /\ ~InPipeline(n) => sites'[n].used = {}
  BY <1>1, <1>2 DEF NoSites, FlowNodes
<1> QED
  BY <1>1, <1>3, <1>4, <1>5 DEF FlowInv, IsFn, FlowNodes

\* Every step keeps the invariant.
LEMMA FlowSteps == FlowOrFn /\ [BlockNext]_blockVars => FlowOrFn'
<1> SUFFICES ASSUME FlowOrFn, [BlockNext]_blockVars PROVE FlowOrFn'
  OBVIOUS
<1>1. CASE FlowInv /\ BlockNext
  <2>1. kpc \in {"match", "demand", "ruled"} /\ ~IsFn
    BY <1>1 DEF FlowInv
  <2>2. CASE MatchNode
    BY <1>1, <2>2, MatchKeeps DEF FlowOrFn
  <2>3. CASE AskLast
    BY <1>1, <2>3, LastKeeps DEF FlowOrFn
  <2>4. CASE AskSources
    BY <1>1, <2>4, AskKeeps DEF FlowOrFn
  <2>5. CASE SetCallSites
    BY <1>1, <2>5, SitesKeep DEF FlowOrFn
  <2> QED
    BY <1>1, <2>1, <2>2, <2>3, <2>4, <2>5
       DEF BlockNext, CheckOwner, CheckReferences, CheckMonotone, AssignStages, WarnOwned
<1>2. CASE (block \in FnBlocks /\ kpc \in BlockStaged \cup BlockSettled) /\ BlockNext
  <2>1. kpc' \in BlockStaged \cup BlockSettled /\ UNCHANGED block
    BY <1>2 DEF BlockNext, CheckOwner, CheckReferences, CheckMonotone, AssignStages, WarnOwned,
                MatchNode, AskLast, AskSources, SetCallSites, BlockStaged, BlockSettled
  <2> QED
    BY <1>2, <2>1 DEF FlowOrFn
<1>3. CASE UNCHANGED blockVars
  <2>1. UNCHANGED <<block, kpc, nodeTurn, demand, sites, rejected>>
    BY <1>3 DEF blockVars
  <2>2. CASE FlowInv
    <3>1. AllFed => AllFed'
      BY <2>1, FlowStays DEF AllFed, Fed, FlowNodes
    <3>2. AskedFor => AskedFor'
      BY <2>1, FlowStays DEF AskedFor, FlowNodes
    <3>3. Sourced => Sourced'
      BY <2>1, FlowStays DEF Sourced, FlowNodes
    <3>4. \A n : (Fed(n)' <=> Fed(n)) /\ (InPipeline(n)' <=> InPipeline(n)) /\ SiteOf(n)' = SiteOf(n)
      BY <2>1, FlowStays DEF Fed, InPipeline, SiteOf, Clamp
    <3> QED
      BY <2>1, <2>2, <3>1, <3>2, <3>3, <3>4 DEF FlowInv, FlowOrFn, IsFn, FlowNodes, NoSites
  <2> QED
    BY <2>1, <2>2 DEF FlowOrFn
<1> QED
  BY <1>1, <1>2, <1>3 DEF FlowOrFn

\* What a node takes is delivered, or hidden under the ceiling.
LEMMA TakenIsDelivered ==
  ASSUME FlowInv, kpc = "ruled", rejected = {}, NEW n \in FlowNodes, NEW a \in Matches1(n),
         Feeders(n) # {}, MatchSucceeds(n)
  PROVE  LET o == Offered(n)[a[1]] IN
           o.field.name \in Delivered(o.node) \/ HiddenField(o.node, o.field.name)
<1> DEFINE o == Offered(n)[a[1]]
           name == o.field.name
           p == o.node
<1>1. /\ block \in BlockFlows /\ AskedFor /\ nodeTurn = 0
      /\ \A m \in FlowNodes : InPipeline(m) => sites[m] = SiteOf(m)
  BY DEF FlowInv
<1>2. o \in OffersTo(n)
  BY <1>1, MatchIs
<1>3. p \in FlowNodes /\ Offer(n, o)
  BY <1>2 DEF OffersTo
<1>4. InPipeline(p) /\ o.field \in Range(block.returns[p].returns)
  BY <1>3 DEF Offer, InPipeline
<1>5. name \in Asked(n, p)
  BY DEF Asked
<1> HIDE DEF o
<1>6. name \in demand[p]
  <2>1. n > nodeTurn
    BY <1>1, FlowIs DEF FlowNodes
  <2> QED
    BY <1>1, <1>3, <1>5, <2>1 DEF AskedFor
<1>7. sites[p] = SiteOf(p)
  BY <1>1, <1>3, <1>4
<1>8. CASE demand[p] # {} /\ block.returns[p].ceiling = NoCeiling
  <2>1. sites[p] = Site("SmartPass", demand[p])
    BY <1>7, <1>8 DEF SiteOf
  <2> QED
    BY <1>6, <2>1 DEF Delivered, Site, o
<1>9. CASE demand[p] # {} /\ block.returns[p].ceiling # NoCeiling
  <2>1. sites[p] = Site("SmartPass", Clamp(p))
    BY <1>7, <1>9 DEF SiteOf
  <2> QED
    BY <1>6, <1>9, <2>1 DEF Delivered, Site, Clamp, HiddenField, o
<1> QED
  BY <1>6, <1>8, <1>9

\* What is read is delivered when the invariant holds.
LEMMA InvDelivers == FlowInv => ReadIsDelivered
<1> SUFFICES ASSUME FlowInv, kpc = "ruled", rejected = {} PROVE ReadIsDelivered
  BY DEF ReadIsDelivered
<1>1. /\ block \in BlockFlows /\ AllFed /\ Sourced /\ ~IsFn /\ FlowSize \in Nat
      /\ \A n \in FlowNodes : /\ InPipeline(n) => sites[n] = SiteOf(n)
                              /\ ~InPipeline(n) => sites[n].used = {}
  BY FlowIs DEF FlowInv
<1>2. ASSUME NEW n \in FlowNodes, Offered(n) # <<>>
      PROVE  \E bound \in [DOMAIN block.params[n] -> DOMAIN Offered(n)] :
               \A t, u \in DOMAIN bound :
                 LET o == Offered(n)[bound[t]] IN
                 /\ bound[t] = bound[u] => t = u
                 /\ o.field.type = block.params[n][t].type
                 /\ o.field.name \in Delivered(o.node) \/ HiddenField(o.node, o.field.name)
  <2> DEFINE L == Len(block.params[n])
             pair == [t \in 1..L |-> CHOOSE a \in Matches1(n) : a[2] = t]
             bound == [t \in 1..L |-> pair[t][1]]
  <2>1. MatchSucceeds(n)
    BY <1>1, <1>2 DEF AllFed, Fed
  <2>2. /\ L \in Nat /\ DOMAIN block.params[n] = 1..L
        /\ Matches1(n) \subseteq (DOMAIN Offered(n)) \X (1..L)
        /\ PairsApart(Matches1(n), Offered(n), block.params[n])
        /\ \A i \in DOMAIN Offered(n) : Offered(n)[i] \in OffersTo(n)
    BY <1>1, MatchIs
  <2>3. \A t \in 1..L : pair[t] \in Matches1(n) /\ pair[t][2] = t
    <3>1. \A t \in 1..L : \E a \in Matches1(n) : a[2] = t
      BY <1>1, <2>1, MatchIsWhole
    <3> QED
      BY <3>1
  <2> HIDE DEF pair, L
  <2>4. \A t \in 1..L : bound[t] = pair[t][1]
    OBVIOUS
  <2>5. bound \in [1..L -> DOMAIN Offered(n)] /\ DOMAIN bound = 1..L
    BY <2>2, <2>3
  <2> HIDE DEF bound
  <2>6. ASSUME NEW t \in 1..L, NEW u \in 1..L, bound[t] = bound[u] PROVE t = u
    <3>1. pair[t] = pair[u]
      BY <2>2, <2>3, <2>4, <2>6 DEF PairsApart
    <3> QED
      BY <2>3, <3>1
  <2>7. ASSUME NEW t \in 1..L
        PROVE  Offered(n)[bound[t]].field.type = block.params[n][t].type
    BY <2>2, <2>3, <2>4 DEF PairsApart
  <2>8. ASSUME NEW t \in 1..L
        PROVE  LET o == Offered(n)[bound[t]] IN
                 o.field.name \in Delivered(o.node) \/ HiddenField(o.node, o.field.name)
    <3>1. Offered(n)[bound[t]] \in OffersTo(n)
      BY <2>2, <2>5
    <3>2. Feeders(n) # {}
      BY <3>1 DEF OffersTo, Offer, Feeders
    <3>3. pair[t] \in Matches1(n) /\ bound[t] = pair[t][1]
      BY <2>3, <2>4
    <3> QED
      BY <2>1, <3>2, <3>3, TakenIsDelivered
  <2> QED
    BY <2>2, <2>5, <2>6, <2>7, <2>8
<1>3. ASSUME NEW n \in FlowNodes, NEW name \in sites[n].used,
             n # block.last, sites[n].used # block.returns[n].ceiling
      PROVE  \E f \in Range(block.returns[n].returns), e \in Range(block.edges) :
              /\ f.name = name /\ e[1] = n
              /\ \E p \in Range(block.params[e[2]]) : p.type = f.type
  <2>1. InPipeline(n) /\ sites[n] = SiteOf(n)
    BY <1>1, <1>3
  <2>2. name \in demand[n]
    <3>1. CASE demand[n] = {} /\ block.returns[n].ceiling = NoCeiling
      BY <1>3, <2>1, <3>1 DEF SiteOf, Site
    <3>2. CASE demand[n] = {} /\ block.returns[n].ceiling # NoCeiling
      BY <1>3, <2>1, <3>2 DEF SiteOf, Site
    <3>3. CASE demand[n] # {} /\ block.returns[n].ceiling = NoCeiling
      BY <1>3, <2>1, <3>3 DEF SiteOf, Site
    <3>4. CASE demand[n] # {} /\ block.returns[n].ceiling # NoCeiling
      BY <1>3, <2>1, <3>4 DEF SiteOf, Site, Clamp
    <3> QED
      BY <3>1, <3>2, <3>3, <3>4
  <2>3. PICK c \in FlowNodes : name \in Asked(c, n)
    BY <1>1, <1>3, <2>2 DEF Sourced
  <2>4. PICK a \in Matches1(c) : Offered(c)[a[1]].node = n /\ Offered(c)[a[1]].field.name = name
    BY <2>3 DEF Asked
  <2> DEFINE o == Offered(c)[a[1]]
  <2>5. /\ DOMAIN block.params[c] = 1..Len(block.params[c]) /\ a[2] \in 1..Len(block.params[c])
        /\ o \in OffersTo(c) /\ o.field.type = block.params[c][a[2]].type
    BY <1>1, MatchIs DEF PairsApart
  <2>6. o.node = n /\ o.field.name = name
    BY <2>4
  <2> HIDE DEF o
  <2>7. PICK i \in DOMAIN block.edges : /\ block.edges[i][2] = c /\ o.node = block.edges[i][1]
                                        /\ o.field \in Range(block.returns[o.node].returns)
    BY <2>5 DEF OffersTo, Offer
  <2>8. block.edges[i] \in Range(block.edges) /\ block.params[c][a[2]] \in Range(block.params[c])
    BY <2>5, <2>7 DEF Range
  <2> QED
    BY <2>5, <2>6, <2>7, <2>8
<1>4. \A n \in FlowNodes : \A name \in sites[n].used :
         \/ n = block.last \/ sites[n].used = block.returns[n].ceiling
         \/ \E f \in Range(block.returns[n].returns), e \in Range(block.edges) :
              /\ f.name = name /\ e[1] = n
              /\ \E p \in Range(block.params[e[2]]) : p.type = f.type
  BY <1>3
<1> HIDE DEF IsFn
<1> QED
  BY <1>2, <1>4, Zenon DEF ReadIsDelivered, FlowNodes

(***************************************************************************)
(* In a pipeline that is accepted every parameter of a node that is fed by *)
(* producers of several fields has a field of its own, of its type, that   *)
(* the producer's call delivers or `with returns` hides; and a call that   *)
(* delivers some fields only delivers none that nothing takes: for any     *)
(* number of nodes, any edges, and any returns and parameters             *)
(* (SemanticAnalyzer::validatePipeline).                                   *)
(***************************************************************************)
THEOREM ReadIsAlwaysDelivered == BlockSpec => []ReadIsDelivered
<1>1. BlockInit => FlowOrFn
  BY FlowStarts
<1>2. FlowOrFn /\ [BlockNext]_blockVars => FlowOrFn'
  BY FlowSteps
<1>3. FlowOrFn => ReadIsDelivered
  <2>1. block \in FnBlocks => IsFn
    BY DEF FnBlocks, IsFn
  <2> QED
    BY <2>1, InvDelivers DEF FlowOrFn, ReadIsDelivered
<1> QED
  BY <1>1, <1>2, <1>3, PTL DEF BlockSpec

-----------------------------------------------------------------------------
(* The cycles of shared fields and of parents.                             *)

\* What is next to x is reached, and so is what is next to what is reached.
LEMMA ReachIs ==
  ASSUME NEW N, NEW next \in [N -> SUBSET N], NEW x \in N
  PROVE  /\ Reach(next, x) \subseteq N
         /\ next[x] \subseteq Reach(next, x)
         /\ \A y \in Reach(next, x) : next[y] \subseteq Reach(next, x)
<1>1. DOMAIN next = N /\ \A y \in N : next[y] \subseteq N
  OBVIOUS
<1>2. Reach(next, x) \subseteq N /\ next[x] \subseteq Reach(next, x)
  BY <1>1 DEF Reach
<1>3. ASSUME NEW y \in Reach(next, x), NEW z \in next[y] PROVE z \in Reach(next, x)
  <2>1. y \in N /\ z \in N
    BY <1>1, <1>2
  <2>2. ASSUME NEW S \in SUBSET N, next[x] \subseteq S, IsClosed(S, next) PROVE z \in S
    <3>1. y \in S
      BY <1>1, <2>2 DEF Reach
    <3> QED BY <2>2, <3>1 DEF IsClosed
  <2> QED BY <1>1, <2>1, <2>2 DEF Reach
<1> QED BY <1>2, <1>3

\* A closed set that holds what is next to x holds all that is reached from x.
LEMMA ReachLeast ==
  ASSUME NEW N, NEW next \in [N -> SUBSET N], NEW x \in N, NEW S \in SUBSET N,
         next[x] \subseteq S, \A y \in S : next[y] \subseteq S
  PROVE  Reach(next, x) \subseteq S
BY DEF Reach, IsClosed

\* What is reached from what is reached is reached.
LEMMA ReachFurther ==
  ASSUME NEW N, NEW next \in [N -> SUBSET N], NEW x \in N, NEW y \in Reach(next, x)
  PROVE  Reach(next, y) \subseteq Reach(next, x)
<1>1. y \in N /\ Reach(next, x) \in SUBSET N /\ next[y] \subseteq Reach(next, x)
      /\ \A z \in Reach(next, x) : next[z] \subseteq Reach(next, x)
  BY ReachIs
<1> QED BY <1>1, ReachLeast

\* Where nothing follows, nothing is reached.
LEMMA ReachNothing ==
  ASSUME NEW N, NEW next \in [N -> SUBSET N], NEW x \in N, next[x] = {}
  PROVE  Reach(next, x) = {} /\ ~LeadsIntoCycle(next, x)
<1>1. Reach(next, x) \subseteq {}
  BY ReachLeast
<1> QED BY <1>1 DEF LeadsIntoCycle

-----------------------------------------------------------------------------
LoopNodes == 1..(Len(graph) + 1)
\* The state keeps its types.
LoopTyped ==
  /\ graph \in Seq(Seq(Nat)) /\ \A c \in DOMAIN graph : graph[c] \in Seq(LoopNodes)
  /\ parents \in Seq(Nat)
  /\ gpc \in {"graph", "parents", "checked"} /\ origin \in Nat \ {0}
  /\ cycles \subseteq {"S-OWN-004", "depth", "parent", "circular"} \X Nat

\* The shared fields as a function of the names.
LEMMA FieldsAre ==
  ASSUME LoopTyped
  PROVE  /\ SharedFields \in [LoopNodes -> SUBSET LoopNodes]
         /\ \A c \in LoopNodes : /\ Shared(c) \in Seq(LoopNodes)
                                 /\ \A i \in 1..Len(Shared(c)) : Shared(c)[i] \in SharedFields[c]
                                 /\ \A d \in SharedFields[c] :
                                      \E i \in 1..Len(Shared(c)) : d = Shared(c)[i]
         /\ DOMAIN graph \subseteq LoopNodes
<1>1. DOMAIN graph = 1..Len(graph) /\ Len(graph) \in Nat
  BY DEF LoopTyped
<1>2. ASSUME NEW c \in LoopNodes PROVE Shared(c) \in Seq(LoopNodes)
  BY DEF LoopTyped, Shared
<1>3. \A c \in LoopNodes : SharedFields[c] = {Shared(c)[i] : i \in 1..Len(Shared(c))}
  <2>1. ASSUME NEW c \in LoopNodes
        PROVE Range(Shared(c)) = {Shared(c)[i] : i \in 1..Len(Shared(c))}
    <3>1. DOMAIN Shared(c) = 1..Len(Shared(c))
      BY <1>2
    <3> QED BY <3>1 DEF Range
  <2> QED BY <2>1 DEF SharedFields, LoopNodes
<1>4. ASSUME NEW c \in LoopNodes, NEW d \in SharedFields[c] PROVE d \in LoopNodes
  <2>1. PICK i \in 1..Len(Shared(c)) : d = Shared(c)[i]
    BY <1>3
  <2> QED BY <1>2, <2>1
<1>5. DOMAIN SharedFields = LoopNodes /\ SharedFields = [c \in LoopNodes |-> SharedFields[c]]
  BY DEF SharedFields, LoopNodes
<1>6. DOMAIN graph \subseteq LoopNodes
  BY <1>1 DEF LoopNodes
<1> QED BY <1>2, <1>3, <1>4, <1>5, <1>6

-----------------------------------------------------------------------------
\* The nodes of a path.
On(p) == {p[i].node : i \in 1..Len(p)}
\* The nodes that the search has left.
Left(p, v) == v \ On(p)

\* What holds of the calls p of dfs() and the nodes v they have met.
Searching(p, v) ==
  /\ p \in Seq([node : LoopNodes, at : Nat \ {0}]) /\ v \in SUBSET LoopNodes
  /\ origin \in DOMAIN graph /\ p # <<>> /\ p[1].node = origin /\ On(p) \subseteq v
  /\ \A i, j \in 1..Len(p) : p[i].node = p[j].node => i = j
  /\ \A i \in 1..Len(p) : p[i].at <= Len(Shared(p[i].node)) + 1
  /\ \A i \in 1..(Len(p) - 1) : /\ p[i].at <= Len(Shared(p[i].node))
                                /\ Shared(p[i].node)[p[i].at] = p[i + 1].node
  /\ \A i, j \in 1..Len(p) : i < j => p[j].node \in Reach(SharedFields, p[i].node)
  /\ \A f \in Left(p, v) : /\ SharedFields[f] \subseteq Left(p, v)
                           /\ f \notin Reach(SharedFields, f)
  /\ \A i \in 1..Len(p) : \A k \in 1..(p[i].at - 1) : Shared(p[i].node)[k] \in Left(p, v)

\* The last of n is the one that is not among the first n - 1.
LEMMA UpTo ==
  ASSUME NEW n \in Nat \ {0}
  PROVE  \A i \in 1..n : i \in 1..(n - 1) \/ i = n
OBVIOUS

\* The first n of a sequence.
LEMMA FirstOf ==
  ASSUME NEW S, NEW s \in Seq(S), NEW n \in Nat, n <= Len(s)
  PROVE  /\ SubSeq(s, 1, n) \in Seq(S) /\ Len(SubSeq(s, 1, n)) = n
         /\ \A i \in 1..n : SubSeq(s, 1, n)[i] = s[i]
OBVIOUS

\* What is up to a is before any greater b.
LEMMA UpToBefore ==
  ASSUME NEW a \in Nat, NEW b \in Nat, b > a
  PROVE  \A k \in 1..a : k \in 1..(b - 1)
OBVIOUS

\* The path of a search begins at its origin.
LEMMA SearchedIs ==
  ASSUME NEW p, NEW v, Searching(p, v)
  PROVE  /\ Len(p) \in Nat \ {0} /\ Len(p) \in 1..Len(p) /\ DOMAIN p = 1..Len(p)
         /\ 1 \in 1..Len(p) /\ p[1].node = origin
         /\ p \in Seq([node : LoopNodes, at : Nat \ {0}])
         /\ \A i \in 1..Len(p) : p[i].node \in LoopNodes /\ p[i].at \in Nat \ {0}
<1>1. p \in Seq([node : LoopNodes, at : Nat \ {0}]) /\ p # <<>>
  BY DEF Searching
<1>2. Len(p) \in Nat /\ DOMAIN p = 1..Len(p)
  BY <1>1
<1>3. Len(p) # 0
  BY <1>1, EmptySeq
<1>4. \A i \in 1..Len(p) : p[i] \in [node : LoopNodes, at : Nat \ {0}]
  BY <1>1, ElementOfSeq
<1>5. \A i \in 1..Len(p) : p[i].node \in LoopNodes /\ p[i].at \in Nat \ {0}
  BY <1>4
<1>6. Len(p) \in Nat \ {0} /\ Len(p) \in 1..Len(p) /\ 1 \in 1..Len(p)
  BY <1>2, <1>3
<1>7. p[1].node = origin
  BY DEF Searching
<1> QED BY <1>1, <1>2, <1>5, <1>6, <1>7

\* dfs() goes on with the target after one that was left before.
LEMMA TargetSkipped ==
  ASSUME LoopTyped, NEW p, NEW v, Searching(p, v),
         p[Len(p)].at <= Len(Shared(p[Len(p)].node)),
         Shared(p[Len(p)].node)[p[Len(p)].at] \in Left(p, v)
  PROVE  Searching(NextTarget(p), v)
<1> DEFINE n == Len(p)
           q == NextTarget(p)
<1>1. /\ n \in Nat \ {0} /\ n \in 1..n /\ DOMAIN p = 1..n
      /\ p \in Seq([node : LoopNodes, at : Nat \ {0}])
      /\ \A i \in 1..n : p[i].node \in LoopNodes /\ p[i].at \in Nat \ {0}
  BY SearchedIs
<1>0. n \in Nat \ {0} /\ (\A i \in 1..n : i \in 1..(n - 1) \/ i = n)
  BY SearchedIs, UpTo
<1>2. /\ q \in Seq([node : LoopNodes, at : Nat \ {0}]) /\ Len(q) = n
      /\ \A i \in 1..n : q[i].node = p[i].node
      /\ \A i \in 1..(n - 1) : q[i].at = p[i].at
      /\ q[n].at = p[n].at + 1
  <2>1. q = [p EXCEPT ![n] = [p[n] EXCEPT !.at = @ + 1]]
    BY DEF NextTarget
  <2>6. p[n] \in [node : LoopNodes, at : Nat \ {0}]
    BY <1>1, ElementOfSeq
  <2>2. [p[n] EXCEPT !.at = @ + 1] \in [node : LoopNodes, at : Nat \ {0}]
    BY <2>6
  <2>3. q \in Seq([node : LoopNodes, at : Nat \ {0}]) /\ Len(q) = n
    BY <1>1, <2>1, <2>2
  <2>4. \A i \in 1..n : q[i] = IF i = n THEN [p[n] EXCEPT !.at = @ + 1] ELSE p[i]
    BY <1>1, <2>1
  <2>5. q[n].node = p[n].node /\ q[n].at = p[n].at + 1
    BY <1>1, <2>4, <2>6
  <2> QED BY <1>1, <2>3, <2>4, <2>5
<1> HIDE DEF q
<1>3. On(q) = On(p) /\ Left(q, v) = Left(p, v)
  BY <1>2 DEF On, Left
<1>4. q # <<>> /\ q[1].node = origin /\ v \in SUBSET LoopNodes /\ On(q) \subseteq v
  BY <1>1, <1>2, <1>3 DEF Searching
<1>5. \A i, j \in 1..n : q[i].node = q[j].node => i = j
  BY <1>1, <1>2 DEF Searching
<1>6. \A i \in 1..n : q[i].at <= Len(Shared(q[i].node)) + 1
  <2>1. \A i \in 1..n : Len(Shared(p[i].node)) \in Nat /\ p[i].at \in Nat
    BY <1>1, FieldsAre
  <2>2. \A i \in 1..n : p[i].at <= Len(Shared(p[i].node)) + 1
    BY DEF Searching
  <2>5. \A i \in 1..(n - 1) : i \in 1..n
    BY <1>1
  <2>3. \A i \in 1..(n - 1) : q[i].at <= Len(Shared(q[i].node)) + 1
    BY <1>2, <2>2, <2>5
  <2>4. q[n].at <= Len(Shared(q[n].node)) + 1
    BY <1>1, <1>2, <2>1
  <2> QED BY <1>0, <2>3, <2>4
<1>7. \A i \in 1..(n - 1) : /\ q[i].at <= Len(Shared(q[i].node))
                            /\ Shared(q[i].node)[q[i].at] = q[i + 1].node
  <2>1. ASSUME NEW i \in 1..(n - 1) PROVE i \in 1..n /\ i + 1 \in 1..n
    BY <1>1
  <2> QED BY <1>2, <2>1 DEF Searching
<1>8. \A i, j \in 1..n : i < j => q[j].node \in Reach(SharedFields, q[i].node)
  BY <1>1, <1>2 DEF Searching
<1>9. \A f \in Left(q, v) : SharedFields[f] \subseteq Left(q, v) /\ f \notin Reach(SharedFields, f)
  BY <1>3 DEF Searching
<1>10. ASSUME NEW i \in 1..n, NEW k \in 1..(q[i].at - 1)
       PROVE Shared(q[i].node)[k] \in Left(q, v)
  <2>1. CASE i = n /\ k = p[n].at
    BY <1>1, <1>2, <1>3, <2>1
  <2>2. CASE ~(i = n /\ k = p[n].at)
    <3>1. k \in 1..(p[i].at - 1)
      <4>1. CASE i = n
        <5>1. q[i].at = p[i].at + 1 /\ k # p[i].at /\ p[i].at \in Nat
          BY <1>1, <1>2, <2>2, <4>1
        <5> QED BY <5>1
      <4>2. CASE i # n
        BY <1>0, <1>2, <4>2
      <4> QED BY <4>1, <4>2
    <3> QED BY <1>1, <1>2, <1>3, <3>1 DEF Searching
  <2> QED BY <2>1, <2>2
<1> QED BY <1>2, <1>4, <1>5, <1>6, <1>7, <1>8, <1>9, <1>10 DEF Searching, q

\* dfs() enters a target that was not met.
LEMMA TargetEntered ==
  ASSUME LoopTyped, NEW p, NEW v, Searching(p, v),
         p[Len(p)].at <= Len(Shared(p[Len(p)].node)), NEW t,
         t = Shared(p[Len(p)].node)[p[Len(p)].at], t \notin v
  PROVE  Searching(Append(p, Enter(t)), v \cup {t})
<1> DEFINE n == Len(p)
           q == Append(p, Enter(t))
           G == SharedFields
<1>1. /\ n \in Nat \ {0} /\ n \in 1..n /\ DOMAIN p = 1..n
      /\ p \in Seq([node : LoopNodes, at : Nat \ {0}])
      /\ \A i \in 1..n : p[i].node \in LoopNodes /\ p[i].at \in Nat \ {0}
  BY SearchedIs
<1>0. n \in Nat \ {0} /\ (\A i \in 1..n : i \in 1..(n - 1) \/ i = n)
  BY SearchedIs, UpTo
<1>2. t \in LoopNodes /\ t \in G[p[n].node]
  BY <1>1, FieldsAre
<1>3. /\ q \in Seq([node : LoopNodes, at : Nat \ {0}]) /\ Len(q) = n + 1
      /\ \A i \in 1..n : q[i] = p[i]
      /\ q[n + 1].node = t /\ q[n + 1].at = 1
  <2>1. Enter(t) \in [node : LoopNodes, at : Nat \ {0}] /\ Enter(t).node = t /\ Enter(t).at = 1
    BY <1>2 DEF Enter
  <2> QED BY <1>1, <2>1 DEF Searching
<1> HIDE DEF q
<1>15. \A i \in 1..(n + 1) : i \in 1..n \/ i = n + 1
  BY <1>1
<1>4. On(q) = On(p) \cup {t}
  <2>1. On(q) \subseteq On(p) \cup {t}
    BY <1>1, <1>3 DEF On
  <2>2. \A i \in 1..n : i \in 1..Len(q)
    BY <1>1, <1>3
  <2>3. n + 1 \in 1..Len(q)
    BY <1>1, <1>3
  <2>4. On(p) \cup {t} \subseteq On(q)
    BY <1>3, <2>2, <2>3 DEF On
  <2> QED BY <2>1, <2>4
<1>5. Left(q, v \cup {t}) = Left(p, v)
  BY <1>4 DEF Left
<1>6. /\ q # <<>> /\ q[1].node = origin /\ v \cup {t} \in SUBSET LoopNodes
      /\ On(q) \subseteq v \cup {t}
  BY <1>1, <1>2, <1>3, <1>4 DEF Searching
<1>7. \A i \in 1..n : p[i].node # t
  BY DEF Searching, On
<1>8. \A i, j \in 1..(n + 1) : q[i].node = q[j].node => i = j
  <2>1. \A i, j \in 1..n : p[i].node = p[j].node => i = j
    BY DEF Searching
  <2>2. \A i \in 1..(n + 1) : i # n + 1 => i \in 1..n
    BY <1>1
  <2>3. ASSUME NEW i \in 1..(n + 1), NEW j \in 1..(n + 1), q[i].node = q[j].node, i # j
        PROVE  FALSE
    <3>1. CASE i # n + 1 /\ j # n + 1
      <4>1. i \in 1..n /\ j \in 1..n /\ q[i] = p[i] /\ q[j] = p[j]
        BY <1>3, <2>2, <3>1
      <4> QED BY <2>1, <2>3, <4>1
    <3>2. CASE i = n + 1
      <4>1. j \in 1..n /\ q[j] = p[j] /\ q[i].node = t
        BY <1>3, <2>2, <2>3, <3>2
      <4> QED BY <1>7, <2>3, <4>1
    <3>3. CASE j = n + 1
      <4>1. i \in 1..n /\ q[i] = p[i] /\ q[j].node = t
        BY <1>3, <2>2, <2>3, <3>3
      <4> QED BY <1>7, <2>3, <4>1
    <3> QED BY <3>1, <3>2, <3>3
  <2> QED BY <2>3
<1>9. \A i \in 1..(n + 1) : q[i].at <= Len(Shared(q[i].node)) + 1
  <2>1. Len(Shared(t)) \in Nat
    BY <1>2, FieldsAre
  <2>2. \A i \in 1..n : p[i].at <= Len(Shared(p[i].node)) + 1
    BY DEF Searching
  <2>3. q[n + 1].at <= Len(Shared(q[n + 1].node)) + 1
    BY <1>3, <2>1
  <2>4. \A i \in 1..n : q[i].at <= Len(Shared(q[i].node)) + 1
    BY <1>3, <2>2
  <2> QED BY <1>15, <2>3, <2>4
<1>10. \A i \in 1..n : /\ q[i].at <= Len(Shared(q[i].node))
                       /\ Shared(q[i].node)[q[i].at] = q[i + 1].node
  <2>1. ASSUME NEW i \in 1..(n - 1)
        PROVE  /\ q[i].at <= Len(Shared(q[i].node))
               /\ Shared(q[i].node)[q[i].at] = q[i + 1].node
    <3>1. i \in 1..n /\ i + 1 \in 1..n
      BY <1>1
    <3> QED BY <1>3, <3>1 DEF Searching
  <2>2. /\ q[n].at <= Len(Shared(q[n].node)) /\ Shared(q[n].node)[q[n].at] = q[n + 1].node
    BY <1>1, <1>3
  <2> QED BY <1>0, <2>1, <2>2
<1>11. ASSUME NEW i \in 1..(n + 1), NEW j \in 1..(n + 1), i < j
       PROVE q[j].node \in Reach(G, q[i].node)
  <2>1. \A k, l \in 1..n : k < l => p[l].node \in Reach(G, p[k].node)
    BY DEF Searching
  <2>2. CASE j \in 1..n
    <3>1. i \in 1..n
      BY <1>0, <1>11, <2>2
    <3> QED BY <1>3, <1>11, <2>1, <2>2, <3>1
  <2>3. CASE j = n + 1
    <3>1. i \in 1..n /\ p[i].node \in LoopNodes /\ p[n].node \in LoopNodes
      BY <1>1, <1>11, <2>3
    <3>2. p[n].node = p[i].node \/ p[n].node \in Reach(G, p[i].node)
      BY <1>1, <2>1, <3>1
    <3>3. t \in Reach(G, p[i].node)
      BY <1>2, <3>1, <3>2, ReachIs, FieldsAre
    <3> QED BY <1>3, <2>3, <3>1, <3>3
  <2> QED BY <1>1, <2>2, <2>3
<1>12. \A f \in Left(q, v \cup {t}) : /\ G[f] \subseteq Left(q, v \cup {t})
                                      /\ f \notin Reach(G, f)
  BY <1>5 DEF Searching
<1>13. \A i \in 1..(n + 1) : \A k \in 1..(q[i].at - 1) :
         Shared(q[i].node)[k] \in Left(q, v \cup {t})
  <2>1. \A i \in 1..n : \A k \in 1..(p[i].at - 1) : Shared(p[i].node)[k] \in Left(p, v)
    BY DEF Searching
  <2>2. 1..(q[n + 1].at - 1) = {}
    BY <1>3
  <2>3. \A i \in 1..n : \A k \in 1..(q[i].at - 1) :
          Shared(q[i].node)[k] \in Left(q, v \cup {t})
    BY <1>3, <1>5, <2>1
  <2> QED BY <1>15, <2>2, <2>3
<1>14. Len(q) - 1 = n
  BY <1>1, <1>3
<1> QED BY <1>3, <1>6, <1>8, <1>9, <1>10, <1>11, <1>12, <1>13, <1>14 DEF Searching, q

\* dfs() comes back to the call below, whose target is left now.
LEMMA TargetLeft ==
  ASSUME LoopTyped, NEW p, NEW v, Searching(p, v), Len(p) # 1,
         p[Len(p)].at > Len(Shared(p[Len(p)].node))
  PROVE  Searching(NextTarget(SubSeq(p, 1, Len(p) - 1)), v)
<1> DEFINE n == Len(p)
           q == SubSeq(p, 1, n - 1)
           G == SharedFields
           last == p[n].node
<1>1. /\ n \in Nat \ {0} /\ n \in 1..n /\ DOMAIN p = 1..n
      /\ p \in Seq([node : LoopNodes, at : Nat \ {0}])
      /\ \A i \in 1..n : p[i].node \in LoopNodes /\ p[i].at \in Nat \ {0}
  BY SearchedIs
<1>0. /\ n \in Nat \ {0, 1} /\ n - 1 \in Nat \ {0} /\ n - 1 \in 1..(n - 1)
      /\ (\A i \in 1..n : i \in 1..(n - 1) \/ i = n)
      /\ (\A i \in 1..(n - 1) : i \in 1..n /\ i + 1 \in 1..n /\ i # n)
      /\ n - 1 <= n /\ 1 <= n /\ 1..(n - 1) \subseteq 1..n
  <2>1. n \in Nat \ {0, 1}
    BY <1>1
  <2> HIDE DEF n
  <2> QED BY <2>1
<1>2. /\ q \in Seq([node : LoopNodes, at : Nat \ {0}]) /\ Len(q) = n - 1
      /\ \A i \in 1..(n - 1) : q[i] = p[i]
  <2>1. n - 1 \in Nat /\ n - 1 <= Len(p)
    BY <1>0
  <2>2. p \in Seq([node : LoopNodes, at : Nat \ {0}])
    BY <1>1
  <2> QED BY <2>1, <2>2, FirstOf
<1> HIDE DEF q
<1>3. On(p) = On(q) \cup {last}
  <2>1. On(q) = {p[i].node : i \in 1..(n - 1)}
    BY <1>2 DEF On
  <2>2. On(p) = {p[i].node : i \in 1..n}
    BY DEF On
  <2> QED BY <1>0, <1>1, <2>1, <2>2
<1>4. \A i \in 1..(n - 1) : p[i].node # last
  <2>1. \A i, j \in 1..n : p[i].node = p[j].node => i = j
    BY DEF Searching
  <2>2. n \in 1..n
    BY <1>1
  <2>3. ASSUME NEW i \in 1..(n - 1) PROVE i \in 1..n /\ i # n
    BY <1>0
  <2> QED BY <2>1, <2>2, <2>3
<1>5. last \in v /\ last \in LoopNodes /\ last \notin On(q)
  <2>1. last \in On(p) /\ On(p) \subseteq v
    BY <1>1 DEF Searching, On
  <2>2. On(q) = {q[i].node : i \in 1..(n - 1)}
    BY <1>2 DEF On
  <2>3. ASSUME NEW x \in On(q) PROVE x # last
    <3>1. PICK i \in 1..(n - 1) : x = q[i].node
      BY <2>2
    <3>2. q[i] = p[i] /\ p[i].node # last
      BY <1>2, <1>4
    <3> QED BY <3>1, <3>2
  <2> QED BY <1>1, <2>1, <2>3
<1>6. Left(q, v) = Left(p, v) \cup {last}
  BY <1>3, <1>5 DEF Left
<1>7. G[last] \subseteq Left(p, v)
  <2>1. \A k \in 1..(p[n].at - 1) : Shared(last)[k] \in Left(p, v)
    BY <1>1 DEF Searching
  <2>2. Len(Shared(last)) \in Nat /\ p[n].at \in Nat
    BY <1>1, FieldsAre
  <2>3. \A k \in 1..Len(Shared(last)) : k \in 1..(p[n].at - 1)
    BY <2>2, UpToBefore
  <2>4. ASSUME NEW d \in G[last] PROVE d \in Left(p, v)
    <3>1. PICK k \in 1..Len(Shared(last)) : d = Shared(last)[k]
      BY <1>5, FieldsAre
    <3> QED BY <2>1, <2>3, <3>1
  <2> QED BY <2>4
<1>8. last \notin Reach(G, last)
  <2>1. G \in [LoopNodes -> SUBSET LoopNodes]
    BY FieldsAre
  <2>2. \A f \in Left(p, v) : G[f] \subseteq Left(p, v)
    BY DEF Searching
  <2>3. Left(p, v) \in SUBSET LoopNodes
    BY DEF Searching, Left
  <2>4. Reach(G, last) \subseteq Left(p, v)
    BY <1>5, <1>7, <2>1, <2>2, <2>3, ReachLeast
  <2>5. last \notin Left(p, v)
    BY <1>3 DEF Left
  <2> QED BY <2>4, <2>5
<1>9. Searching(q, v)
  <2>1. q # <<>> /\ q[1].node = origin /\ v \in SUBSET LoopNodes /\ On(q) \subseteq v
    <3>1. 1 \in 1..(n - 1)
      BY <1>0
    <3> QED BY <1>0, <1>2, <1>3, <3>1 DEF Searching
  <2>2. \A i, j \in 1..(n - 1) : q[i].node = q[j].node => i = j
    BY <1>0, <1>2 DEF Searching
  <2>3. \A i \in 1..(n - 1) : q[i].at <= Len(Shared(q[i].node)) + 1
    BY <1>0, <1>2 DEF Searching
  <2>4. ASSUME NEW i \in 1..(n - 1 - 1)
        PROVE /\ q[i].at <= Len(Shared(q[i].node))
              /\ Shared(q[i].node)[q[i].at] = q[i + 1].node
    <3>1. i \in 1..(n - 1) /\ i + 1 \in 1..(n - 1)
      BY <1>0
    <3> QED BY <1>2, <3>1 DEF Searching
  <2>5. \A i, j \in 1..(n - 1) : i < j => q[j].node \in Reach(G, q[i].node)
    BY <1>0, <1>2 DEF Searching
  <2>6. \A f \in Left(q, v) : G[f] \subseteq Left(q, v) /\ f \notin Reach(G, f)
    BY <1>6, <1>7, <1>8 DEF Searching
  <2>7. \A i \in 1..(n - 1) : \A k \in 1..(q[i].at - 1) : Shared(q[i].node)[k] \in Left(q, v)
    BY <1>0, <1>2, <1>6 DEF Searching
  <2> QED BY <1>2, <2>1, <2>2, <2>3, <2>4, <2>5, <2>6, <2>7 DEF Searching
<1>10. /\ q[n - 1].at <= Len(Shared(q[n - 1].node))
       /\ Shared(q[n - 1].node)[q[n - 1].at] = last
  <2>1. n - 1 \in 1..(n - 1) /\ (n - 1) + 1 = n
    BY <1>0
  <2>2. /\ p[n - 1].at <= Len(Shared(p[n - 1].node))
        /\ Shared(p[n - 1].node)[p[n - 1].at] = p[(n - 1) + 1].node
    BY <2>1 DEF Searching
  <2> QED BY <1>2, <2>1, <2>2
<1>11. Searching(NextTarget(q), v)
  BY <1>2, <1>6, <1>9, <1>10, TargetSkipped
<1> QED BY <1>11 DEF q

\* A target that the path comes from closes a cycle.
LEMMA CycleFound ==
  ASSUME LoopTyped, NEW p, NEW v, Searching(p, v),
         p[Len(p)].at <= Len(Shared(p[Len(p)].node)),
         Shared(p[Len(p)].node)[p[Len(p)].at] \in On(p)
  PROVE  LeadsIntoCycle(SharedFields, origin)
<1> DEFINE n == Len(p)
           G == SharedFields
           t == Shared(p[n].node)[p[n].at]
<1>1. /\ n \in Nat \ {0} /\ n \in 1..n /\ 1 \in 1..n
      /\ \A i \in 1..n : p[i].node \in LoopNodes /\ p[i].at \in Nat \ {0}
      /\ p[1].node = origin
  BY SearchedIs
<1>2. t \in LoopNodes /\ t \in G[p[n].node] /\ G \in [LoopNodes -> SUBSET LoopNodes]
  BY <1>1, FieldsAre
<1> HIDE DEF t
<1>3. ASSUME NEW i \in 1..n PROVE t \in Reach(G, p[i].node)
  <2>1. p[n].node = p[i].node \/ p[n].node \in Reach(G, p[i].node)
    <3>1. i = n \/ i < n
      BY <1>1
    <3> QED BY <1>1, <3>1 DEF Searching
  <2> QED BY <1>1, <1>2, <2>1, ReachIs
<1>4. PICK i \in 1..n : p[i].node = t
  BY DEF On, t
<1>5. t \in Reach(G, t) /\ t \in Reach(G, origin)
  BY <1>1, <1>3, <1>4
<1> QED BY <1>5 DEF LeadsIntoCycle

\* A search that is deep has reached as many classes.
LEMMA DeepFound ==
  ASSUME LoopTyped, LoopsAssumption, NEW p, NEW v, Searching(p, v), Len(p) > DfsLimit
  PROVE  Cardinality({origin} \cup Reach(SharedFields, origin)) > DfsLimit
<1> DEFINE n == Len(p)
           T == {origin} \cup Reach(SharedFields, origin)
           f == [i \in 1..n |-> p[i].node]
<1>1. /\ n \in Nat \ {0} /\ 1 \in 1..n /\ p[1].node = origin
      /\ \A i \in 1..n : p[i].node \in LoopNodes
  BY SearchedIs
<1>2. \A i \in 1..n : p[i].node \in T
  <2>1. \A i \in 1..n : i = 1 \/ 1 < i
    BY <1>1
  <2> QED BY <1>1, <2>1 DEF Searching
<1>3. IsFiniteSet(T)
  <2>1. Len(graph) + 1 \in Nat /\ 1 \in Int
    BY DEF LoopTyped
  <2>2. IsFiniteSet(LoopNodes)
    BY <2>1, FS_Interval DEF LoopNodes
  <2>3. T \subseteq LoopNodes
    BY <1>1, FieldsAre, ReachIs
  <2> QED BY <2>2, <2>3, FS_Subset
<1>4. f \in Injection(1..n, T)
  <2>1. f \in [1..n -> T]
    BY <1>2
  <2>2. \A i, j \in 1..n : f[i] = f[j] => i = j
    BY DEF Searching
  <2> QED BY <2>1, <2>2 DEF Injection, IsInjective
<1>5. n <= Cardinality(T)
  <2>1. 1 \in Int /\ n \in Int /\ 1 <= n
    BY <1>1
  <2>2. Cardinality(1..n) = n
    BY <1>1, <2>1, FS_Interval
  <2> HIDE DEF T, f
  <2>3. Cardinality(1..n) <= Cardinality(T)
    BY <1>3, <1>4, FS_Injection
  <2> QED BY <2>2, <2>3
<1>6. Cardinality(T) \in Nat
  BY <1>3, FS_CardinalityType
<1> QED BY <1>1, <1>5, <1>6 DEF LoopsAssumption

\* Once the search has left its first class, that class leads into no cycle.
LEMMA NoneFound ==
  ASSUME LoopTyped, NEW p, NEW v, Searching(p, v), Len(p) = 1,
         p[1].at > Len(Shared(p[1].node))
  PROVE  ~LeadsIntoCycle(SharedFields, origin)
<1> DEFINE G == SharedFields
<1>1. /\ 1 \in 1..Len(p) /\ p[1].node = origin /\ origin \in LoopNodes /\ p[1].at \in Nat \ {0}
  BY SearchedIs
<1>2. G[origin] \subseteq Left(p, v)
  <2>1. \A k \in 1..(p[1].at - 1) : Shared(origin)[k] \in Left(p, v)
    BY <1>1 DEF Searching
  <2>2. Len(Shared(origin)) \in Nat /\ p[1].at \in Nat
    BY <1>1, FieldsAre
  <2>3. \A k \in 1..Len(Shared(origin)) : k \in 1..(p[1].at - 1)
    BY <1>1, <2>2, UpToBefore
  <2>4. ASSUME NEW d \in G[origin] PROVE d \in Left(p, v)
    <3>1. PICK k \in 1..Len(Shared(origin)) : d = Shared(origin)[k]
      BY <1>1, FieldsAre
    <3> QED BY <2>1, <2>3, <3>1
  <2> QED BY <2>4
<1>3. \A f \in Left(p, v) : G[f] \subseteq Left(p, v) /\ f \notin Reach(G, f)
  BY DEF Searching
<1>4. Left(p, v) \in SUBSET LoopNodes
  BY DEF Searching, Left
<1>5. Reach(G, origin) \subseteq Left(p, v)
  BY <1>1, <1>2, <1>3, <1>4, FieldsAre, ReachLeast
<1> QED BY <1>3, <1>5 DEF LeadsIntoCycle

-----------------------------------------------------------------------------
\* What holds of the walk, at here, that has met v.
Walking(here, v) ==
  /\ origin \in DOMAIN parents /\ here \in DOMAIN parents /\ v \in SUBSET DOMAIN parents
  /\ origin \in v
  /\ \A w \in v : /\ here \in Reach(ParentsOf, w)
                  /\ ParentsOf[w] \subseteq v \cup {here}

\* A kind has one parent at most.
LEMMA ParentsAre ==
  /\ ParentsOf \in [DOMAIN parents -> SUBSET DOMAIN parents]
  /\ \A k \in DOMAIN parents :
       ParentsOf[k] = IF IsConstraint(parents[k]) THEN {parents[k]} ELSE {}
BY DEF ParentsOf, IsConstraint

\* The walk goes up to the parent.
LEMMA WalkGoesOn ==
  ASSUME NEW here, NEW v, Walking(here, v), IsConstraint(parents[here])
  PROVE  Walking(parents[here], v \cup {here})
<1> DEFINE P == ParentsOf
           up == parents[here]
           D == DOMAIN parents
<1>1. P \in [D -> SUBSET D] /\ here \in D /\ up \in D /\ P[here] = {up} /\ v \in SUBSET D
  BY ParentsAre DEF Walking, IsConstraint
<1>2. \A w \in v : here \in Reach(P, w) /\ P[w] \subseteq v \cup {here}
  BY DEF Walking
<1> HIDE DEF up, P, D
<1>3. ASSUME NEW w \in v \cup {here} PROVE up \in Reach(P, w)
  <2>1. CASE w = here
    BY <1>1, <2>1, ReachIs
  <2>2. CASE w \in v
    <3>1. here \in Reach(P, w) /\ w \in D
      BY <1>1, <1>2, <2>2
    <3> QED BY <1>1, <3>1, ReachIs
  <2> QED BY <2>1, <2>2
<1>4. \A w \in v \cup {here} : P[w] \subseteq (v \cup {here}) \cup {up}
  BY <1>1, <1>2
<1> QED BY <1>1, <1>3, <1>4 DEF Walking, up, P, D

\* A walk that begins.
LEMMA WalkBegins ==
  ASSUME origin \in DOMAIN parents, IsConstraint(parents[origin])
  PROVE  Walking(parents[origin], {origin})
<1>1. /\ ParentsOf \in [DOMAIN parents -> SUBSET DOMAIN parents]
      /\ ParentsOf[origin] = {parents[origin]} /\ parents[origin] \in DOMAIN parents
  BY ParentsAre DEF IsConstraint
<1>2. parents[origin] \in Reach(ParentsOf, origin)
  BY <1>1, ReachIs
<1> QED BY <1>1, <1>2 DEF Walking

\* A constraint that is met again is above itself.
LEMMA WalkCircular ==
  ASSUME NEW here, NEW v, Walking(here, v), here \in v
  PROVE  LeadsIntoCycle(ParentsOf, origin)
BY DEF Walking, LeadsIntoCycle

\* Above a constraint without a parent nothing is its own parent, nor below.
LEMMA WalkEnds ==
  ASSUME NEW here, NEW v, Walking(here, v), ~IsConstraint(parents[here])
  PROVE  ~LeadsIntoCycle(ParentsOf, origin)
<1> DEFINE P == ParentsOf
           D == DOMAIN parents
           V == v \cup {here}
<1>1. /\ P \in [D -> SUBSET D] /\ here \in D /\ P[here] = {} /\ V \in SUBSET D /\ origin \in v
      /\ origin \in D
      /\ \A w \in D : \A y, z \in P[w] : y = z
  BY ParentsAre DEF Walking
<1>2. \A w \in v : here \in Reach(P, w) /\ P[w] \subseteq V
  BY DEF Walking
<1>3. Reach(P, here) = {}
  BY <1>1, ReachNothing
<1> HIDE DEF P, D
<1>4. Reach(P, origin) \subseteq V
  <2>1. P[origin] \subseteq V /\ \A w \in V : P[w] \subseteq V
    BY <1>1, <1>2
  <2> HIDE DEF V
  <2> QED BY <1>1, <2>1, ReachLeast
<1>5. ASSUME NEW d \in V, d \in Reach(P, d) PROVE FALSE
  <2> DEFINE S == {y \in D : d \in Reach(P, y)}
  <2>1. d \in S
    BY <1>1, <1>5
  <2>2. ASSUME NEW y \in S, NEW z \in P[y] PROVE z \in S
    <3>1. z \in D /\ y \in D /\ d \in Reach(P, y)
      BY <1>1
    <3> DEFINE R == {z} \cup Reach(P, z)
    <3>2. R \in SUBSET D /\ \A x \in R : P[x] \subseteq R
      BY <1>1, <3>1, ReachIs
    <3>3. P[y] \subseteq R
      BY <1>1, <3>1
    <3> HIDE DEF R
    <3>4. Reach(P, y) \subseteq R
      BY <1>1, <3>1, <3>2, <3>3, ReachLeast
    <3>5. d \in R
      BY <3>1, <3>4
    <3>6. d = z \/ d \in Reach(P, z)
      BY <3>5 DEF R
    <3>7. d \in Reach(P, z)
      BY <1>5, <3>6
    <3> QED BY <3>1, <3>7
  <2>3. S \in SUBSET D
    OBVIOUS
  <2>4. P[d] \subseteq S
    BY <2>1, <2>2
  <2>5. d \in D
    BY <1>1
  <2>6. here \in S
    <3>1. CASE d = here
      BY <2>1, <3>1
    <3>2. CASE d \in v
      <4>1. \A y \in S : P[y] \subseteq S
        BY <2>2
      <4> HIDE DEF S
      <4>2. Reach(P, d) \subseteq S
        BY <1>1, <2>3, <2>4, <2>5, <4>1, ReachLeast
      <4> QED BY <1>2, <3>2, <4>2
    <3> QED BY <3>1, <3>2
  <2> QED BY <1>3, <2>6
<1>6. \A d \in Reach(P, origin) : d \notin Reach(P, d)
  BY <1>4, <1>5
<1> QED BY <1>6 DEF LeadsIntoCycle, P

-----------------------------------------------------------------------------
\* What the check of a class, and that of a constraint, has to report.
ClassSettled(c) ==
  LET into == LeadsIntoCycle(SharedFields, c)
      reported == <<"S-OWN-004", c>> \in cycles
      gaveUp == <<"depth", c>> \in cycles
  IN /\ reported => into
     /\ into => reported \/ gaveUp
     /\ gaveUp => Cardinality({c} \cup Reach(SharedFields, c)) > DfsLimit
KindSettled(k) == <<"circular", k>> \in cycles <=> LeadsIntoCycle(ParentsOf, k)

\* What holds at each call of dfs() and each step of a walk.
LoopInv ==
  /\ LoopTyped
  /\ (gpc = "graph" /\ path # <<>>) => Searching(path, visited)
  /\ (gpc = "parents" /\ path # <<>>) => Len(path) = 1 /\ Walking(path[1].node, visited)
  /\ \A c \in DOMAIN graph :
       /\ (gpc = "graph" /\ c >= origin) => <<"S-OWN-004", c>> \notin cycles
                                            /\ <<"depth", c>> \notin cycles
       /\ (gpc = "graph" /\ c >= origin) \/ ClassSettled(c)
  /\ \A k \in DOMAIN parents :
       /\ gpc = "graph" \/ (gpc = "parents" /\ k >= origin) => <<"circular", k>> \notin cycles
       /\ gpc = "graph" \/ (gpc = "parents" /\ k >= origin) \/ KindSettled(k)

\* What is shared and what is derived depend on the program only.
LEMMA SameGraph ==
  ASSUME graph' = graph, parents' = parents
  PROVE  /\ SharedFields' = SharedFields /\ ParentsOf' = ParentsOf /\ LoopNodes' = LoopNodes
         /\ \A n : Shared(n)' = Shared(n)
<1>1. \A n : Shared(n)' = Shared(n)
  BY DEF Shared
<1>2. SharedFields' = SharedFields
  BY DEF SharedFields, Shared
<1>3. ParentsOf' = ParentsOf /\ LoopNodes' = LoopNodes
  BY DEF ParentsOf, IsConstraint, LoopNodes
<1> QED BY <1>1, <1>2, <1>3

\* And what a search knows, on the program and its origin.
LEMMA SameSearch ==
  ASSUME graph' = graph, parents' = parents, origin' = origin
  PROVE  /\ Searching(path, visited)' <=> Searching(path', visited')
         /\ Walking(path[1].node, visited)' <=> Walking(path'[1].node, visited')
<1>1. Searching(path, visited)' <=> Searching(path', visited')
  BY SameGraph DEF Searching, Left, On
<1>2. Walking(path[1].node, visited)' <=> Walking(path'[1].node, visited')
  BY SameGraph DEF Walking
<1> QED BY <1>1, <1>2

\* The check of a class ends, with what it reports.
LEMMA SearchEnds ==
  ASSUME LoopInv, gpc = "graph", origin \in DOMAIN graph, EndSearch,
         NEW rules \in SUBSET {"S-OWN-004", "depth"},
         cycles' = cycles \cup {<<r, origin>> : r \in rules},
         "S-OWN-004" \in rules => LeadsIntoCycle(SharedFields, origin),
         LeadsIntoCycle(SharedFields, origin) => rules # {},
         "depth" \in rules => Cardinality({origin} \cup Reach(SharedFields, origin)) > DfsLimit
  PROVE  LoopInv'
<1>1. /\ gpc' = "graph" /\ path' = <<>> /\ origin' = origin + 1
      /\ graph' = graph /\ parents' = parents /\ gpc' = gpc
  BY DEF EndSearch
<1>2. LoopTyped'
  <2>1. origin \in Nat /\ \A r \in rules : r \in {"S-OWN-004", "depth", "parent", "circular"}
    BY DEF LoopInv, LoopTyped
  <2>2. origin' \in Nat \ {0} /\ LoopNodes' = LoopNodes
    BY <1>1, <2>1 DEF LoopInv, LoopTyped, LoopNodes
  <2>3. cycles' \subseteq {"S-OWN-004", "depth", "parent", "circular"} \X Nat
    <3>1. cycles \subseteq {"S-OWN-004", "depth", "parent", "circular"} \X Nat
      BY DEF LoopInv, LoopTyped
    <3>2. \A r \in rules : <<r, origin>> \in {"S-OWN-004", "depth", "parent", "circular"} \X Nat
      BY <2>1
    <3> QED BY <3>1, <3>2
  <2> QED BY <1>1, <2>2, <2>3 DEF LoopInv, LoopTyped
<1>3. /\ \A c : c # origin => /\ <<"S-OWN-004", c>> \in cycles' <=> <<"S-OWN-004", c>> \in cycles
                             /\ <<"depth", c>> \in cycles' <=> <<"depth", c>> \in cycles
      /\ \A k : <<"circular", k>> \in cycles' <=> <<"circular", k>> \in cycles
  OBVIOUS
<1>4. ASSUME NEW c \in DOMAIN graph, c = origin PROVE ClassSettled(c)'
  <2>1. <<"S-OWN-004", c>> \notin cycles /\ <<"depth", c>> \notin cycles
    BY <1>4 DEF LoopInv, LoopTyped
  <2>2. /\ <<"S-OWN-004", c>> \in cycles' <=> "S-OWN-004" \in rules
        /\ <<"depth", c>> \in cycles' <=> "depth" \in rules
    BY <1>4, <2>1
  <2>3. rules # {} => "S-OWN-004" \in rules \/ "depth" \in rules
    OBVIOUS
  <2>4. SharedFields' = SharedFields
    BY <1>1, SameGraph
  <2>5. /\ <<"S-OWN-004", c>> \in cycles' => LeadsIntoCycle(SharedFields', c)
        /\ LeadsIntoCycle(SharedFields', c) =>
             <<"S-OWN-004", c>> \in cycles' \/ <<"depth", c>> \in cycles'
        /\ <<"depth", c>> \in cycles' =>
             Cardinality({c} \cup Reach(SharedFields', c)) > DfsLimit
    BY <1>4, <2>2, <2>3, <2>4
  <2> QED BY <2>5 DEF ClassSettled
<1>5. ASSUME NEW c \in DOMAIN graph
      PROVE  /\ c >= origin' => <<"S-OWN-004", c>> \notin cycles' /\ <<"depth", c>> \notin cycles'
             /\ c >= origin' \/ ClassSettled(c)'
  <2>1. c \in Nat /\ origin \in Nat
    BY DEF LoopInv, LoopTyped
  <2>2. CASE c = origin
    BY <1>1, <1>4, <2>1, <2>2
  <2>3. CASE c # origin
    <3>1. c >= origin' => c >= origin
      BY <1>1, <2>1
    <3>2. c >= origin => c >= origin'
      BY <1>1, <2>1, <2>3
    <3>3. ClassSettled(c)' <=> ClassSettled(c)
      BY <1>1, <1>3, <2>3, SameGraph DEF ClassSettled
    <3> QED BY <1>3, <2>3, <3>1, <3>2, <3>3 DEF LoopInv
  <2> QED BY <2>2, <2>3
<1>6. \A k \in DOMAIN parents : <<"circular", k>> \notin cycles'
  BY <1>3 DEF LoopInv
<1> QED BY <1>1, <1>2, <1>5, <1>6 DEF LoopInv

\* The check of a constraint ends, with what it reports.
LEMMA ClimbEnds ==
  ASSUME LoopInv, gpc = "parents", origin \in DOMAIN parents, EndSearch,
         NEW rules \in SUBSET {"parent", "circular"},
         cycles' = cycles \cup {<<r, origin>> : r \in rules},
         "circular" \in rules <=> LeadsIntoCycle(ParentsOf, origin)
  PROVE  LoopInv'
<1>1. /\ gpc' = "parents" /\ path' = <<>> /\ origin' = origin + 1
      /\ graph' = graph /\ parents' = parents /\ gpc' = gpc
  BY DEF EndSearch
<1>2. LoopTyped'
  <2>1. origin \in Nat /\ \A r \in rules : r \in {"S-OWN-004", "depth", "parent", "circular"}
    BY DEF LoopInv, LoopTyped
  <2>2. origin' \in Nat \ {0} /\ LoopNodes' = LoopNodes
    BY <1>1, <2>1 DEF LoopInv, LoopTyped, LoopNodes
  <2>3. cycles' \subseteq {"S-OWN-004", "depth", "parent", "circular"} \X Nat
    <3>1. cycles \subseteq {"S-OWN-004", "depth", "parent", "circular"} \X Nat
      BY DEF LoopInv, LoopTyped
    <3>2. \A r \in rules : <<r, origin>> \in {"S-OWN-004", "depth", "parent", "circular"} \X Nat
      BY <2>1
    <3> QED BY <3>1, <3>2
  <2> QED BY <1>1, <2>2, <2>3 DEF LoopInv, LoopTyped
<1>3. /\ \A c : /\ <<"S-OWN-004", c>> \in cycles' <=> <<"S-OWN-004", c>> \in cycles
               /\ <<"depth", c>> \in cycles' <=> <<"depth", c>> \in cycles
      /\ \A k : k # origin => (<<"circular", k>> \in cycles' <=> <<"circular", k>> \in cycles)
  OBVIOUS
<1>4. ASSUME NEW k \in DOMAIN parents, k = origin PROVE KindSettled(k)'
  <2>1. <<"circular", k>> \notin cycles
    BY <1>4 DEF LoopInv, LoopTyped
  <2>2. <<"circular", k>> \in cycles' <=> "circular" \in rules
    BY <1>4, <2>1
  <2>3. <<"circular", k>> \in cycles' <=> LeadsIntoCycle(ParentsOf', k)
    BY <1>1, <1>4, <2>2, SameGraph
  <2> QED BY <2>3 DEF KindSettled
<1>5. ASSUME NEW k \in DOMAIN parents
      PROVE  /\ k >= origin' => <<"circular", k>> \notin cycles'
             /\ k >= origin' \/ KindSettled(k)'
  <2>1. k \in Nat /\ origin \in Nat
    BY DEF LoopInv, LoopTyped
  <2>2. CASE k = origin
    BY <1>1, <1>4, <2>1, <2>2
  <2>3. CASE k # origin
    <3>1. k >= origin' => k >= origin
      BY <1>1, <2>1
    <3>2. k >= origin => k >= origin'
      BY <1>1, <2>1, <2>3
    <3>3. KindSettled(k)' <=> KindSettled(k)
      BY <1>1, <1>3, <2>3, SameGraph DEF KindSettled
    <3> QED BY <1>3, <2>3, <3>1, <3>2, <3>3 DEF LoopInv
  <2> QED BY <2>2, <2>3
<1>6. ASSUME NEW c \in DOMAIN graph PROVE ClassSettled(c)'
  <2>1. ClassSettled(c)' <=> ClassSettled(c)
    BY <1>1, <1>3, SameGraph DEF ClassSettled
  <2> QED BY <2>1 DEF LoopInv
<1> QED BY <1>1, <1>2, <1>5, <1>6 DEF LoopInv

\* A step within a search, or a walk, reports nothing.
LEMMA SearchGoesOn ==
  ASSUME LoopInv, graph' = graph, parents' = parents, gpc' = gpc, origin' = origin,
         cycles' = cycles,
         gpc = "graph" /\ path' # <<>> => Searching(path', visited'),
         gpc = "parents" /\ path' # <<>> => Len(path') = 1 /\ Walking(path'[1].node, visited')
  PROVE  LoopInv'
<1>1. LoopTyped'
  BY SameGraph DEF LoopInv, LoopTyped
<1>2. /\ \A c : ClassSettled(c)' <=> ClassSettled(c)
      /\ \A k : KindSettled(k)' <=> KindSettled(k)
  BY SameGraph DEF ClassSettled, KindSettled
<1>3. /\ gpc' = "graph" /\ path' # <<>> => Searching(path, visited)'
      /\ gpc' = "parents" /\ path' # <<>> => Len(path') = 1 /\ Walking(path[1].node, visited)'
  BY SameSearch
<1>4. /\ \A c \in DOMAIN graph :
           /\ gpc = "graph" /\ c >= origin => <<"S-OWN-004", c>> \notin cycles
                                              /\ <<"depth", c>> \notin cycles
           /\ (gpc = "graph" /\ c >= origin) \/ ClassSettled(c)'
      /\ \A k \in DOMAIN parents :
           /\ gpc = "graph" \/ (gpc = "parents" /\ k >= origin) => <<"circular", k>> \notin cycles
           /\ gpc = "graph" \/ (gpc = "parents" /\ k >= origin) \/ KindSettled(k)'
  BY <1>2 DEF LoopInv
<1> QED BY <1>1, <1>3, <1>4 DEF LoopInv

\* It holds in the initial states.
LEMMA LoopStarts ==
  ASSUME LoopInit, LoopsAssumption
  PROVE  LoopInv
<1>0. PICK m \in 0..MaxDeclared : \E k \in 0..(MaxDeclared - m) :
        /\ graph \in [1..m -> Targets(1..(m + 1))]
        /\ parents \in [1..k -> 0..(k + 1)]
  BY DEF LoopInit
<1>1. PICK k \in 0..(MaxDeclared - m) :
        /\ graph \in [1..m -> Targets(1..(m + 1))]
        /\ parents \in [1..k -> 0..(k + 1)]
  BY <1>0
<1>2. m \in Nat /\ k \in Nat
  BY DEF LoopsAssumption
<1>3. Targets(1..(m + 1)) \subseteq Seq(1..(m + 1)) /\ Targets(1..(m + 1)) \subseteq Seq(Nat)
  <2>1. ASSUME NEW n \in 0..MaxFields, NEW s \in [1..n -> 1..(m + 1)]
        PROVE s \in Seq(1..(m + 1)) /\ s \in Seq(Nat)
    <3>1. n \in Nat /\ s \in [1..n -> Nat]
      BY DEF LoopsAssumption
    <3> QED BY <3>1, SeqDef
  <2> QED BY <2>1 DEF Targets
<1>4. /\ graph \in Seq(Seq(Nat)) /\ Len(graph) = m /\ DOMAIN graph = 1..m
      /\ \A c \in DOMAIN graph : graph[c] \in Seq(1..(m + 1))
  <2>1. graph \in [1..m -> Seq(Nat)] /\ DOMAIN graph = 1..m
    BY <1>1, <1>3
  <2>2. graph \in Seq(Seq(Nat)) /\ Len(graph) = m
    BY <1>2, <2>1, SeqDef
  <2> QED BY <1>1, <1>3, <2>1, <2>2
<1>5. parents \in Seq(Nat)
  <2>1. parents \in [1..k -> Nat]
    BY <1>1, <1>2
  <2> QED BY <1>2, <2>1, SeqDef
<1>6. LoopTyped
  BY <1>2, <1>4, <1>5 DEF LoopTyped, LoopNodes, LoopInit
<1>7. /\ \A c \in DOMAIN graph : c \in 1..m
      /\ gpc = "graph" /\ origin = 1 /\ path = <<>> /\ cycles = {}
  BY <1>4 DEF LoopInit
<1>8. \A c \in DOMAIN graph : c >= origin
  BY <1>2, <1>7
<1> QED BY <1>6, <1>7, <1>8 DEF LoopInv

\* A search begins with the class itself on the path.
LEMMA SearchBegins ==
  ASSUME LoopTyped, origin \in DOMAIN graph
  PROVE  Searching(<<Enter(origin)>>, {origin})
<1> DEFINE p == <<Enter(origin)>>
<1>1. origin \in LoopNodes
  BY FieldsAre
<1>2. Enter(origin) \in [node : LoopNodes, at : Nat \ {0}]
  BY <1>1 DEF Enter
<1>3. /\ p \in Seq([node : LoopNodes, at : Nat \ {0}]) /\ Len(p) = 1 /\ p # <<>>
      /\ p[1] = Enter(origin)
  BY <1>2
<1>4. p[1].node = origin /\ p[1].at = 1
  BY <1>3 DEF Enter
<1> HIDE DEF p
<1>5. \A i \in 1..Len(p) : i = 1
  BY <1>3
<1>6. On(p) = {origin} /\ Left(p, {origin}) = {}
  <2>1. On(p) = {origin}
    BY <1>3, <1>4, <1>5 DEF On
  <2> QED BY <2>1 DEF Left
<1>7. 1 <= Len(Shared(origin)) + 1 /\ 1..(Len(p) - 1) = {} /\ 1..(p[1].at - 1) = {}
  BY <1>1, <1>3, <1>4, FieldsAre
<1>8. \A i \in 1..Len(p) : p[i].at <= Len(Shared(p[i].node)) + 1
  BY <1>4, <1>5, <1>7
<1>9. \A i, j \in 1..Len(p) : i = j /\ ~(i < j)
  BY <1>5
<1>10. \A i \in 1..Len(p) : 1..(p[i].at - 1) = {}
  BY <1>5, <1>7
<1> QED BY <1>1, <1>3, <1>4, <1>6, <1>7, <1>8, <1>9, <1>10 DEF Searching, p

\* Steps of the search for cycles of shared fields.
LEMMA SearchKeeps ==
  ASSUME LoopInv, LoopsAssumption, BeginSearch \/ VisitTarget \/ LeaveTarget
  PROVE  LoopInv'
<1>1. LoopTyped /\ gpc = "graph"
  BY DEF LoopInv, BeginSearch, VisitTarget, LeaveTarget
<1>2. CASE BeginSearch
  <2>1. origin \in DOMAIN graph
    BY <1>1, <1>2 DEF BeginSearch, LoopTyped
  <2>2. CASE Shared(origin) = <<>>
    <3>1. SharedFields[origin] = {} /\ origin \in LoopNodes
      <4>1. origin \in LoopNodes /\ 1..Len(Shared(origin)) = {}
        BY <1>1, <2>1, <2>2, FieldsAre
      <4> QED BY <1>1, <4>1, FieldsAre
    <3>2. ~LeadsIntoCycle(SharedFields, origin)
      BY <1>1, <3>1, FieldsAre, ReachNothing
    <3>3. EndSearch /\ cycles' = cycles
      BY <1>2, <2>2 DEF BeginSearch
    <3>4. cycles' = cycles \cup {<<r, origin>> : r \in {}}
      BY <3>3
    <3> QED BY <1>1, <2>1, <3>2, <3>3, <3>4, SearchEnds
  <2>3. CASE Shared(origin) # <<>>
    <3>1. /\ path' = <<Enter(origin)>> /\ visited' = {origin}
          /\ UNCHANGED <<graph, parents, gpc, origin, cycles>>
      BY <1>2, <2>3 DEF BeginSearch
    <3>2. Searching(path', visited')
      BY <1>1, <2>1, <3>1, SearchBegins
    <3> QED BY <1>1, <3>1, <3>2, SearchGoesOn
  <2> QED BY <2>2, <2>3
<1>3. CASE VisitTarget
  <2> DEFINE node == Shared(Deepest.node)[Deepest.at]
  <2>1. /\ path # <<>> /\ Searching(path, visited)
        /\ path[Len(path)].at <= Len(Shared(path[Len(path)].node))
        /\ node = Shared(path[Len(path)].node)[path[Len(path)].at]
    BY <1>1, <1>3 DEF VisitTarget, LoopInv, Deepest
  <2>2. origin \in DOMAIN graph
    BY <2>1 DEF Searching
  <2>3. OnPath(node) <=> node \in On(path)
    <3>1. DOMAIN path = 1..Len(path)
      BY <2>1, SearchedIs
    <3> HIDE DEF node
    <3> QED BY <3>1 DEF OnPath, On
  <2>4. CASE Len(path) > DfsLimit /\ ReportLoop({"depth"}) /\ EndSearch
    <3>1. Cardinality({origin} \cup Reach(SharedFields, origin)) > DfsLimit
      BY <1>1, <2>1, <2>4, DeepFound
    <3> QED BY <1>1, <2>2, <2>4, <3>1, SearchEnds DEF ReportLoop
  <2>5. CASE Closes(node) /\ ReportLoop({"S-OWN-004"}) /\ EndSearch
    <3>1. LeadsIntoCycle(SharedFields, origin)
      BY <1>1, <2>1, <2>3, <2>5, CycleFound DEF Closes
    <3> QED BY <1>1, <2>2, <2>5, <3>1, SearchEnds DEF ReportLoop
  <2>6. CASE /\ node \in visited /\ ~Closes(node) /\ path' = NextTarget(path)
             /\ UNCHANGED <<graph, parents, gpc, origin, visited, cycles>>
    <3>1. node \in Left(path, visited)
      BY <2>3, <2>6 DEF Left, Closes
    <3>2. Searching(path', visited')
      BY <1>1, <2>1, <2>6, <3>1, TargetSkipped
    <3> QED BY <1>1, <2>6, <3>2, SearchGoesOn
  <2>7. CASE /\ node \notin visited /\ path' = Append(path, Enter(node))
             /\ visited' = visited \cup {node}
             /\ UNCHANGED <<graph, parents, gpc, origin, cycles>>
    <3>1. Searching(path', visited')
      BY <1>1, <2>1, <2>7, TargetEntered
    <3> QED BY <1>1, <2>7, <3>1, SearchGoesOn
  <2> QED BY <1>3, <2>4, <2>5, <2>6, <2>7 DEF VisitTarget
<1>4. CASE LeaveTarget
  <2>1. /\ path # <<>> /\ Searching(path, visited)
        /\ path[Len(path)].at > Len(Shared(path[Len(path)].node))
        /\ cycles' = cycles
    BY <1>1, <1>4 DEF LeaveTarget, LoopInv, Deepest
  <2>2. origin \in DOMAIN graph
    BY <2>1 DEF Searching
  <2>3. CASE Len(path) = 1
    <3>1. ~LeadsIntoCycle(SharedFields, origin)
      BY <1>1, <2>1, <2>3, NoneFound
    <3>2. EndSearch
      BY <1>4, <2>3 DEF LeaveTarget
    <3>3. cycles' = cycles \cup {<<r, origin>> : r \in {}}
      BY <2>1
    <3> QED BY <1>1, <2>2, <3>1, <3>2, <3>3, SearchEnds
  <2>4. CASE Len(path) # 1
    <3>1. /\ path' = NextTarget(SubSeq(path, 1, Len(path) - 1))
          /\ UNCHANGED <<graph, parents, gpc, origin, visited>>
      BY <1>4, <2>4 DEF LeaveTarget
    <3>2. Searching(path', visited')
      BY <1>1, <2>1, <2>4, <3>1, TargetLeft
    <3> QED BY <1>1, <2>1, <3>1, <3>2, SearchGoesOn
  <2> QED BY <2>3, <2>4
<1> QED BY <1>2, <1>3, <1>4

\* Steps of the walk up the parents of a constraint.
LEMMA WalkKeeps ==
  ASSUME LoopInv, BeginWalk \/ Climb
  PROVE  LoopInv'
<1>1. /\ LoopTyped /\ gpc = "parents"
      /\ ParentsOf \in [DOMAIN parents -> SUBSET DOMAIN parents]
  BY ParentsAre DEF LoopInv, BeginWalk, Climb
<1>2. CASE BeginWalk
  <2>1. origin \in DOMAIN parents
    BY <1>1, <1>2 DEF BeginWalk, LoopTyped
  <2>2. CASE IsConstraint(parents[origin])
    <3>1. /\ path' = <<Enter(parents[origin])>> /\ visited' = {origin}
          /\ UNCHANGED <<graph, parents, gpc, origin, cycles>>
      BY <1>2, <2>2 DEF BeginWalk
    <3>2. Len(path') = 1 /\ path'[1].node = parents[origin]
      BY <3>1 DEF Enter
    <3>3. Walking(path'[1].node, visited')
      BY <2>1, <2>2, <3>1, <3>2, WalkBegins
    <3> QED BY <1>1, <3>1, <3>2, <3>3, SearchGoesOn
  <2>3. CASE ~IsConstraint(parents[origin])
    <3>1. EndSearch /\ ReportLoop({r \in {"parent"} : parents[origin] # NoParent})
      BY <1>2, <2>3 DEF BeginWalk
    <3>2. ~LeadsIntoCycle(ParentsOf, origin)
      <4>1. ParentsOf[origin] = {}
        BY <2>1, <2>3, ParentsAre
      <4> QED BY <1>1, <2>1, <4>1, ReachNothing
    <3> DEFINE rules == {r \in {"parent"} : parents[origin] # NoParent}
    <3>3. cycles' = cycles \cup {<<r, origin>> : r \in rules}
      BY <3>1 DEF ReportLoop
    <3>4. rules \in SUBSET {"parent", "circular"} /\ "circular" \notin rules
      OBVIOUS
    <3> HIDE DEF rules
    <3> QED BY <1>1, <2>1, <3>1, <3>2, <3>3, <3>4, ClimbEnds
  <2> QED BY <2>2, <2>3
<1>3. CASE Climb
  <2> DEFINE here == path[1].node
  <2>1. Len(path) = 1 /\ Walking(here, visited) /\ Deepest.node = here
    BY <1>1, <1>3 DEF Climb, LoopInv, Deepest
  <2>2. origin \in DOMAIN parents
    BY <2>1 DEF Walking
  <2>3. CASE here \in visited /\ ReportLoop({"circular"}) /\ EndSearch
    <3>1. LeadsIntoCycle(ParentsOf, origin)
      BY <2>1, <2>3, WalkCircular
    <3> QED BY <1>1, <2>2, <2>3, <3>1, ClimbEnds DEF ReportLoop
  <2>4. CASE ~IsConstraint(parents[here]) /\ EndSearch /\ UNCHANGED cycles
    <3>1. ~LeadsIntoCycle(ParentsOf, origin)
      BY <2>1, <2>4, WalkEnds
    <3>2. cycles' = cycles \cup {<<r, origin>> : r \in {}}
      BY <2>4
    <3> QED BY <1>1, <2>2, <2>4, <3>1, <3>2, ClimbEnds
  <2>5. CASE /\ IsConstraint(parents[here])
             /\ path' = <<Enter(parents[here])>> /\ visited' = visited \cup {here}
             /\ UNCHANGED <<graph, parents, gpc, origin, cycles>>
    <3>1. Len(path') = 1 /\ path'[1].node = parents[here]
      BY <2>5 DEF Enter
    <3>2. Walking(path'[1].node, visited')
      BY <2>1, <2>5, <3>1, WalkGoesOn
    <3> QED BY <1>1, <2>5, <3>1, <3>2, SearchGoesOn
  <2> QED BY <1>3, <2>1, <2>3, <2>4, <2>5 DEF Climb
<1> QED BY <1>2, <1>3

\* All classes, or all constraints, are checked.
LEMMA TurnKeeps ==
  ASSUME LoopInv, Turn("graph", "parents", graph) \/ Turn("parents", "checked", parents)
  PROVE  LoopInv'
<1>1. /\ path' = <<>> /\ graph' = graph /\ parents' = parents /\ cycles' = cycles
      /\ origin' = 1
      /\ \/ gpc = "graph" /\ gpc' = "parents" /\ origin > Len(graph)
         \/ gpc = "parents" /\ gpc' = "checked" /\ origin > Len(parents)
  BY DEF Turn
<1>2. LoopTyped'
  BY <1>1, SameGraph DEF LoopInv, LoopTyped
<1>3. /\ \A c : ClassSettled(c)' <=> ClassSettled(c)
      /\ \A k : KindSettled(k)' <=> KindSettled(k)
  BY <1>1, SameGraph DEF ClassSettled, KindSettled
<1>4. /\ DOMAIN graph = 1..Len(graph) /\ Len(graph) \in Nat
      /\ DOMAIN parents = 1..Len(parents) /\ Len(parents) \in Nat /\ origin \in Nat
  BY DEF LoopInv, LoopTyped
<1>5. \A c \in DOMAIN graph : ClassSettled(c)
  <2>1. \A c \in DOMAIN graph : gpc = "graph" => ~(c >= origin)
    BY <1>1, <1>4
  <2> QED BY <2>1 DEF LoopInv
<1>6. ASSUME NEW k \in DOMAIN parents
      PROVE  /\ gpc' = "parents" => <<"circular", k>> \notin cycles
             /\ gpc' = "checked" => KindSettled(k)
  <2>1. gpc' = "checked" => gpc = "parents" /\ ~(k >= origin)
    BY <1>1, <1>4
  <2>2. gpc' = "parents" => gpc = "graph"
    BY <1>1
  <2> QED BY <2>1, <2>2 DEF LoopInv
<1>7. gpc' # "graph" /\ (gpc' = "parents" \/ gpc' = "checked")
  BY <1>1
<1>8. \A k \in DOMAIN parents : k >= origin'
  BY <1>1, <1>4
<1> QED BY <1>1, <1>2, <1>3, <1>5, <1>6, <1>7, <1>8 DEF LoopInv

\* Every step keeps the invariant.
LEMMA LoopKeeps ==
  ASSUME LoopInv, LoopsAssumption, [LoopNext]_loopVars
  PROVE  LoopInv'
<1>1. CASE BeginSearch \/ VisitTarget \/ LeaveTarget
  BY <1>1, SearchKeeps
<1>2. CASE BeginWalk \/ Climb
  BY <1>2, WalkKeeps
<1>3. CASE Turn("graph", "parents", graph) \/ Turn("parents", "checked", parents)
  BY <1>3, TurnKeeps
<1>4. CASE UNCHANGED loopVars
  <2>1. UNCHANGED <<graph, parents, gpc, origin, path, visited, cycles>>
    BY <1>4 DEF loopVars
  <2> QED BY <2>1, SearchGoesOn DEF LoopInv
<1> QED BY <1>1, <1>2, <1>3, <1>4 DEF LoopNext

\* All calls done, every class and every constraint is settled.
LEMMA InvLoops ==
  ASSUME LoopInv
  PROVE  LoopsAreReported
<1>1. ASSUME gpc = "checked"
      PROVE  /\ \A c \in DOMAIN graph : ClassSettled(c)
             /\ \A k \in DOMAIN parents : KindSettled(k)
  BY <1>1 DEF LoopInv
<1> QED BY <1>1 DEF LoopsAreReported, ClassSettled, KindSettled

\* Of any number of classes, fields and constraints, and whatever the limit,
\* cycles of shared fields and of parents are reported where they are, and
\* nowhere else, but for chains that are longer than the limit
\* (SemanticAnalyzer.cpp:1530-1600, 846-875).
THEOREM LoopsAreAlwaysReported == LoopSpec => []LoopsAreReported
<1>1. LoopInit => LoopInv
  BY LoopStarts, LoopsAssumption
<1>2. LoopInv /\ [LoopNext]_loopVars => LoopInv'
  BY LoopKeeps, LoopsAssumption
<1>3. LoopInv => LoopsAreReported
  BY InvLoops
<1> QED BY <1>1, <1>2, <1>3, PTL DEF LoopSpec

-----------------------------------------------------------------------------
(* The order of imports.                                                   *)

\* What is below a file, import by import.
More(s) == s \cup {h \in TopoFilePaths : \E x \in s : ImportsDirectly(x, h)}

\* The files up to n imports away from f.
IsLevels(f, n, g) == g = [k \in 0..n |-> IF k = 0 THEN {f} ELSE More(g[k - 1])]

\* The function that Below takes its value from exists, by the least n without one.
LEMMA LevelsAre ==
  ASSUME NEW f, NEW n \in Nat
  PROVE  \E g : IsLevels(f, n, g)
<1> DEFINE T == {m \in Nat : ~\E g : IsLevels(f, m, g)}
<1> SUFFICES ASSUME T # {} PROVE FALSE
  OBVIOUS
<1>1. T \subseteq Nat
  OBVIOUS
<1>2. PICK m \in T : \A y \in T : m <= y
  <2> HIDE DEF T
  <2> QED
    BY <1>1, LeastNumber
<1>3. m \in Nat /\ ~\E g : IsLevels(f, m, g)
  BY <1>2
<1>4. CASE m = 0
  <2> DEFINE g == [k \in 0..0 |-> {f}]
  <2>1. IsLevels(f, 0, g)
    BY DEF IsLevels
  <2> QED
    BY <1>3, <1>4, <2>1
<1>5. CASE m # 0
  <2>1. m - 1 \in Nat /\ m - 1 \notin T
    BY <1>2, <1>3, <1>5
  <2>2. PICK g : IsLevels(f, m - 1, g)
    BY <2>1
  <2> DEFINE h == [k \in 0..m |-> IF k = m THEN More(g[m - 1]) ELSE g[k]]
  <2>3. \A k \in 0..(m - 1) : g[k] = IF k = 0 THEN {f} ELSE More(g[k - 1])
    BY <2>2 DEF IsLevels
  <2>4. \A k \in 0..m : h[k] = IF k = 0 THEN {f} ELSE More(h[k - 1])
    <3> SUFFICES ASSUME NEW k \in 0..m PROVE h[k] = IF k = 0 THEN {f} ELSE More(h[k - 1])
      OBVIOUS
    <3>1. CASE k = m
      BY <1>3, <1>5, <3>1
    <3>2. CASE k = 0
      BY <1>3, <1>5, <2>3, <3>2
    <3>3. CASE k # m /\ k # 0
      <4>1. k \in 0..(m - 1) /\ k - 1 \in 0..m /\ k - 1 # m
        BY <1>3, <3>3
      <4>2. h[k] = g[k] /\ h[k - 1] = g[k - 1]
        BY <3>3, <4>1
      <4> QED
        BY <2>3, <3>3, <4>1, <4>2
    <3> QED
      BY <3>1, <3>2, <3>3
  <2>5. h = [k \in 0..m |-> IF k = 0 THEN {f} ELSE More(h[k - 1])]
    <3>1. DOMAIN h = 0..m /\ h = [k \in 0..m |-> h[k]]
      OBVIOUS
    <3> HIDE DEF h
    <3> QED
      BY <2>4, <3>1
  <2>6. IsLevels(f, m, h)
    <3> HIDE DEF h
    <3> QED
      BY <2>5 DEF IsLevels
  <2> QED
    BY <1>3, <2>6
<1> QED
  BY <1>4, <1>5

\* So Below is what its definition says.
LEMMA BelowIs ==
  ASSUME NEW f
  PROVE  \E g : Below(f) = g[MaxTopoFiles] /\ g[0] = {f}
                /\ \A n \in 0..(MaxTopoFiles - 1) : g[n + 1] = More(g[n])
<1>1. \E g : IsLevels(f, MaxTopoFiles, g)
  BY LevelsAre, FilesAssumption
<1> DEFINE r == CHOOSE g : IsLevels(f, MaxTopoFiles, g)
<1>2. IsLevels(f, MaxTopoFiles, r)
  BY <1>1
<1>3. Below(f) = r[MaxTopoFiles]
  BY DEF Below, IsLevels, More
<1> HIDE DEF r
<1>4. \A k \in 0..MaxTopoFiles : r[k] = IF k = 0 THEN {f} ELSE More(r[k - 1])
  BY <1>2 DEF IsLevels
<1>5. r[0] = {f}
  BY <1>4, FilesAssumption
<1>6. ASSUME NEW n \in 0..(MaxTopoFiles - 1) PROVE r[n + 1] = More(r[n])
  <2>1. n + 1 \in 0..MaxTopoFiles /\ n + 1 # 0 /\ n + 1 - 1 = n
    BY FilesAssumption
  <2> QED
    BY <1>4, <2>1
<1> QED
  BY <1>3, <1>5, <1>6

\* Nothing is below a file that a closed set around it does not hold.
LEMMA BelowLeast ==
  ASSUME NEW f, NEW S, f \in S,
         \A x \in S : \A h \in TopoFilePaths : ImportsDirectly(x, h) => h \in S
  PROVE  Below(f) \subseteq S
<1>1. PICK g : Below(f) = g[MaxTopoFiles] /\ g[0] = {f}
               /\ \A n \in 0..(MaxTopoFiles - 1) : g[n + 1] = More(g[n])
  BY BelowIs
<1> DEFINE T == {n \in 0..MaxTopoFiles : ~(g[n] \subseteq S)}
<1>2. CASE T = {}
  BY <1>1, <1>2, FilesAssumption
<1>3. CASE T # {}
  <2>1. T \subseteq Nat
    OBVIOUS
  <2>2. PICK n \in T : \A y \in T : n <= y
    <3> HIDE DEF T
    <3> QED
      BY <1>3, <2>1, LeastNumber
  <2>3. n # 0
    BY <1>1
  <2>4. n - 1 \in 0..(MaxTopoFiles - 1) /\ n - 1 \notin T /\ (n - 1) + 1 = n
    BY <2>2, <2>3, FilesAssumption
  <2>5. g[n - 1] \subseteq S /\ g[n] = More(g[n - 1])
    BY <1>1, <2>4, FilesAssumption
  <2> QED
    BY <2>2, <2>5 DEF More
<1> QED
  BY <1>2, <1>3

\* A chain of sets of files has two that are the same: then nothing comes any more.
LEMMA BelowCloses ==
  ASSUME NEW f \in TopoFilePaths
  PROVE  /\ f \in Below(f) /\ Below(f) \subseteq TopoFilePaths
         /\ \A x \in Below(f) : \A h \in TopoFilePaths : ImportsDirectly(x, h) => h \in Below(f)
<1> DEFINE M == MaxTopoFiles
<1>0. M \in Nat /\ TopoFilePaths = 1..M /\ M # 0
  BY FilesAssumption DEF TopoFilePaths
<1>1. PICK g : Below(f) = g[M] /\ g[0] = {f} /\ \A n \in 0..(M - 1) : g[n + 1] = More(g[n])
  BY BelowIs
<1> HIDE DEF M
<1>2. \A n \in 0..M : f \in g[n] /\ g[n] \subseteq TopoFilePaths
  <2> DEFINE T == {n \in 0..M : ~(f \in g[n] /\ g[n] \subseteq TopoFilePaths)}
  <2> SUFFICES ASSUME T # {} PROVE FALSE
    OBVIOUS
  <2>1. T \subseteq Nat
    BY <1>0
  <2>2. PICK n \in T : \A y \in T : n <= y
    <3> HIDE DEF T
    <3> QED
      BY <2>1, LeastNumber
  <2>3. n # 0
    BY <1>1
  <2>4. n - 1 \in 0..(M - 1) /\ n - 1 \notin T /\ (n - 1) + 1 = n /\ n - 1 \in 0..M
    BY <1>0, <2>2, <2>3
  <2>5. f \in g[n - 1] /\ g[n - 1] \subseteq TopoFilePaths /\ g[n] = More(g[n - 1])
    BY <1>1, <2>4
  <2> QED
    BY <2>2, <2>5 DEF More
<1>3. \A n \in 0..(M - 1) : g[n] \subseteq g[n + 1]
  BY <1>1 DEF More
<1>4. \A n \in 0..M : IsFiniteSet(g[n]) /\ Cardinality(g[n]) \in Nat /\ Cardinality(g[n]) <= M
  <2> TAKE n \in 0..M
  <2>1. IsFiniteSet(1..M) /\ Cardinality(1..M) = M
    BY <1>0, FS_Interval
  <2>2. g[n] \subseteq 1..M
    BY <1>0, <1>2
  <2>3. IsFiniteSet(g[n]) /\ Cardinality(g[n]) <= Cardinality(1..M)
    BY <2>1, <2>2, FS_Subset
  <2> QED
    BY <2>1, <2>3, FS_CardinalityType
<1>5. \E k \in 0..(M - 1) : g[k + 1] = g[k]
  <2> SUFFICES ASSUME \A k \in 0..(M - 1) : g[k + 1] # g[k] PROVE FALSE
    OBVIOUS
  <2> DEFINE T == {n \in 0..M : Cardinality(g[n]) < n + 1}
  <2>1. T \subseteq Nat /\ M \in T
    BY <1>0, <1>4
  <2>2. PICK n \in T : \A y \in T : n <= y
    <3> HIDE DEF T
    <3> QED
      BY <2>1, LeastNumber
  <2>3. n # 0
    <3>1. Cardinality(g[0]) = 1
      BY <1>1, FS_Singleton
    <3> QED
      BY <2>2, <3>1
  <2>4. n - 1 \in 0..(M - 1) /\ n - 1 \notin T /\ (n - 1) + 1 = n /\ n - 1 \in 0..M
    BY <1>0, <2>2, <2>3
  <2>5. g[n - 1] \subseteq g[n] /\ g[n - 1] # g[n]
    BY <1>3, <2>4
  <2>6. IsFiniteSet(g[n]) /\ Cardinality(g[n - 1]) <= Cardinality(g[n])
        /\ (Cardinality(g[n]) = Cardinality(g[n - 1]) => g[n] = g[n - 1])
    BY <1>4, <2>2, <2>5, FS_Subset
  <2>7. /\ Cardinality(g[n]) \in Nat /\ Cardinality(g[n - 1]) \in Nat
        /\ Cardinality(g[n]) < n + 1 /\ ~(Cardinality(g[n - 1]) < n) /\ n \in Nat
    BY <1>0, <1>4, <2>2, <2>4
  <2> QED
    BY <2>5, <2>6, <2>7
<1>6. PICK k \in 0..(M - 1) : g[k + 1] = g[k]
  BY <1>5
<1>7. \A n \in k..M : g[n] = g[k]
  <2> DEFINE T == {n \in k..M : g[n] # g[k]}
  <2> SUFFICES ASSUME T # {} PROVE FALSE
    OBVIOUS
  <2>1. T \subseteq Nat
    BY <1>0
  <2>2. PICK n \in T : \A y \in T : n <= y
    <3> HIDE DEF T
    <3> QED
      BY <2>1, LeastNumber
  <2>3. n - 1 \in k..M /\ n - 1 \notin T /\ (n - 1) + 1 = n /\ n - 1 \in 0..(M - 1)
    BY <1>0, <2>2
  <2>4. g[n - 1] = g[k] /\ g[n] = More(g[n - 1]) /\ g[k + 1] = More(g[k])
    BY <1>1, <2>3
  <2> QED
    BY <1>6, <2>2, <2>4
<1>8. g[M] = More(g[M]) /\ M \in 0..M
  BY <1>0, <1>1, <1>6, <1>7
<1> QED
  BY <1>1, <1>2, <1>8 DEF More

-----------------------------------------------------------------------------
\* What a program and the stack hold.
Directives == [file : TopoFilePaths, selected : Selections]
CallFrames == [file : TopoFilePaths, at : Nat \ {0}]

\* The state keeps its types.
ImportTyped ==
  /\ \A f \in TopoFilePaths : program[f].imports \in Seq(Directives)
  /\ roots \in Seq({1, 2}) /\ mark \in [TopoFilePaths -> {"new", "open", "done"}]
  /\ stack \in Seq(CallFrames) /\ order \in Seq(TopoFilePaths)

\* What is left to resolve; the root is in the order when the analysis begins.
Phases ==
  /\ fpc # "resolve" \/ failure # "none" => stack = <<>> /\ roots = <<>>
  /\ failure = "none" => mark[1] # "new" \/ \E i \in 1..Len(roots) : roots[i] = 1
  /\ fpc = "analyze" => /\ failure \in {"none", "selection"}
                        /\ \E j \in 1..Len(order) : order[j] = 1

\* The files that are done with are those of the order, behind all they import.
OrderPlaced ==
  /\ \A i, j \in 1..Len(order) : order[i] = order[j] => i = j
  /\ \A i \in 1..Len(order) : mark[order[i]] = "done"
  /\ failure = "none" =>
       \A f \in TopoFilePaths : mark[f] = "done" => \E i \in 1..Len(order) : order[i] = f
  /\ \A i \in 1..Len(order) : \A g \in TopoFilePaths :
       ImportsDirectly(order[i], g) => \E j \in 1..(i - 1) : order[j] = g

\* The open files are those of the calls of discover(), each called for an
\* import of the one below it, with the imports before that one done.
FilesOpened ==
  /\ \A i \in 1..Len(stack) : mark[stack[i].file] = "open"
  /\ failure = "none" =>
       \A f \in TopoFilePaths : mark[f] = "open" => \E i \in 1..Len(stack) : stack[i].file = f
  /\ \A i, j \in 1..Len(stack) : stack[i].file = stack[j].file => i = j

\* Of a call of discover(), the imports before the one it is at are done, but for the
\* one whose own call is above it.
DoneBefore(prog, s, i, m) ==
  \A k \in 1..Len(prog[s[i].file].imports) :
    k < s[i].at =>
      LET f == prog[s[i].file].imports[k].file
      IN m[f] = "done" \/ (i > 1 /\ s[i - 1].file = f)

\* Each call is for an import of the file of the call below it.
Followable ==
  /\ \A i \in 1..Len(stack) : DoneBefore(program, stack, i, mark)
  /\ \A i \in 1..(Len(stack) - 1) : ImportsDirectly(stack[i + 1].file, stack[i].file)
  /\ Len(stack) > 0 => stack[Len(stack)].file \in {1, 2}

\* A cycle is reported of a program that has one.
Cycled == failure = "cycle" => Cyclic(Below(1) \cup Below(2))

\* What holds at each call of the discovery.
ImportInv == ImportTyped /\ Phases /\ OrderPlaced /\ FilesOpened /\ Followable /\ Cycled

\* There are three files at least.
LEMMA FilesAre == 1 \in TopoFilePaths /\ 2 \in TopoFilePaths /\ 3 \in TopoFilePaths
BY FilesAssumption DEF TopoFilePaths

\* A file imports directly what its directives name.
LEMMA ImportIs ==
  ASSUME NEW f \in TopoFilePaths, program[f].imports \in Seq(Directives), NEW g
  PROVE  ImportsDirectly(f, g)
           <=> \E k \in 1..Len(program[f].imports) : program[f].imports[k].file = g
<1>1. Range(program[f].imports)
        = {program[f].imports[k] : k \in 1..Len(program[f].imports)}
  BY DEF Range
<1> QED
  BY <1>1 DEF ImportsDirectly

\* Lists of the model are sequences.
LEMMA ListsAre ==
  ASSUME NEW S, NEW n \in Nat, NEW l \in Lists(S, n)
  PROVE  l \in Seq(S)
<1>1. PICK k \in 0..n : l \in [1..k -> S]
  BY DEF Lists
<1> QED
  BY <1>1

\* The programs of the model are lists of directives.
LEMMA ProgramIs ==
  ASSUME program \in Graphs \cup Chains
  PROVE  \A f \in TopoFilePaths : program[f].imports \in Seq(Directives)
<1>0. {} \in Selections
  BY DEF Selections
<1>1. CASE program \in Graphs
  <2> DEFINE P == {PlainImport(f) : f \in TopoFilePaths}
  <2>1. P \subseteq Directives
    BY <1>0 DEF PlainImport, Directive, Directives
  <2>2. PICK imports \in [TopoFilePaths -> Lists(P, 2)], broken \in {{}, {2}} :
          program = [f \in TopoFilePaths |->
                       [imports |-> imports[f], text |-> Empty, broken |-> f \in broken]]
    BY <1>1 DEF Graphs
  <2> HIDE DEF P
  <2>3. ASSUME NEW f \in TopoFilePaths PROVE program[f].imports \in Seq(Directives)
    <3>1. program[f].imports = imports[f] /\ imports[f] \in Lists(P, 2)
      BY <2>2
    <3>2. imports[f] \in Seq(P)
      BY <3>1, ListsAre
    <3> QED
      BY <2>1, <3>1, <3>2
  <2> QED
    BY <2>3
<1>2. CASE program \in Chains
  <2>1. PICK caller \in Callers, leaf \in Leaves \X Leaves,
             down \in {<<<<Directive(2, s)>>, <<Directive(3, t)>>>> : s, t \in Selections}
                      \cup {<<<<Directive(3, s), Directive(2, t)>>, <<PlainImport(3)>>>> :
                              s, t \in Selections} :
          program = [f \in TopoFilePaths |->
            [imports |-> IF f = 1 THEN down[1] ELSE IF f = 2 THEN down[2] ELSE <<>>,
             text |-> IF f = 1 THEN caller ELSE IF f = 2 THEN leaf[1] ELSE leaf[2],
             broken |-> FALSE]]
    BY <1>2 DEF Chains
  <2>2. /\ \A s \in Selections : Directive(2, s) \in Directives /\ Directive(3, s) \in Directives
        /\ PlainImport(3) \in Directives
    BY <1>0, FilesAre DEF PlainImport, Directive, Directives
  <2>3. down[1] \in Seq(Directives) /\ down[2] \in Seq(Directives)
    <3>1. CASE down \in {<<<<Directive(2, s)>>, <<Directive(3, t)>>>> : s, t \in Selections}
      BY <2>2, <3>1
    <3>2. CASE down \in {<<<<Directive(3, s), Directive(2, t)>>, <<PlainImport(3)>>>> :
                           s, t \in Selections}
      <4>1. PICK s \in Selections, t \in Selections :
              down = <<<<Directive(3, s), Directive(2, t)>>, <<PlainImport(3)>>>>
        BY <3>2
      <4>2. <<Directive(3, s), Directive(2, t)>> \in Seq(Directives)
        BY <2>2
      <4>3. <<PlainImport(3)>> \in Seq(Directives)
        BY <2>2
      <4> QED
        BY <4>1, <4>2, <4>3
    <3> QED
      BY <2>1, <3>1, <3>2
  <2>4. \A f \in TopoFilePaths : program[f].imports =
          IF f = 1 THEN down[1] ELSE IF f = 2 THEN down[2] ELSE <<>>
    BY <2>1
  <2>5. <<>> \in Seq(Directives)
    OBVIOUS
  <2> HIDE DEF Directives
  <2>6. ASSUME NEW f \in TopoFilePaths PROVE program[f].imports \in Seq(Directives)
    <3>1. CASE f = 1
      <4>1. program[f].imports = down[1]
        BY <2>4, <3>1
      <4> QED
        BY <2>3, <4>1
    <3>2. CASE f = 2
      <4>1. program[f].imports = down[2]
        BY <2>4, <3>2
      <4> QED
        BY <2>3, <4>1
    <3>3. CASE f # 1 /\ f # 2
      <4>1. program[f].imports = <<>>
        BY <2>4, <3>3
      <4> QED
        BY <2>5, <4>1
    <3> QED
      BY <3>1, <3>2, <3>3
  <2> QED
    BY <2>6
<1> QED
  BY <1>1, <1>2

\* It holds in the initial states.
LEMMA ImportStarts == ImportInit => ImportInv
<1> SUFFICES ASSUME ImportInit PROVE ImportInv
  OBVIOUS
<1>1. \A f \in TopoFilePaths : program[f].imports \in Seq(Directives)
  BY ProgramIs DEF ImportInit
<1>2. /\ roots = <<1>> \/ roots = <<2, 1>>
      /\ mark = [f \in TopoFilePaths |-> "new"] /\ stack = <<>> /\ order = <<>>
      /\ failure = "none" /\ fpc = "resolve"
  BY DEF ImportInit
<1>3. roots \in Seq({1, 2}) /\ \E i \in 1..Len(roots) : roots[i] = 1
  <2>1. CASE roots = <<1>>
    BY <2>1
  <2>2. CASE roots = <<2, 1>>
    <3>1. Len(roots) = 2 /\ roots[2] = 1
      BY <2>2
    <3> QED
      BY <2>2, <3>1
  <2> QED
    BY <1>2, <2>1, <2>2
<1>4. ImportTyped /\ Phases
  BY <1>1, <1>2, <1>3 DEF ImportTyped, Phases
<1>5. Len(stack) = 0 /\ Len(order) = 0
  BY <1>2
<1>6. OrderPlaced /\ FilesOpened /\ Followable /\ Cycled
  BY <1>2, <1>5 DEF OrderPlaced, FilesOpened, Followable, Cycled
<1> QED
  BY <1>4, <1>6 DEF ImportInv

-----------------------------------------------------------------------------
\* A sequence with a new head, and one with its head replaced.
LEMMA ConsIs ==
  ASSUME NEW S, NEW a \in S, NEW s \in Seq(S)
  PROVE  /\ <<a>> \o s \in Seq(S) /\ Len(<<a>> \o s) = Len(s) + 1 /\ (<<a>> \o s)[1] = a
         /\ \A i \in 2..(Len(s) + 1) : (<<a>> \o s)[i] = s[i - 1]
<1>1. <<a>> \in Seq(S) /\ Len(<<a>>) = 1 /\ <<a>>[1] = a /\ Len(s) \in Nat
  OBVIOUS
<1> QED
  BY <1>1, ConcatProperties

LEMMA ReplaceIs ==
  ASSUME NEW S, NEW a \in S, NEW s \in Seq(S), s # <<>>
  PROVE  /\ <<a>> \o Tail(s) \in Seq(S) /\ Len(<<a>> \o Tail(s)) = Len(s)
         /\ (<<a>> \o Tail(s))[1] = a
         /\ \A i \in 2..Len(s) : (<<a>> \o Tail(s))[i] = s[i]
<1>1. /\ Tail(s) \in Seq(S) /\ Len(Tail(s)) = Len(s) - 1 /\ Len(s) \in Nat \ {0}
      /\ \A i \in 1..Len(Tail(s)) : Tail(s)[i] = s[i + 1]
  BY HeadTailProperties, EmptySeq, LenProperties
<1>2. /\ <<a>> \o Tail(s) \in Seq(S) /\ Len(<<a>> \o Tail(s)) = Len(Tail(s)) + 1
      /\ (<<a>> \o Tail(s))[1] = a
      /\ \A i \in 2..(Len(Tail(s)) + 1) : (<<a>> \o Tail(s))[i] = Tail(s)[i - 1]
  BY <1>1, ConsIs
<1>3. \A i \in 2..Len(s) : i \in 2..(Len(Tail(s)) + 1) /\ i - 1 \in 1..Len(Tail(s)) /\ (i - 1) + 1 = i
  BY <1>1
<1> QED
  BY <1>1, <1>2, <1>3

\* What is below a file depends on the program only.
LEMMA CyclicSame ==
  ASSUME program' = program
  PROVE  Cyclic(Below(1) \cup Below(2))' = Cyclic(Below(1) \cup Below(2))
<1>1. \A f, g : ImportsDirectly(f, g)' = ImportsDirectly(f, g)
  BY DEF ImportsDirectly
<1>2. \A f : Below(f)' = Below(f)
  BY <1>1 DEF Below
<1> QED
  BY <1>1, <1>2 DEF Cyclic

\* A step that ends the discovery with an error.
LEMMA FailKeeps ==
  ASSUME ImportInv, fpc = "resolve", UNCHANGED <<program, order, fpc>>,
         stack' = <<>>, roots' = <<>>, failure' \in {"parse", "cycle"},
         failure' = "cycle" => Cyclic(Below(1) \cup Below(2)),
         mark' = mark \/ \E f \in TopoFilePaths : mark' = [mark EXCEPT ![f] = "done"]
  PROVE  ImportInv'
<1>1. ImportTyped'
  BY DEF ImportInv, ImportTyped
<1>2. Phases'
  BY DEF Phases
<1>3. \A f \in TopoFilePaths : mark[f] = "done" => mark'[f] = "done"
  BY DEF ImportInv, ImportTyped
<1>4. \A i \in 1..Len(order) : order[i] \in TopoFilePaths
  BY DEF ImportInv, ImportTyped
<1>5. OrderPlaced'
  BY <1>3, <1>4 DEF ImportInv, OrderPlaced, ImportsDirectly
<1>6. Len(stack') = 0
  OBVIOUS
<1>7. FilesOpened' /\ Followable'
  BY <1>6 DEF FilesOpened, Followable
<1>8. Cycled'
  BY CyclicSame DEF Cycled
<1> QED
  BY <1>1, <1>2, <1>5, <1>7, <1>8 DEF ImportInv

\* The next root is opened, or was done.
LEMMA RootKeeps ==
  ASSUME ImportInv, TakeRoot
  PROVE  ImportInv'
<1>1. /\ fpc = "resolve" /\ stack = <<>> /\ roots # <<>> /\ UNCHANGED <<program, order, fpc>>
  BY DEF TakeRoot
<1> DEFINE f == Head(roots)
<1>2. failure = "none" /\ ImportTyped /\ Phases /\ OrderPlaced /\ FilesOpened /\ Followable /\ Cycled
  BY <1>1 DEF ImportInv, Phases
<1>3. /\ f = roots[1] /\ f \in {1, 2} /\ f \in TopoFilePaths
      /\ Tail(roots) \in Seq({1, 2}) /\ Len(Tail(roots)) = Len(roots) - 1 /\ Len(roots) \in Nat
      /\ \A i \in 2..Len(roots) : i - 1 \in 1..Len(Tail(roots)) /\ Tail(roots)[i - 1] = roots[i]
  <2>1. roots \in Seq({1, 2})
    BY <1>2 DEF ImportTyped
  <2>2. f = roots[1] /\ f \in {1, 2}
    BY <1>1, <2>1
  <2>3. /\ Tail(roots) \in Seq({1, 2}) /\ Len(Tail(roots)) = Len(roots) - 1
        /\ \A i \in 1..(Len(roots) - 1) : Tail(roots)[i] = roots[i + 1]
    BY <1>1, <2>1, HeadTailProperties, EmptySeq
  <2>4. Len(roots) \in Nat
    BY <2>1
  <2>5. \A i \in 2..Len(roots) : i - 1 \in 1..(Len(roots) - 1) /\ (i - 1) + 1 = i
    BY <2>4
  <2> QED
    BY <2>2, <2>3, <2>4, <2>5, FilesAre
<1> HIDE DEF f
<1>4. mark[1] # "new" \/ f = 1 \/ \E i \in 1..Len(Tail(roots)) : Tail(roots)[i] = 1
  <2>1. CASE mark[1] = "new"
    <3>1. PICK i \in 1..Len(roots) : roots[i] = 1
      BY <1>2, <2>1 DEF Phases
    <3>2. CASE i = 1
      BY <1>3, <3>1, <3>2
    <3>3. CASE i # 1
      <4>1. i \in 2..Len(roots)
        BY <1>3, <3>3
      <4> QED
        BY <1>3, <3>1, <4>1
    <3> QED
      BY <3>2, <3>3
  <2> QED
    BY <2>1
<1>5. CASE mark[f] # "new"
  <2>1. roots' = Tail(roots) /\ UNCHANGED <<mark, stack, failure>>
    BY <1>5 DEF TakeRoot, f
  <2>2. ImportTyped' /\ Phases'
    BY <1>1, <1>2, <1>3, <1>4, <1>5, <2>1 DEF ImportTyped, Phases
  <2>3. OrderPlaced' /\ FilesOpened' /\ Followable' /\ Cycled'
    BY <1>1, <1>2, <2>1 DEF OrderPlaced, FilesOpened, Followable, Cycled, ImportsDirectly
  <2> QED
    BY <2>2, <2>3 DEF ImportInv
<1>6. CASE mark[f] = "new" /\ program[f].broken
  <2>1. failure' = "parse" /\ mark' = [mark EXCEPT ![f] = "done"] /\ stack' = <<>> /\ roots' = <<>>
    BY <1>6 DEF TakeRoot, Discover, f
  <2> QED
    BY <1>1, <1>3, <2>1, FailKeeps
<1>7. CASE mark[f] = "new" /\ ~program[f].broken
  <2>1. /\ mark' = [mark EXCEPT ![f] = "open"] /\ stack' = <<Visit(f)>> \o <<>>
        /\ failure' = failure /\ roots' = Tail(roots)
    BY <1>7 DEF TakeRoot, Discover, f
  <2>2. /\ Visit(f) \in CallFrames /\ stack' \in Seq(CallFrames) /\ Len(stack') = 1 /\ stack'[1] = Visit(f)
        /\ Visit(f).file = f /\ Visit(f).at = 1
    <3>1. Visit(f) \in CallFrames /\ <<>> \in Seq(CallFrames) /\ Visit(f).file = f /\ Visit(f).at = 1
      BY <1>3 DEF Visit, CallFrames
    <3>2. Len(<<>>) = 0
      OBVIOUS
    <3> HIDE DEF CallFrames
    <3> QED
      BY <2>1, <3>1, <3>2, ConsIs
  <2>3. /\ mark \in [TopoFilePaths -> {"new", "open", "done"}]
        /\ order \in Seq(TopoFilePaths)
        /\ \A g \in TopoFilePaths : mark'[g] = IF g = f THEN "open" ELSE mark[g]
    BY <1>2, <2>1 DEF ImportTyped
  <2>4. ImportTyped'
    BY <1>1, <1>2, <1>3, <2>1, <2>2 DEF ImportTyped
  <2>5. Phases'
    BY <1>1, <1>2, <1>3, <1>4, <2>1, <2>3, FilesAre DEF Phases
  <2>6. OrderPlaced'
    <3>1. \A i \in 1..Len(order) : order[i] \in TopoFilePaths /\ mark[order[i]] = "done"
      BY <1>2, <2>3 DEF OrderPlaced
    <3>2. \A i \in 1..Len(order) : mark'[order[i]] = "done"
      BY <1>7, <2>3, <3>1
    <3> QED
      BY <1>1, <1>2, <2>1, <2>3, <3>2 DEF OrderPlaced, ImportsDirectly
  <2>7. FilesOpened'
    <3>1. Len(stack) = 0
      BY <1>1
    <3> QED
      BY <1>2, <1>3, <2>1, <2>2, <2>3, <3>1 DEF FilesOpened
  <2>8. Followable'
    BY <1>3, <2>2 DEF Followable, DoneBefore
  <2>9. Cycled'
    BY <1>2, <2>1 DEF Cycled
  <2> QED
    BY <2>4, <2>5, <2>6, <2>7, <2>8, <2>9 DEF ImportInv
<1> QED
  BY <1>5, <1>6, <1>7

\* What there is of the innermost call, in a step that follows an import.
LEMMA InnermostIs ==
  ASSUME ImportInv, stack # <<>>
  PROVE  /\ fpc = "resolve" /\ failure = "none"
         /\ Len(stack) \in Nat \ {0}
         /\ \A i \in 1..Len(stack) : stack[i] \in CallFrames
         /\ Innermost \in CallFrames
         /\ Len(program[Innermost.file].imports) \in Nat
         /\ ~Followed =>
              /\ Innermost.at \in 1..Len(program[Innermost.file].imports)
              /\ NextImport.file \in TopoFilePaths
              /\ ImportsDirectly(Innermost.file, NextImport.file)
<1>1. fpc = "resolve" /\ failure = "none"
  BY DEF ImportInv, Phases
<1>2. stack \in Seq(CallFrames) /\ \A f \in TopoFilePaths : program[f].imports \in Seq(Directives)
  BY DEF ImportInv, ImportTyped
<1>3. Len(stack) \in Nat \ {0} /\ \A i \in 1..Len(stack) : stack[i] \in CallFrames
  <2> HIDE DEF CallFrames
  <2> QED
    BY <1>2, LenProperties, EmptySeq, ElementOfSeq
<1>4. Innermost \in CallFrames /\ Innermost.file \in TopoFilePaths /\ Innermost.at \in Nat \ {0}
  BY <1>3 DEF Innermost, CallFrames
<1>5. program[Innermost.file].imports \in Seq(Directives)
  BY <1>2, <1>4
<1>6. Len(program[Innermost.file].imports) \in Nat
  BY <1>5
<1>7. ASSUME ~Followed
      PROVE  /\ Innermost.at \in 1..Len(program[Innermost.file].imports)
             /\ NextImport.file \in TopoFilePaths
             /\ ImportsDirectly(Innermost.file, NextImport.file)
  <2>1. Innermost.at \in 1..Len(program[Innermost.file].imports)
    BY <1>4, <1>6, <1>7 DEF Followed
  <2>2. NextImport \in Directives
    BY <1>5, <2>1 DEF NextImport
  <2>3. NextImport.file \in TopoFilePaths
    BY <2>2 DEF Directives
  <2>4. ImportsDirectly(Innermost.file, NextImport.file)
    BY <1>4, <1>5, <2>1, ImportIs DEF NextImport
  <2> QED
    BY <2>1, <2>3, <2>4
<1> QED
  BY <1>1, <1>3, <1>4, <1>6, <1>7

\* The stack with the innermost call at its next import.
Advanced == <<[Innermost EXCEPT !.at = @ + 1]>> \o Tail(stack)

\* Only the place of the innermost call moves.
LEMMA AdvancedIs ==
  ASSUME ImportInv, stack # <<>>
  PROVE  /\ Advanced \in Seq(CallFrames) /\ Len(Advanced) = Len(stack)
         /\ \A i \in 1..Len(stack) : Advanced[i].file = stack[i].file
         /\ Advanced[1].at = stack[1].at + 1
         /\ \A i \in 2..Len(stack) : Advanced[i] = stack[i]
<1> DEFINE a == [Innermost EXCEPT !.at = @ + 1]
<1>1. a \in CallFrames /\ a.file = stack[1].file /\ a.at = stack[1].at + 1
  BY InnermostIs DEF CallFrames, Innermost
<1>2. stack \in Seq(CallFrames)
  BY DEF ImportInv, ImportTyped
<1> HIDE DEF a, CallFrames
<1>3. /\ Advanced \in Seq(CallFrames) /\ Len(Advanced) = Len(stack) /\ Advanced[1] = a
      /\ \A i \in 2..Len(stack) : Advanced[i] = stack[i]
  BY <1>1, <1>2, ReplaceIs DEF Advanced, a
<1>4. ASSUME NEW i \in 1..Len(stack) PROVE Advanced[i].file = stack[i].file
  <2>1. CASE i = 1
    BY <1>1, <1>3, <2>1
  <2>2. CASE i # 1
    <3>1. i \in 2..Len(stack)
      BY <2>2, InnermostIs
    <3> QED
      BY <1>3, <3>1
  <2> QED
    BY <2>1, <2>2
<1> QED
  BY <1>1, <1>3, <1>4

\* An import that is done with.
LEMMA PassKeeps ==
  ASSUME ImportInv, stack # <<>>, ~Followed, mark[NextImport.file] = "done",
         stack' = Advanced, UNCHANGED <<program, roots, mark, order, failure, fpc>>
  PROVE  ImportInv'
<1>1. ImportTyped /\ Phases /\ OrderPlaced /\ FilesOpened /\ Followable /\ Cycled
  BY DEF ImportInv
<1>2. /\ Advanced \in Seq(CallFrames) /\ Len(Advanced) = Len(stack)
      /\ \A i \in 1..Len(stack) : Advanced[i].file = stack[i].file
      /\ Advanced[1].at = stack[1].at + 1
      /\ \A i \in 2..Len(stack) : Advanced[i] = stack[i]
  BY AdvancedIs
<1>3. /\ fpc = "resolve" /\ failure = "none" /\ Len(stack) \in Nat \ {0}
      /\ stack[1] \in CallFrames /\ Len(program[stack[1].file].imports) \in Nat
  BY InnermostIs DEF Innermost
<1>4. ImportTyped'
  BY <1>1, <1>2 DEF ImportTyped
<1>5. Phases' /\ Cycled' /\ OrderPlaced'
  BY <1>1, <1>3 DEF Phases, Cycled, OrderPlaced, ImportsDirectly
<1>6. FilesOpened'
  BY <1>1, <1>2 DEF FilesOpened
<1>7. ASSUME NEW i \in 1..Len(stack), NEW k \in 1..Len(program[stack[i].file].imports),
             k < Advanced[i].at
      PROVE  LET f == program[stack[i].file].imports[k].file
             IN mark[f] = "done" \/ (i > 1 /\ Advanced[i - 1].file = f)
  <2> DEFINE f == program[stack[i].file].imports[k].file
  <2>1. CASE i = 1 /\ k < stack[1].at
    <3>1. mark[f] = "done" \/ (i > 1 /\ stack[i - 1].file = f)
      BY <1>1, <2>1 DEF Followable, DoneBefore
    <3>2. ~(i > 1)
      BY <2>1
    <3> HIDE DEF f
    <3>3. mark[f] = "done"
      BY <3>1, <3>2
    <3> QED
      BY <3>3 DEF f
  <2>2. CASE i = 1 /\ ~(k < stack[1].at)
    <3>1. k = stack[1].at
      BY <1>2, <1>3, <1>7, <2>2 DEF CallFrames
    <3> QED
      BY <2>2, <3>1 DEF NextImport, Innermost
  <2>3. CASE i # 1
    <3>1. i \in 2..Len(stack) /\ i - 1 \in 1..Len(stack)
      BY <1>3, <2>3
    <3>2. k < stack[i].at
      BY <1>2, <1>7, <3>1
    <3>3. mark[f] = "done" \/ (i > 1 /\ stack[i - 1].file = f)
      BY <1>1, <3>2 DEF Followable, DoneBefore
    <3> HIDE DEF f
    <3>4. mark[f] = "done" \/ (i > 1 /\ Advanced[i - 1].file = f)
      BY <1>2, <3>1, <3>3
    <3> QED
      BY <3>4 DEF f
  <2> QED
    BY <2>1, <2>2, <2>3
<1>8. \A i \in 1..(Len(stack) - 1) : i \in 1..Len(stack) /\ i + 1 \in 1..Len(stack)
  BY <1>3
<1>9. \A i \in 1..(Len(stack) - 1) : ImportsDirectly(Advanced[i + 1].file, Advanced[i].file)
  BY <1>1, <1>2, <1>8 DEF Followable
<1>10. Advanced[Len(stack)].file \in {1, 2}
  <2>1. Len(stack) \in 1..Len(stack) /\ Len(stack) > 0
    BY <1>3
  <2> QED
    BY <1>1, <1>2, <2>1 DEF Followable
<1>11. Followable'
  <2>1. \A i \in 1..Len(stack) : DoneBefore(program', Advanced, i, mark')
    BY <1>2, <1>7 DEF DoneBefore
  <2>2. \A x, y : ImportsDirectly(x, y) => ImportsDirectly(x, y)'
    BY DEF ImportsDirectly
  <2> HIDE DEF Advanced
  <2>3. stack' = Advanced /\ Len(stack') = Len(stack)
    BY <1>2
  <2>4. \A i \in 1..(Len(stack') - 1) : ImportsDirectly(stack[i + 1].file, stack[i].file)'
    BY <1>9, <2>2, <2>3
  <2>5. stack'[Len(stack')].file \in {1, 2}
    BY <1>10, <2>3
  <2>6. \A i \in 1..Len(stack') : DoneBefore(program', stack', i, mark')
    BY <2>1, <2>3
  <2> QED
    BY <2>4, <2>5, <2>6 DEF Followable
<1> QED
  BY <1>4, <1>5, <1>6, <1>11 DEF ImportInv

\* A new file.
LEMMA OpenKeeps ==
  ASSUME ImportInv, stack # <<>>, ~Followed, mark[NextImport.file] = "new",
         stack' = <<Visit(NextImport.file)>> \o Advanced,
         mark' = [mark EXCEPT ![NextImport.file] = "open"],
         UNCHANGED <<program, roots, order, failure, fpc>>
  PROVE  ImportInv'
<1> DEFINE g == NextImport.file
           n == Len(stack)
           now == <<Visit(g)>> \o Advanced
<1>1. ImportTyped /\ Phases /\ OrderPlaced /\ FilesOpened /\ Followable /\ Cycled
  BY DEF ImportInv
<1>2. /\ Advanced \in Seq(CallFrames) /\ Len(Advanced) = n
      /\ \A i \in 1..n : Advanced[i].file = stack[i].file
      /\ Advanced[1].at = stack[1].at + 1
      /\ \A i \in 2..n : Advanced[i] = stack[i]
  BY AdvancedIs
<1>3. /\ fpc = "resolve" /\ failure = "none" /\ n \in Nat \ {0}
      /\ stack[1] \in CallFrames /\ Len(program[stack[1].file].imports) \in Nat
      /\ g \in TopoFilePaths /\ ImportsDirectly(stack[1].file, g)
  BY InnermostIs DEF Innermost
<1>4. Visit(g) \in CallFrames /\ Visit(g).file = g /\ Visit(g).at = 1
  BY <1>3 DEF Visit, CallFrames
<1> HIDE DEF Advanced
<1>5. /\ now \in Seq(CallFrames) /\ Len(now) = n + 1 /\ now[1] = Visit(g)
      /\ \A i \in 2..(n + 1) : now[i] = Advanced[i - 1]
  <2> HIDE DEF CallFrames
  <2> QED
    BY <1>2, <1>4, ConsIs
<1>6. /\ mark \in [TopoFilePaths -> {"new", "open", "done"}] /\ mark[g] = "new"
      /\ \A f \in TopoFilePaths : mark'[f] = IF f = g THEN "open" ELSE mark[f]
  BY <1>1 DEF ImportTyped
<1>7. stack' = now
  OBVIOUS
<1> HIDE DEF now
<1>8. \A i \in 2..(n + 1) : i - 1 \in 1..n /\ now[i].file = stack[i - 1].file
  <2>1. \A i \in 2..(n + 1) : i - 1 \in 1..n
    BY <1>3
  <2> QED
    BY <1>2, <1>5, <2>1
<1>9. \A i \in 1..n : stack[i].file \in TopoFilePaths /\ stack[i].file # g
  <2>1. \A i \in 1..n : mark[stack[i].file] = "open" /\ stack[i] \in CallFrames
    BY <1>1, InnermostIs DEF FilesOpened
  <2> QED
    BY <1>6, <2>1 DEF CallFrames
<1>10. ImportTyped'
  BY <1>1, <1>3, <1>5, <1>7 DEF ImportTyped
<1>11. Phases' /\ Cycled'
  BY <1>1, <1>3, <1>6, FilesAre DEF Phases, Cycled
<1>12. OrderPlaced'
  <2>1. \A i \in 1..Len(order) : order[i] \in TopoFilePaths /\ mark[order[i]] = "done"
    <3>1. \A i \in 1..Len(order) : order[i] \in TopoFilePaths
      BY <1>1, ElementOfSeq DEF ImportTyped
    <3> QED
      BY <1>1, <3>1 DEF OrderPlaced
  <2>2. \A i \in 1..Len(order) : mark'[order[i]] = "done"
    BY <1>6, <2>1
  <2> QED
    BY <1>1, <1>3, <1>6, <2>2 DEF OrderPlaced, ImportsDirectly
<1>13. FilesOpened'
  <2>1. \A i \in 1..(n + 1) : mark'[now[i].file] = "open"
    <3> SUFFICES ASSUME NEW i \in 1..(n + 1) PROVE mark'[now[i].file] = "open"
      OBVIOUS
    <3>1. CASE i = 1
      BY <1>3, <1>4, <1>5, <1>6, <3>1
    <3>2. CASE i # 1
      <4>1. i \in 2..(n + 1)
        BY <1>3, <3>2
      <4> QED
        BY <1>1, <1>6, <1>8, <1>9, <4>1 DEF FilesOpened
    <3> QED
      BY <3>1, <3>2
  <2>2. ASSUME NEW f \in TopoFilePaths, mark'[f] = "open"
        PROVE  \E i \in 1..(n + 1) : now[i].file = f
    <3>1. CASE f = g
      <4>1. 1 \in 1..(n + 1)
        BY <1>3
      <4> QED
        BY <1>4, <1>5, <3>1, <4>1
    <3>2. CASE f # g
      <4>1. PICK i \in 1..n : stack[i].file = f
        BY <1>1, <1>3, <1>6, <2>2, <3>2 DEF FilesOpened
      <4>2. i + 1 \in 2..(n + 1) /\ (i + 1) - 1 = i /\ i + 1 \in 1..(n + 1)
        BY <1>3
      <4> QED
        BY <1>8, <4>1, <4>2
    <3> QED
      BY <3>1, <3>2
  <2>3. ASSUME NEW i \in 1..(n + 1), NEW j \in 1..(n + 1), now[i].file = now[j].file
        PROVE  i = j
    <3>1. CASE i = 1 \/ j = 1
      <4>1. now[1].file = g
        BY <1>4, <1>5
      <4>2. \A k \in 1..(n + 1) : k # 1 => now[k].file # g
        <5> SUFFICES ASSUME NEW k \in 1..(n + 1), k # 1 PROVE now[k].file # g
          OBVIOUS
        <5>1. k \in 2..(n + 1)
          BY <1>3
        <5> QED
          BY <1>8, <1>9, <5>1
      <4> QED
        BY <2>3, <3>1, <4>1, <4>2
    <3>2. CASE i # 1 /\ j # 1
      <4>1. i \in 2..(n + 1) /\ j \in 2..(n + 1)
        BY <1>3, <3>2
      <4>2. i - 1 = j - 1
        BY <1>1, <1>8, <2>3, <4>1 DEF FilesOpened
      <4> QED
        BY <4>1, <4>2
    <3> QED
      BY <3>1, <3>2
  <2> QED
    BY <1>5, <1>7, <2>1, <2>2, <2>3, SMTT(30) DEF FilesOpened
<1>14. ASSUME NEW i \in 1..(n + 1), NEW k \in 1..Len(program[now[i].file].imports),
              k < now[i].at
       PROVE  LET f == program[now[i].file].imports[k].file
              IN mark'[f] = "done" \/ (i > 1 /\ now[i - 1].file = f)
  <2> DEFINE f == program[now[i].file].imports[k].file
  <2>0. \A x \in TopoFilePaths : mark[x] = "done" => mark'[x] = "done"
    BY <1>6
  <2>1. i # 1
    BY <1>4, <1>5, <1>14
  <2>2. i \in 2..(n + 1) /\ i - 1 \in 1..n /\ now[i].file = stack[i - 1].file
        /\ now[i] = Advanced[i - 1]
    BY <1>3, <1>5, <1>8, <2>1
  <2>3. f \in TopoFilePaths
    <3>1. program[now[i].file].imports \in Seq(Directives)
      BY <1>1, <1>9, <2>2 DEF ImportTyped
    <3> HIDE DEF Directives
    <3>2. program[now[i].file].imports[k] \in Directives
      BY <3>1, ElementOfSeq
    <3> QED
      BY <3>2 DEF Directives
  <2>4. CASE i = 2 /\ k < stack[1].at
    BY <1>1, <2>0, <2>2, <2>3, <2>4 DEF Followable, DoneBefore
  <2>5. CASE i = 2 /\ ~(k < stack[1].at)
    <3>1. k = stack[1].at
      BY <1>2, <1>3, <1>14, <2>2, <2>5 DEF CallFrames
    <3>2. f = g
      <4>1. now[i].file = stack[1].file
        BY <2>2, <2>5
      <4> QED
        BY <3>1, <4>1 DEF NextImport, Innermost
    <3>3. now[1].file = g
      BY <1>4, <1>5
    <3>4. i > 1 /\ i - 1 = 1
      BY <2>5
    <3> QED
      BY <3>2, <3>3, <3>4
  <2>6. CASE i # 2
    <3>1. i - 1 \in 2..n /\ i - 1 > 1 /\ (i - 1) - 1 = i - 2 /\ i - 1 \in 2..(n + 1)
          /\ i > 1
      BY <1>3, <2>2, <2>6
    <3>2. k < stack[i - 1].at
      BY <1>2, <1>14, <2>2, <3>1
    <3>3. mark[f] = "done" \/ stack[i - 2].file = f
      BY <1>1, <2>2, <3>1, <3>2 DEF Followable, DoneBefore
    <3>4. now[i - 1].file = stack[i - 2].file
      BY <1>8, <3>1
    <3> QED
      BY <2>0, <2>3, <3>1, <3>3, <3>4
  <2> QED
    BY <2>4, <2>5, <2>6
<1>15. \A i \in 1..n : ImportsDirectly(now[i + 1].file, now[i].file)
  <2> SUFFICES ASSUME NEW i \in 1..n PROVE ImportsDirectly(now[i + 1].file, now[i].file)
    OBVIOUS
  <2>1. i + 1 \in 2..(n + 1) /\ (i + 1) - 1 = i
    BY <1>3
  <2>2. now[i + 1].file = stack[i].file
    BY <1>8, <2>1
  <2>3. CASE i = 1
    BY <1>3, <1>4, <1>5, <2>2, <2>3
  <2>4. CASE i # 1
    <3>1. i \in 2..(n + 1) /\ i - 1 \in 1..(n - 1) /\ (i - 1) + 1 = i
      BY <1>3, <2>4
    <3>2. now[i].file = stack[i - 1].file
      BY <1>8, <3>1
    <3> QED
      BY <1>1, <2>2, <3>1, <3>2 DEF Followable
  <2> QED
    BY <2>3, <2>4
<1>16. now[n + 1].file \in {1, 2}
  <2>1. n + 1 \in 2..(n + 1) /\ (n + 1) - 1 = n /\ n > 0
    BY <1>3
  <2> QED
    BY <1>1, <1>8, <2>1 DEF Followable
<1>17. Followable'
  <2>1. n + 1 - 1 = n /\ n + 1 > 0
    BY <1>3
  <2> HIDE DEF n, g, Directives, CallFrames
  <2>2. \A i \in 1..(n + 1) : DoneBefore(program', now, i, mark')
    BY <1>14 DEF DoneBefore
  <2>3. \A x, y : ImportsDirectly(x, y) => ImportsDirectly(x, y)'
    BY DEF ImportsDirectly
  <2>4. \A i \in 1..(Len(stack') - 1) : ImportsDirectly(stack[i + 1].file, stack[i].file)'
    <3>1. Len(stack') - 1 = n
      <4>1. Len(now) - 1 = n
        BY <1>3, <1>5
      <4> QED
        BY <1>7, <4>1
    <3>2. \A i \in 1..n : ImportsDirectly(now[i + 1].file, now[i].file)
      BY <1>15
    <3>3. \A i \in 1..n : stack'[i + 1].file = now[i + 1].file /\ stack'[i].file = now[i].file
      BY <1>7
    <3> QED
      BY <2>3, <3>1, <3>2, <3>3
  <2>5. stack'[Len(stack')].file \in {1, 2}
    BY <1>5, <1>7, <1>16
  <2>6. \A i \in 1..Len(stack') : DoneBefore(program', stack', i, mark')
    BY <1>5, <1>7, <2>2
  <2> QED
    BY <2>4, <2>5, <2>6 DEF Followable
<1> QED
  BY <1>10, <1>11, <1>12, <1>13, <1>17 DEF ImportInv

\* An import that is open closes a cycle: it is below itself.
LEMMA OpenIsCycle ==
  ASSUME ImportInv, stack # <<>>, ~Followed, mark[NextImport.file] = "open"
  PROVE  Cyclic(Below(1) \cup Below(2))
<1> DEFINE g == NextImport.file
           n == Len(stack)
<1>1. /\ failure = "none" /\ n \in Nat \ {0} /\ g \in TopoFilePaths
      /\ ImportsDirectly(stack[1].file, g)
      /\ \A i \in 1..n : stack[i].file \in TopoFilePaths
  BY InnermostIs DEF Innermost, CallFrames
<1>2. FilesOpened /\ Followable
  BY DEF ImportInv
<1>3. PICK p \in 1..n : stack[p].file = g
  BY <1>1, <1>2 DEF FilesOpened
<1>4. /\ \A i \in 1..(n - 1) : ImportsDirectly(stack[i + 1].file, stack[i].file)
      /\ stack[n].file \in {1, 2}
  BY <1>1, <1>2 DEF Followable
<1> HIDE DEF g, n
\* All that is above a call on the stack is below its file.
<1>5. ASSUME NEW S, NEW q \in 1..n, stack[q].file \in S,
             \A x \in S : \A h \in TopoFilePaths : ImportsDirectly(x, h) => h \in S
      PROVE  \A i \in 1..q : stack[i].file \in S
  <2> DEFINE T == {d \in Nat : d < q /\ stack[q - d].file \notin S}
  <2>1. T = {}
    <3> SUFFICES ASSUME T # {} PROVE FALSE
      OBVIOUS
    <3>1. T \subseteq Nat
      OBVIOUS
    <3>2. PICK d \in T : \A y \in T : d <= y
      <4> HIDE DEF T
      <4> QED
        BY <3>1, LeastNumber
    <3>3. d \in Nat /\ d < q /\ stack[q - d].file \notin S
      BY <3>2
    <3>4. d # 0
      BY <1>5, <3>3
    <3>5. d - 1 \in Nat /\ d - 1 < q /\ d - 1 \notin T /\ q - (d - 1) = (q - d) + 1
          /\ q - d \in 1..(n - 1) /\ q - d \in 1..n
      BY <1>1, <3>2, <3>3, <3>4
    <3>6. stack[(q - d) + 1].file \in S
      BY <3>5
    <3> QED
      BY <1>1, <1>4, <1>5, <3>3, <3>5, <3>6
  <2>2. ASSUME NEW i \in 1..q PROVE stack[i].file \in S
    <3>1. q - i \in Nat /\ q - i < q /\ q - (q - i) = i
      BY <1>1
    <3>2. q - i \notin T
      BY <2>1
    <3> QED
      BY <3>1, <3>2
  <2> QED
    BY <2>2
<1>6. stack[1].file \in Below(g)
  <2>1. /\ g \in Below(g)
        /\ \A x \in Below(g) : \A h \in TopoFilePaths : ImportsDirectly(x, h) => h \in Below(g)
    BY <1>1, BelowCloses
  <2>2. \A i \in 1..p : stack[i].file \in Below(g)
    BY <1>3, <1>5, <2>1
  <2> QED
    BY <1>3, <2>2
<1>7. g \in Below(1) \cup Below(2)
  <2> DEFINE r == stack[n].file
  <2>1. r \in TopoFilePaths /\ r \in {1, 2}
    BY <1>1, <1>4
  <2>2. /\ r \in Below(r)
        /\ \A x \in Below(r) : \A h \in TopoFilePaths : ImportsDirectly(x, h) => h \in Below(r)
    BY <2>1, BelowCloses
  <2>3. n \in 1..n
    BY <1>1
  <2>4. \A i \in 1..n : stack[i].file \in Below(r)
    BY <1>5, <2>2, <2>3
  <2>5. g \in Below(r)
    BY <1>3, <2>4
  <2> QED
    BY <2>1, <2>5
<1> QED
  BY <1>1, <1>6, <1>7 DEF Cyclic

\* The import at hand is opened, passed over or closes a cycle.
LEMMA FollowKeeps ==
  ASSUME ImportInv, Follow
  PROVE  ImportInv'
<1> DEFINE g == NextImport.file
<1>1. stack # <<>> /\ ~Followed /\ UNCHANGED <<program, order, cache, fpc>>
  BY DEF Follow
<1>2. /\ fpc = "resolve" /\ failure = "none" /\ g \in TopoFilePaths
      /\ mark \in [TopoFilePaths -> {"new", "open", "done"}]
  BY <1>1, InnermostIs DEF ImportInv, ImportTyped
<1>3. CASE mark[g] = "new" /\ program[g].broken
  <2>1. failure' = "parse" /\ mark' = [mark EXCEPT ![g] = "done"] /\ stack' = <<>> /\ roots' = <<>>
    BY <1>3 DEF Follow, Discover
  <2> QED
    BY <1>1, <1>2, <2>1, FailKeeps
<1>4. CASE mark[g] = "new" /\ ~program[g].broken
  <2>1. /\ mark' = [mark EXCEPT ![g] = "open"] /\ stack' = <<Visit(g)>> \o Advanced
        /\ failure' = failure /\ roots' = roots
    BY <1>4 DEF Follow, Discover, Advanced
  <2> QED
    BY <1>1, <1>4, <2>1, OpenKeeps
<1>5. CASE mark[g] = "open"
  <2>1. failure' = "cycle" /\ stack' = <<>> /\ roots' = <<>> /\ mark' = mark
    BY <1>5 DEF Follow
  <2> QED
    BY <1>1, <1>2, <1>5, <2>1, OpenIsCycle, FailKeeps
<1>6. CASE mark[g] = "done"
  <2>1. stack' = Advanced /\ UNCHANGED <<mark, roots, failure>>
    BY <1>6 DEF Follow, Advanced
  <2> QED
    BY <1>1, <1>6, <2>1, PassKeeps
<1>7. mark[g] \in {"new", "open", "done"}
  BY <1>2
<1> QED
  BY <1>3, <1>4, <1>5, <1>6, <1>7

\* A file that is done with: all it imports is in the order.
LEMMA LeaveKeeps ==
  ASSUME ImportInv, Leave
  PROVE  ImportInv'
<1> DEFINE f == stack[1].file
           n == Len(stack)
           m == Len(order)
<1>1. /\ stack # <<>> /\ Followed /\ UNCHANGED <<program, roots, failure, cache, fpc>>
      /\ order' = Append(order, f) /\ mark' = [mark EXCEPT ![f] = "done"]
      /\ stack' = Tail(stack)
  BY DEF Leave, Innermost
<1>2. ImportTyped /\ Phases /\ OrderPlaced /\ FilesOpened /\ Followable /\ Cycled
  BY DEF ImportInv
<1>3. /\ fpc = "resolve" /\ failure = "none" /\ n \in Nat \ {0}
      /\ \A i \in 1..n : stack[i].file \in TopoFilePaths
      /\ stack[1].at \in Nat /\ Len(program[f].imports) \in Nat
  BY <1>1, InnermostIs DEF Innermost, CallFrames
<1>4. /\ stack' \in Seq(CallFrames) /\ Len(stack') = n - 1
      /\ \A i \in 1..(n - 1) : i + 1 \in 1..n /\ stack'[i] = stack[i + 1]
  <2>1. stack \in Seq(CallFrames)
    BY <1>2 DEF ImportTyped
  <2>2. \A i \in 1..(n - 1) : i + 1 \in 1..n
    BY <1>3
  <2> HIDE DEF CallFrames
  <2> QED
    BY <1>1, <2>1, <2>2, HeadTailProperties, EmptySeq
<1>5. /\ order \in Seq(TopoFilePaths) /\ m \in Nat /\ \A i \in 1..m : order[i] \in TopoFilePaths
      /\ order' \in Seq(TopoFilePaths) /\ Len(order') = m + 1 /\ order'[m + 1] = f
      /\ \A i \in 1..m : order'[i] = order[i]
  <2>1. order \in Seq(TopoFilePaths) /\ f \in TopoFilePaths
    BY <1>2, <1>3 DEF ImportTyped
  <2>2. m \in Nat /\ \A i \in 1..m : order[i] \in TopoFilePaths
    BY <2>1
  <2> HIDE DEF f
  <2> QED
    BY <1>1, <2>1, <2>2, AppendProperties
<1>6. /\ mark \in [TopoFilePaths -> {"new", "open", "done"}] /\ f \in TopoFilePaths
      /\ mark[f] = "open"
      /\ \A g \in TopoFilePaths : mark'[g] = IF g = f THEN "done" ELSE mark[g]
  BY <1>1, <1>2, <1>3 DEF ImportTyped, FilesOpened
<1>7. \A i \in 1..m : order[i] # f
  BY <1>2, <1>6 DEF OrderPlaced
<1>8. \A g \in TopoFilePaths : ImportsDirectly(f, g) => \E j \in 1..m : order[j] = g
  <2> SUFFICES ASSUME NEW g \in TopoFilePaths, ImportsDirectly(f, g)
               PROVE  \E j \in 1..m : order[j] = g
    OBVIOUS
  <2>1. program[f].imports \in Seq(Directives)
    BY <1>2, <1>6 DEF ImportTyped
  <2>2. PICK k \in 1..Len(program[f].imports) : program[f].imports[k].file = g
    BY <1>6, <2>1, ImportIs
  <2>3. k < stack[1].at
    BY <1>1, <1>3, <2>2 DEF Followed, Innermost
  <2>4. DoneBefore(program, stack, 1, mark)
    BY <1>2, <1>3 DEF Followable
  <2>5. mark[g] = "done"
    BY <2>2, <2>3, <2>4 DEF DoneBefore
  <2> QED
    BY <1>2, <1>3, <2>5 DEF OrderPlaced
<1>9. \A x, y : ImportsDirectly(x, y)' = ImportsDirectly(x, y)
  BY <1>1 DEF ImportsDirectly
<1> HIDE DEF f, n, m
<1>10. ImportTyped'
  BY <1>1, <1>2, <1>4, <1>5, <1>6 DEF ImportTyped
<1>11. Phases'
  BY <1>1, <1>2, <1>3, <1>6, FilesAre DEF Phases
<1>12. \A i \in 1..(m + 1) : i \in 1..m \/ i = m + 1
  BY <1>5
<1>13. OrderPlaced'
  <2>1. \A i, j \in 1..(m + 1) : order'[i] = order'[j] => i = j
    <3> SUFFICES ASSUME NEW i \in 1..(m + 1), NEW j \in 1..(m + 1), order'[i] = order'[j]
                 PROVE  i = j
      OBVIOUS
    <3>1. CASE i \in 1..m /\ j \in 1..m
      BY <1>2, <1>5, <3>1 DEF OrderPlaced, m
    <3>2. CASE i = m + 1 \/ j = m + 1
      BY <1>5, <1>7, <1>12, <3>2
    <3> QED
      BY <1>12, <3>1, <3>2
  <2>2. \A i \in 1..(m + 1) : mark'[order'[i]] = "done"
    <3> SUFFICES ASSUME NEW i \in 1..(m + 1) PROVE mark'[order'[i]] = "done"
      OBVIOUS
    <3>1. CASE i \in 1..m
      BY <1>2, <1>5, <1>6, <3>1 DEF OrderPlaced, m
    <3>2. CASE i = m + 1
      BY <1>5, <1>6, <3>2
    <3> QED
      BY <1>12, <3>1, <3>2
  <2>3. \A g \in TopoFilePaths : mark'[g] = "done" => \E i \in 1..(m + 1) : order'[i] = g
    <3> SUFFICES ASSUME NEW g \in TopoFilePaths, mark'[g] = "done"
                 PROVE  \E i \in 1..(m + 1) : order'[i] = g
      OBVIOUS
    <3>1. CASE g = f
      <4>1. m + 1 \in 1..(m + 1)
        BY <1>5
      <4> QED
        BY <1>5, <3>1, <4>1
    <3>2. CASE g # f
      <4>1. PICK i \in 1..m : order[i] = g
        BY <1>2, <1>3, <1>6, <3>2 DEF OrderPlaced, m
      <4>2. i \in 1..(m + 1)
        BY <1>5
      <4> QED
        BY <1>5, <4>1, <4>2
    <3> QED
      BY <3>1, <3>2
  <2>4. ASSUME NEW i \in 1..(m + 1), NEW g \in TopoFilePaths, ImportsDirectly(order'[i], g)
        PROVE  \E j \in 1..(i - 1) : order'[j] = g
    <3>1. CASE i = m + 1
      <4>1. PICK j \in 1..m : order[j] = g
        BY <1>5, <1>8, <2>4, <3>1
      <4>2. j \in 1..(i - 1)
        BY <1>5, <3>1
      <4> QED
        BY <1>5, <4>1, <4>2
    <3>2. CASE i \in 1..m
      <4>1. PICK j \in 1..(i - 1) : order[j] = g
        BY <1>2, <1>5, <2>4, <3>2 DEF OrderPlaced, m
      <4>2. j \in 1..m
        BY <1>5, <3>2
      <4> QED
        BY <1>5, <4>1, <4>2
    <3> QED
      BY <1>12, <3>1, <3>2
  <2> QED
    BY <1>5, <1>9, <2>1, <2>2, <2>3, <2>4 DEF OrderPlaced
<1>14. FilesOpened'
  <2>1. \A i \in 1..(n - 1) : stack'[i].file # f
    <3> SUFFICES ASSUME NEW i \in 1..(n - 1), stack'[i].file = f PROVE FALSE
      OBVIOUS
    <3>1. i + 1 \in 1..n /\ 1 \in 1..n /\ i + 1 # 1 /\ stack[i + 1].file = f
      BY <1>3, <1>4
    <3> QED
      BY <1>2, <3>1 DEF FilesOpened, f, n
  <2>2. \A i \in 1..(n - 1) : mark'[stack'[i].file] = "open"
    BY <1>2, <1>3, <1>4, <1>6, <2>1 DEF FilesOpened, n
  <2>3. ASSUME NEW g \in TopoFilePaths, mark'[g] = "open"
        PROVE  \E i \in 1..(n - 1) : stack'[i].file = g
    <3>1. g # f /\ mark[g] = "open"
      BY <1>6, <2>3
    <3>2. PICK i \in 1..n : stack[i].file = g
      BY <1>2, <1>3, <3>1 DEF FilesOpened, n
    <3>3. i # 1
      BY <3>1, <3>2 DEF f
    <3>4. i - 1 \in 1..(n - 1) /\ (i - 1) + 1 = i
      BY <1>3, <3>3
    <3> QED
      BY <1>4, <3>2, <3>4
  <2>4. ASSUME NEW i \in 1..(n - 1), NEW j \in 1..(n - 1), stack'[i].file = stack'[j].file
        PROVE  i = j
    <3>1. i + 1 = j + 1
      BY <1>2, <1>4, <2>4, SMTT(30) DEF FilesOpened, n
    <3> QED
      BY <3>1
  <2> QED
    BY <1>4, <2>2, <2>3, <2>4 DEF FilesOpened
<1>15. ASSUME NEW i \in 1..(n - 1) PROVE DoneBefore(program', stack', i, mark')
  <2> DEFINE x == stack[i + 1].file
  <2>1. i + 1 \in 1..n /\ stack'[i] = stack[i + 1] /\ x \in TopoFilePaths /\ i + 1 > 1
    BY <1>3, <1>4
  <2>2. program' = program /\ DoneBefore(program, stack, i + 1, mark)
    BY <1>1, <1>2, <2>1 DEF Followable, n
  <2>3. ASSUME NEW k \in 1..Len(program[x].imports), k < stack[i + 1].at
        PROVE  LET g == program[x].imports[k].file
               IN mark'[g] = "done" \/ (i > 1 /\ stack'[i - 1].file = g)
    <3> DEFINE g == program[x].imports[k].file
    <3>1. g \in TopoFilePaths
      <4>1. program[x].imports \in Seq(Directives)
        BY <1>2, <2>1 DEF ImportTyped
      <4> HIDE DEF Directives, x
      <4>2. program[x].imports[k] \in Directives
        BY <4>1, ElementOfSeq
      <4> QED
        BY <4>2 DEF Directives
    <3>2. mark[g] = "done" \/ stack[i].file = g
      <4>1. mark[g] = "done" \/ stack[(i + 1) - 1].file = g
        BY <2>2, <2>3 DEF DoneBefore
      <4>2. (i + 1) - 1 = i
        BY <1>3
      <4> QED
        BY <4>1, <4>2
    <3> HIDE DEF g
    <3>3. CASE mark[g] = "done"
      BY <1>6, <3>1, <3>3 DEF g
    <3>4. CASE stack[i].file = g /\ i = 1
      BY <1>6, <3>1, <3>4 DEF g, f
    <3>5. CASE stack[i].file = g /\ i # 1
      <4>1. i - 1 \in 1..(n - 1) /\ (i - 1) + 1 = i /\ i > 1
        BY <1>3, <3>5
      <4>2. stack'[i - 1] = stack[i]
        BY <1>4, <4>1
      <4> QED
        BY <3>5, <4>1, <4>2 DEF g
    <3> QED
      BY <3>2, <3>3, <3>4, <3>5
  <2> HIDE DEF x
  <2>4. \A k \in 1..Len(program[x].imports) : k < stack[i + 1].at =>
          LET g == program[x].imports[k].file
          IN mark'[g] = "done" \/ (i > 1 /\ stack'[i - 1].file = g)
    BY <2>3
  <2> QED
    BY <2>1, <2>2, <2>4 DEF DoneBefore, x
<1>16. \A i \in 1..(n - 1 - 1) : ImportsDirectly(stack'[i + 1].file, stack'[i].file)
  <2> SUFFICES ASSUME NEW i \in 1..(n - 1 - 1)
               PROVE  ImportsDirectly(stack'[i + 1].file, stack'[i].file)
    OBVIOUS
  <2>1. i \in 1..(n - 1) /\ i + 1 \in 1..(n - 1)
    BY <1>3
  <2>2. stack'[i] = stack[i + 1] /\ stack'[i + 1] = stack[(i + 1) + 1]
    BY <1>4, <2>1
  <2> QED
    BY <1>2, <2>1, <2>2 DEF Followable, n
<1>17. n - 1 > 0 => stack'[n - 1].file \in {1, 2}
  <2> SUFFICES ASSUME n - 1 > 0 PROVE stack'[n - 1].file \in {1, 2}
    OBVIOUS
  <2>1. n - 1 \in 1..(n - 1) /\ (n - 1) + 1 = n /\ n > 0
    BY <1>3
  <2>2. stack'[n - 1] = stack[n]
    BY <1>4, <2>1
  <2> QED
    BY <1>2, <2>1, <2>2 DEF Followable, n
<1>18. Followable'
  BY <1>4, <1>9, <1>15, <1>16, <1>17 DEF Followable
<1>19. Cycled'
  BY <1>1, <1>3 DEF Cycled
<1> QED
  BY <1>10, <1>11, <1>13, <1>14, <1>18, <1>19 DEF ImportInv

\* Every step keeps the invariant.
LEMMA ImportSteps == ImportInv /\ [ImportNext]_importVars => ImportInv'
<1> SUFFICES ASSUME ImportInv, [ImportNext]_importVars PROVE ImportInv'
  OBVIOUS
<1>1. CASE TakeRoot
  BY <1>1, RootKeeps
<1>2. CASE Follow
  BY <1>2, FollowKeeps
<1>3. CASE Leave
  BY <1>3, LeaveKeeps
<1>4. CASE Resolved
  <2>1. /\ fpc = "resolve" /\ stack = <<>> /\ roots = <<>>
        /\ fpc' = IF failure = "none" THEN "analyze" ELSE "rejected"
        /\ UNCHANGED <<program, roots, mark, stack, order, failure, cache>>
    BY <1>4 DEF Resolved
  <2>2. failure = "none" => \E j \in 1..Len(order) : order[j] = 1
    <3> SUFFICES ASSUME failure = "none" PROVE \E j \in 1..Len(order) : order[j] = 1
      OBVIOUS
    <3>1. Len(stack) = 0 /\ Len(roots) = 0
      BY <2>1
    <3>2. mark[1] # "new" /\ mark[1] # "open" /\ mark[1] \in {"new", "open", "done"}
      BY <3>1, FilesAre DEF ImportInv, Phases, FilesOpened, ImportTyped
    <3> QED
      BY <3>2, FilesAre DEF ImportInv, OrderPlaced
  <2>3. Phases'
    BY <2>1, <2>2 DEF ImportInv, Phases
  <2>4. ImportTyped' /\ OrderPlaced' /\ FilesOpened'
    BY <2>1 DEF ImportInv, ImportTyped, OrderPlaced, FilesOpened, ImportsDirectly
  <2>5. Followable'
    BY <2>1 DEF ImportInv, Followable, DoneBefore, ImportsDirectly
  <2>6. Cycled'
    BY <2>1, CyclicSame DEF ImportInv, Cycled
  <2> QED
    BY <2>3, <2>4, <2>5, <2>6 DEF ImportInv
<1>5. CASE Analyze \/ Combine \/ UNCHANGED importVars
  <2>1. /\ UNCHANGED <<program, roots, mark, stack, order>>
        /\ failure' = failure \/ (failure' = "selection" /\ fpc = "analyze")
        /\ fpc' = fpc \/ (fpc = "analyze" /\ fpc' \in {"accepted", "rejected"})
    BY <1>5 DEF Analyze, Combine, importVars
  <2>2. Phases'
    BY <2>1 DEF ImportInv, Phases
  <2>3. ImportTyped' /\ OrderPlaced' /\ FilesOpened'
    BY <2>1 DEF ImportInv, ImportTyped, OrderPlaced, FilesOpened, ImportsDirectly
  <2>4. Followable'
    BY <2>1 DEF ImportInv, Followable, DoneBefore, ImportsDirectly
  <2>5. Cycled'
    BY <2>1, CyclicSame DEF ImportInv, Cycled
  <2> QED
    BY <2>2, <2>3, <2>4, <2>5 DEF ImportInv
<1> QED
  BY <1>1, <1>2, <1>3, <1>4, <1>5 DEF ImportNext

\* In an order in which each file comes behind its imports no file is below one
\* that comes before it: so none is below itself.
LEMMA InvOrders == ImportInv => ModulesAreOrdered
<1> SUFFICES ASSUME ImportInv PROVE ModulesAreOrdered
  OBVIOUS
<1> DEFINE n == Len(order)
<1>1. ImportTyped /\ Phases /\ OrderPlaced /\ Cycled
  BY DEF ImportInv
<1>2. /\ n \in Nat /\ DOMAIN order = 1..n /\ \A i \in 1..n : order[i] \in TopoFilePaths
      /\ Range(order) = {order[i] : i \in 1..n}
  BY <1>1 DEF ImportTyped, Range
<1>3. /\ \A i, j \in 1..n : order[i] = order[j] => i = j
      /\ \A i \in 1..n : \A g \in TopoFilePaths :
           ImportsDirectly(order[i], g) => \E j \in 1..(i - 1) : order[j] = g
  BY <1>1 DEF OrderPlaced
<1> HIDE DEF n
<1>4. IsInjective(order)
  BY <1>2, <1>3 DEF IsInjective
<1>5. ASSUME NEW i \in 1..n
      PROVE  Below(order[i]) \subseteq {order[j] : j \in 1..i}
  <2> DEFINE S == {order[j] : j \in 1..i}
  <2>1. order[i] \in S
    BY <1>2
  <2>2. ASSUME NEW x \in S, NEW h \in TopoFilePaths, ImportsDirectly(x, h) PROVE h \in S
    <3>1. PICK j \in 1..i : x = order[j]
      BY <2>2
    <3>2. j \in 1..n
      BY <1>2, <3>1
    <3>3. PICK k \in 1..(j - 1) : order[k] = h
      BY <1>3, <2>2, <3>1, <3>2
    <3>4. k \in 1..i
      BY <1>2, <3>1, <3>3
    <3> QED
      BY <3>3, <3>4
  <2> HIDE DEF S
  <2>3. Below(order[i]) \subseteq S
    BY <2>1, <2>2, BelowLeast
  <2> QED
    BY <2>3 DEF S
<1>6. ~Cyclic(Range(order))
  <2> SUFFICES ASSUME Cyclic(Range(order)) PROVE FALSE
    OBVIOUS
  <2>1. PICK i \in 1..n : \E g \in Below(order[i]) : ImportsDirectly(g, order[i])
    BY <1>2 DEF Cyclic
  <2>2. PICK g \in Below(order[i]) : ImportsDirectly(g, order[i])
    BY <2>1
  <2>3. PICK j \in 1..i : g = order[j]
    BY <1>5, <2>1, <2>2
  <2>4. j \in 1..n /\ order[i] \in TopoFilePaths
    BY <1>2, <2>1, <2>3
  <2>5. PICK k \in 1..(j - 1) : order[k] = order[i]
    BY <1>3, <2>2, <2>3, <2>4
  <2>6. k \in 1..n /\ k # i
    BY <1>2, <2>1, <2>3, <2>5
  <2> QED
    BY <1>3, <2>1, <2>5, <2>6
<1>7. ASSUME fpc = "analyze" PROVE Below(1) \subseteq Range(order)
  <2>1. PICK j \in 1..n : order[j] = 1
    BY <1>1, <1>7 DEF Phases, n
  <2>2. Below(1) \subseteq {order[k] : k \in 1..j}
    BY <1>5, <2>1
  <2>3. \A k \in 1..j : k \in 1..n
    BY <1>2, <2>1
  <2> QED
    BY <1>2, <2>2, <2>3
<1>8. failure = "cycle" => Cyclic(Below(1) \cup Below(2))
  BY <1>1 DEF Cycled
<1> HIDE DEF ImportInv
<1> QED
  BY <1>2, <1>3, <1>4, <1>6, <1>7, <1>8 DEF ModulesAreOrdered

(***************************************************************************)
(* The files are analysed each once and behind all they import, nothing    *)
(* below the root is missed, and a cycle is reported only where there is   *)
(* one (ImportResolver::discover()), for any number of files.  That what   *)
(* is below a file is closed after as many steps as there are files is a   *)
(* counting argument (BelowCloses).                                        *)
(***************************************************************************)
THEOREM ModulesAlwaysOrdered == ImportSpec => []ModulesAreOrdered
<1>1. ImportInit => ImportInv
  BY ImportStarts
<1>2. ImportInv /\ [ImportNext]_importVars => ImportInv'
  BY ImportSteps
<1>3. ImportInv => ModulesAreOrdered
  BY InvOrders
<1> QED
  BY <1>1, <1>2, <1>3, PTL DEF ImportSpec

-----------------------------------------------------------------------------
(* The calls of imported functions.                                        *)

\* What the files of the model declare and call: at most one function each.
SymbolNames == {f0, f1, member}
CalledNames == {<<"f">>, <<"n", "f">>, <<"m", "f">>, <<"T", "f">>}
TextsTyped ==
  \A f \in TopoFilePaths :
    /\ \A d, e \in program[f].text.decl : d = e
    /\ \A d \in program[f].text.decl : d.name \in SymbolNames
    /\ program[f].text.at \in {<<"n">>, <<"n", "m">>}
    /\ program[f].text.call \in CalledNames \cup {NoCall}

\* Nothing is declared, or one function.
OneAtMost(d) == (\A x, y \in d : x = y) /\ \A x \in d : x.name \in SymbolNames

LEMMA DeclarationsAre ==
  /\ OneAtMost({})
  /\ \A n \in SymbolNames : OneAtMost(Hidden(n)) /\ \A v : OneAtMost(Declare(n, v))
BY DEF OneAtMost, Declare, Hidden

\* So the programs of the model have such texts.
LEMMA TextsAre ==
  ASSUME program \in Graphs \cup Chains
  PROVE  TextsTyped
<1> DEFINE Fine(t) == /\ \A d, e \in t.decl : d = e
                      /\ \A d \in t.decl : d.name \in SymbolNames
                      /\ t.at \in {<<"n">>, <<"n", "m">>}
                      /\ t.call \in CalledNames \cup {NoCall}
<1>0. f0 \in SymbolNames /\ f1 \in SymbolNames /\ member \in SymbolNames
  BY DEF SymbolNames
<1>1. ASSUME NEW d, OneAtMost(d),
             NEW at \in {<<"n">>, <<"n", "m">>}, NEW call \in CalledNames \cup {NoCall}
      PROVE  Fine(Text(d, at, call))
  <2>1. (\A x, y \in d : x = y) /\ (\A x \in d : x.name \in SymbolNames)
    BY <1>1 DEF OneAtMost
  <2>2. /\ Text(d, at, call).decl = d /\ Text(d, at, call).at = at
        /\ Text(d, at, call).call = call
    BY DEF Text
  <2> QED
    BY <2>1, <2>2
<1>2. Fine(Empty)
  <2>1. Empty = Text({}, <<"n">>, NoCall)
    BY DEF Empty
  <2> HIDE DEF Fine
  <2> QED
    BY <1>1, <2>1, DeclarationsAre
<1>3. \A t \in Leaves : Fine(t)
  <2> SUFFICES ASSUME NEW t \in Leaves PROVE Fine(t)
    OBVIOUS
  <2> HIDE DEF Fine
  <2>1. CASE t = Empty
    BY <1>2, <2>1
  <2>2. CASE t # Empty
    <3>1. PICK d \in {Declare(f0, "public"), Declare(f0, "internal"), Declare(f1, "public"),
                      Hidden(f0), Declare(member, "public"), Hidden(member)} :
            t = Text(d, <<"n">>, NoCall)
      BY <2>2 DEF Leaves
    <3>2. OneAtMost(d)
      BY <1>0, <3>1, DeclarationsAre
    <3> QED
      BY <1>1, <3>1, <3>2
  <2> QED
    BY <2>1, <2>2
<1>4. \A t \in Callers : Fine(t)
  <2> SUFFICES ASSUME NEW t \in Callers PROVE Fine(t)
    OBVIOUS
  <2> HIDE DEF Fine
  <2>1. PICK d \in {{}, Declare(f0, "public"), Declare(f0, "internal")},
             at \in {<<"n">>, <<"n", "m">>}, call \in CalledNames : t = Text(d, at, call)
    BY DEF Callers, CalledNames
  <2>2. OneAtMost(d)
    BY <1>0, <2>1, DeclarationsAre
  <2> QED
    BY <1>1, <2>1, <2>2
<1> HIDE DEF Fine
<1>5. CASE program \in Graphs
  <2>1. PICK imports \in [TopoFilePaths -> Lists({PlainImport(f) : f \in TopoFilePaths}, 2)],
             broken \in {{}, {2}} :
          program = [f \in TopoFilePaths |->
                       [imports |-> imports[f], text |-> Empty, broken |-> f \in broken]]
    BY <1>5 DEF Graphs
  <2>2. \A f \in TopoFilePaths : program[f].text = Empty
    BY <2>1
  <2>3. \A f \in TopoFilePaths : Fine(program[f].text)
    BY <1>2, <2>2
  <2> QED
    BY <2>3 DEF Fine, TextsTyped
<1>6. ASSUME program \in Chains, NEW f \in TopoFilePaths PROVE Fine(program[f].text)
  <2>1. PICK caller \in Callers, leaf \in Leaves \X Leaves,
             down \in {<<<<Directive(2, s)>>, <<Directive(3, t)>>>> : s, t \in Selections}
                      \cup {<<<<Directive(3, s), Directive(2, t)>>, <<PlainImport(3)>>>> :
                              s, t \in Selections} :
          program = [g \in TopoFilePaths |->
            [imports |-> IF g = 1 THEN down[1] ELSE IF g = 2 THEN down[2] ELSE <<>>,
             text |-> IF g = 1 THEN caller ELSE IF g = 2 THEN leaf[1] ELSE leaf[2],
             broken |-> FALSE]]
    BY <1>6 DEF Chains
  <2>2. program[f].text = IF f = 1 THEN caller ELSE IF f = 2 THEN leaf[1] ELSE leaf[2]
    BY <2>1
  <2>3. leaf[1] \in Leaves /\ leaf[2] \in Leaves
    OBVIOUS
  <2> QED
    BY <1>3, <1>4, <2>2, <2>3
<1> QED
  BY <1>5, <1>6 DEF Fine, TextsTyped

-----------------------------------------------------------------------------
\* Of what is seen through an import x, the part that file g takes.
Taken(g, x, D) ==
  {d \in D : /\ Effective(d) # "internal"
             /\ x.selected = {} \/ Last(d.name) \in x.selected
             /\ \A o \in program[g].text.decl : o.name # d.name}
\* What file g sees when its imports see what r says.
Looks(g, r) ==
  program[g].text.decl \cup UNION {Taken(g, x, r[x.file]) : x \in Range(program[g].imports)}
\* What the files see through up to n imports.
IsSees(n, s) ==
  s = [k \in 0..n |-> [g \in TopoFilePaths |->
         program[g].text.decl
         \cup IF k = 0 THEN {}
              ELSE UNION {Taken(g, x, s[k - 1][x.file]) : x \in Range(program[g].imports)}]]
\* And what they declare.
Declared == [g \in TopoFilePaths |-> program[g].text.decl]
Further(r) == [g \in TopoFilePaths |-> Looks(g, r)]

\* Each of the imports of a file is a file.
LEMMA ImportedIs ==
  ASSUME ImportTyped, NEW g \in TopoFilePaths
  PROVE  /\ Range(program[g].imports)
              = {program[g].imports[k] : k \in 1..Len(program[g].imports)}
         /\ \A x \in Range(program[g].imports) :
              x \in Directives /\ x.file \in TopoFilePaths /\ ImportsDirectly(g, x.file)
<1>1. program[g].imports \in Seq(Directives)
  BY DEF ImportTyped
<1>2. Range(program[g].imports) = {program[g].imports[k] : k \in 1..Len(program[g].imports)}
  BY <1>1 DEF Range
<1>3. \A x \in Range(program[g].imports) : x \in Directives
  BY <1>1, <1>2
<1> QED
  BY <1>2, <1>3 DEF ImportsDirectly, Directives

\* The definition, level by level.
LEMMA LevelIs ==
  ASSUME NEW n \in Nat, NEW s
  PROVE  IsSees(n, s) <=> s = [k \in 0..n |-> IF k = 0 THEN Declared ELSE Further(s[k - 1])]
<1> DEFINE A(k) == [g \in TopoFilePaths |->
         program[g].text.decl
         \cup IF k = 0 THEN {}
              ELSE UNION {Taken(g, x, s[k - 1][x.file]) : x \in Range(program[g].imports)}]
           B(k) == IF k = 0 THEN Declared ELSE Further(s[k - 1])
<1>1. ASSUME NEW k \in 0..n PROVE A(k) = B(k)
  <2>1. CASE k = 0
    BY <2>1 DEF Declared
  <2>2. CASE k # 0
    <3>1. A(k) = [g \in TopoFilePaths |-> Looks(g, s[k - 1])]
      BY <2>2 DEF Looks
    <3> QED
      BY <2>2, <3>1 DEF Further
  <2> QED
    BY <2>1, <2>2
<1>2. IsSees(n, s) <=> s = [k \in 0..n |-> A(k)]
  BY DEF IsSees
<1> HIDE DEF A, B
<1>3. [k \in 0..n |-> A(k)] = [k \in 0..n |-> B(k)]
  BY <1>1
<1> QED
  BY <1>2, <1>3 DEF B

\* The function Sees takes its value from exists, by the least n without one.
LEMMA SeesExists ==
  ASSUME NEW n \in Nat
  PROVE  \E s : IsSees(n, s)
<1> DEFINE T == {m \in Nat : ~\E s : IsSees(m, s)}
<1> SUFFICES ASSUME T # {} PROVE FALSE
  OBVIOUS
<1>1. T \subseteq Nat
  OBVIOUS
<1>2. PICK m \in T : \A y \in T : m <= y
  <2> HIDE DEF T
  <2> QED
    BY <1>1, LeastNumber
<1>3. m \in Nat /\ ~\E s : IsSees(m, s)
  BY <1>2
<1>4. CASE m = 0
  <2> DEFINE s == [k \in 0..0 |-> Declared]
  <2>1. s = [k \in 0..0 |-> IF k = 0 THEN Declared ELSE Further(s[k - 1])]
    OBVIOUS
  <2> HIDE DEF s
  <2>2. IsSees(0, s)
    BY <2>1, LevelIs
  <2> QED
    BY <1>3, <1>4, <2>2
<1>5. CASE m # 0
  <2>1. m - 1 \in Nat /\ m - 1 \notin T
    BY <1>2, <1>3, <1>5
  <2>2. PICK r : IsSees(m - 1, r)
    BY <2>1
  <2>3. \A k \in 0..(m - 1) : r[k] = IF k = 0 THEN Declared ELSE Further(r[k - 1])
    <3>1. r = [k \in 0..(m - 1) |-> IF k = 0 THEN Declared ELSE Further(r[k - 1])]
      BY <2>1, <2>2, LevelIs
    <3> QED
      BY <3>1
  <2> DEFINE s == [k \in 0..m |-> IF k = m THEN Further(r[m - 1]) ELSE r[k]]
  <2>4. \A k \in 0..m : s[k] = IF k = 0 THEN Declared ELSE Further(s[k - 1])
    <3> SUFFICES ASSUME NEW k \in 0..m
                 PROVE  s[k] = IF k = 0 THEN Declared ELSE Further(s[k - 1])
      OBVIOUS
    <3>1. CASE k = m
      BY <1>3, <1>5, <3>1
    <3>2. CASE k = 0
      BY <1>3, <1>5, <2>3, <3>2
    <3>3. CASE k # m /\ k # 0
      <4>1. k \in 0..(m - 1) /\ k - 1 \in 0..m /\ k - 1 # m
        BY <1>3, <3>3
      <4>2. s[k] = r[k] /\ s[k - 1] = r[k - 1]
        BY <3>3, <4>1
      <4> QED
        BY <2>3, <3>3, <4>1, <4>2
    <3> QED
      BY <3>1, <3>2, <3>3
  <2>5. s = [k \in 0..m |-> IF k = 0 THEN Declared ELSE Further(s[k - 1])]
    <3>1. DOMAIN s = 0..m /\ s = [k \in 0..m |-> s[k]]
      OBVIOUS
    <3> HIDE DEF s
    <3> QED
      BY <2>4, <3>1
  <2> HIDE DEF s
  <2>6. IsSees(m, s)
    BY <1>3, <2>5, LevelIs
  <2> QED
    BY <1>3, <2>6
<1> QED
  BY <1>4, <1>5

\* So Sees is what its definition says.
LEMMA SeesIs ==
  \E s : /\ \A g \in TopoFilePaths : Sees(g) = s[MaxTopoFiles][g]
         /\ s[0] = Declared
         /\ \A k \in 0..MaxTopoFiles : k # 0 => s[k] = Further(s[k - 1])
<1>1. \E s : IsSees(MaxTopoFiles, s)
  BY SeesExists, FilesAssumption
<1> DEFINE r == CHOOSE s : IsSees(MaxTopoFiles, s)
<1>2. IsSees(MaxTopoFiles, r)
  BY <1>1
<1>3. \A g \in TopoFilePaths : Sees(g) = r[MaxTopoFiles][g]
  BY DEF Sees, IsSees, Taken
<1> HIDE DEF r
<1>4. \A k \in 0..MaxTopoFiles : r[k] = IF k = 0 THEN Declared ELSE Further(r[k - 1])
  <2>1. r = [k \in 0..MaxTopoFiles |-> IF k = 0 THEN Declared ELSE Further(r[k - 1])]
    BY <1>2, LevelIs, FilesAssumption
  <2> QED
    BY <2>1
<1>5. 0 \in 0..MaxTopoFiles
  BY FilesAssumption
<1> QED
  BY <1>3, <1>4, <1>5

\* What a file sees through its imports is decided by what they see.
LEMMA LooksSame ==
  ASSUME NEW g, NEW r, NEW s, \A x \in Range(program[g].imports) : r[x.file] = s[x.file]
  PROVE  Looks(g, r) = Looks(g, s)
<1>1. {Taken(g, x, r[x.file]) : x \in Range(program[g].imports)}
        = {Taken(g, x, s[x.file]) : x \in Range(program[g].imports)}
  OBVIOUS
<1> QED
  BY <1>1 DEF Looks

\* A file is in the order once at most.
LEMMA OrderFits ==
  ASSUME ImportTyped, OrderPlaced
  PROVE  Len(order) \in Nat /\ Len(order) <= MaxTopoFiles
<1>1. order \in [1..Len(order) -> TopoFilePaths] /\ Len(order) \in Nat
  BY DEF ImportTyped
<1>2. order \in Injection(1..Len(order), 1..MaxTopoFiles)
  BY <1>1 DEF OrderPlaced, Injection, IsInjective, TopoFilePaths
<1>3. \A m \in Nat : IsFiniteSet(1..m) /\ Cardinality(1..m) = m
  BY FS_Interval
<1>4. Cardinality(1..Len(order)) <= Cardinality(1..MaxTopoFiles)
  BY <1>2, <1>3, FS_Injection, FilesAssumption
<1> QED
  BY <1>1, <1>3, <1>4, FilesAssumption

\* What the files see.
Seen == [g \in TopoFilePaths |-> Sees(g)]

\* As many imports away as there are files in front of it, nothing comes any
\* more for a file of the order: what it sees is what it sees through its imports.
LEMMA SeesFixed ==
  ASSUME ImportTyped, OrderPlaced, NEW i \in 1..Len(order)
  PROVE  Sees(order[i]) = Looks(order[i], Seen)
<1> DEFINE M == MaxTopoFiles
<1>1. PICK s : /\ \A g \in TopoFilePaths : Sees(g) = s[M][g]
               /\ s[0] = Declared
               /\ \A k \in 0..M : k # 0 => s[k] = Further(s[k - 1])
  BY SeesIs
<1>2. Len(order) \in Nat /\ Len(order) <= M /\ M \in Nat
  BY OrderFits, FilesAssumption
<1>3. \A j \in 1..Len(order) : order[j] \in TopoFilePaths
  BY DEF ImportTyped
<1> HIDE DEF M
<1>4. \A j \in 1..Len(order) : \A n \in (j - 1)..M : s[n][order[j]] = Looks(order[j], s[M])
  <2> DEFINE T == {j \in 1..Len(order) :
                     \E n \in (j - 1)..M : s[n][order[j]] # Looks(order[j], s[M])}
  <2> SUFFICES ASSUME T # {} PROVE FALSE
    OBVIOUS
  <2>1. T \subseteq Nat
    BY <1>2
  <2>2. PICK j \in T : \A y \in T : j <= y
    <3> HIDE DEF T
    <3> QED
      BY <2>1, LeastNumber
  <2>3. PICK n \in (j - 1)..M : s[n][order[j]] # Looks(order[j], s[M])
    BY <2>2
  <2>4. j \in 1..Len(order) /\ order[j] \in TopoFilePaths
    BY <1>3, <2>2
  <2>5. \A x \in Range(program[order[j]].imports) :
          \E i2 \in 1..(j - 1) : order[i2] = x.file
    <3> TAKE x \in Range(program[order[j]].imports)
    <3>1. x.file \in TopoFilePaths /\ ImportsDirectly(order[j], x.file)
      BY <2>4, ImportedIs
    <3> QED
      BY <2>4, <3>1 DEF OrderPlaced
  <2>6. CASE n = 0
    <3>1. j = 1 /\ Range(program[order[j]].imports) = {}
      BY <1>2, <2>3, <2>4, <2>5, <2>6
    <3>2. Looks(order[j], s[M]) = program[order[j]].text.decl
      BY <3>1 DEF Looks
    <3>3. s[n][order[j]] = program[order[j]].text.decl
      BY <1>1, <2>4, <2>6 DEF Declared
    <3> QED
      BY <2>3, <3>2, <3>3
  <2>7. CASE n # 0
    <3>1. n \in 0..M /\ n - 1 \in 0..M /\ j \in Nat /\ n - 1 >= j - 2
      BY <1>2, <2>3, <2>4, <2>7
    <3>2. s[n][order[j]] = Looks(order[j], s[n - 1])
      <4>1. s[n] = Further(s[n - 1])
        BY <1>1, <2>7, <3>1
      <4> QED
        BY <2>4, <4>1 DEF Further
    <3>3. ASSUME NEW x \in Range(program[order[j]].imports)
          PROVE  s[n - 1][x.file] = s[M][x.file]
      <4>1. PICK i2 \in 1..(j - 1) : order[i2] = x.file
        BY <2>5
      <4>2. i2 \in 1..Len(order) /\ i2 \notin T
        BY <1>2, <2>2, <2>4, <4>1
      <4>3. n - 1 \in (i2 - 1)..M /\ M \in (i2 - 1)..M
        BY <1>2, <3>1, <4>1, <4>2
      <4> QED
        BY <4>1, <4>2, <4>3
    <3>4. Looks(order[j], s[n - 1]) = Looks(order[j], s[M])
      BY <3>3, LooksSame
    <3> QED
      BY <2>3, <3>2, <3>4
  <2> QED
    BY <2>6, <2>7
<1>5. Sees(order[i]) = Looks(order[i], s[M])
  <2>1. M \in (i - 1)..M
    BY <1>2
  <2> QED
    BY <1>1, <1>3, <1>4, <2>1
<1>6. Looks(order[i], s[M]) = Looks(order[i], Seen)
  <2>1. \A x \in Range(program[order[i]].imports) : s[M][x.file] = Seen[x.file]
    BY <1>1, <1>3, ImportedIs DEF Seen
  <2> QED
    BY <2>1, LooksSame
<1> QED
  BY <1>5, <1>6

-----------------------------------------------------------------------------
\* A table and what a file sees name the same, and the same of it is external.
Names(D) == {d.name : d \in D}
Openly(D) == {d \in D : Effective(d) # "internal"}
TableAgrees(t, D) ==
  DOMAIN t = Names(D) /\ External(t) = Names(Openly(D)) /\ DOMAIN t \subseteq SymbolNames

\* An import brings what is external of a table, or of it what it selects.
LEMMA ChosenIs ==
  ASSUME NEW t, NEW sel
  PROVE  /\ \A q : q \in DOMAIN Chosen(t, sel)
                     <=> q \in External(t) /\ (sel = {} \/ Last(q) \in sel)
         /\ \A q \in DOMAIN Chosen(t, sel) : Chosen(t, sel)[q].vis # "internal"
<1>1. CASE sel = {}
  <2>1. Chosen(t, sel) = [q \in External(t) |-> t[q]]
    BY <1>1 DEF Chosen, Only
  <2> QED
    BY <1>1, <2>1 DEF External
<1>2. CASE sel # {}
  <2>1. Chosen(t, sel) = [q \in {p \in External(t) : Last(p) \in sel} |-> t[q]]
    BY <1>2 DEF Chosen, Only
  <2> QED
    BY <1>2, <2>1 DEF External
<1> QED
  BY <1>1, <1>2

\* One import more is merged.
MergeImport(f, i, t) ==
  IF program[f].imports[i].file \in DOMAIN cache
  THEN Into(t, Chosen(cache[program[f].imports[i].file], program[f].imports[i].selected))
  ELSE t
IsMerged(f, n, s) ==
  s = [i \in 0..n |-> IF i = 0 THEN NoSymbols ELSE MergeImport(f, i, s[i - 1])]

\* The function Imported takes its value from exists.
LEMMA MergedExists ==
  ASSUME NEW f, NEW n \in Nat
  PROVE  \E s : IsMerged(f, n, s)
<1> DEFINE T == {m \in Nat : ~\E s : IsMerged(f, m, s)}
<1> SUFFICES ASSUME T # {} PROVE FALSE
  OBVIOUS
<1>1. T \subseteq Nat
  OBVIOUS
<1>2. PICK m \in T : \A y \in T : m <= y
  <2> HIDE DEF T
  <2> QED
    BY <1>1, LeastNumber
<1>3. m \in Nat /\ ~\E s : IsMerged(f, m, s)
  BY <1>2
<1>4. CASE m = 0
  <2> DEFINE s == [k \in 0..0 |-> NoSymbols]
  <2>1. IsMerged(f, 0, s)
    BY DEF IsMerged
  <2> QED
    BY <1>3, <1>4, <2>1
<1>5. CASE m # 0
  <2>1. m - 1 \in Nat /\ m - 1 \notin T
    BY <1>2, <1>3, <1>5
  <2>2. PICK r : IsMerged(f, m - 1, r)
    BY <2>1
  <2>3. \A k \in 0..(m - 1) : r[k] = IF k = 0 THEN NoSymbols ELSE MergeImport(f, k, r[k - 1])
    BY <2>2 DEF IsMerged
  <2> DEFINE s == [k \in 0..m |-> IF k = m THEN MergeImport(f, m, r[m - 1]) ELSE r[k]]
  <2>4. \A k \in 0..m : s[k] = IF k = 0 THEN NoSymbols ELSE MergeImport(f, k, s[k - 1])
    <3> SUFFICES ASSUME NEW k \in 0..m
                 PROVE  s[k] = IF k = 0 THEN NoSymbols ELSE MergeImport(f, k, s[k - 1])
      OBVIOUS
    <3>1. CASE k = m
      BY <1>3, <1>5, <3>1
    <3>2. CASE k = 0
      BY <1>3, <1>5, <2>3, <3>2
    <3>3. CASE k # m /\ k # 0
      <4>1. k \in 0..(m - 1) /\ k - 1 \in 0..m /\ k - 1 # m
        BY <1>3, <3>3
      <4>2. s[k] = r[k] /\ s[k - 1] = r[k - 1]
        BY <3>3, <4>1
      <4> QED
        BY <2>3, <3>3, <4>1, <4>2
    <3> QED
      BY <3>1, <3>2, <3>3
  <2>5. IsMerged(f, m, s)
    <3>1. DOMAIN s = 0..m /\ s = [k \in 0..m |-> s[k]]
      OBVIOUS
    <3> HIDE DEF s
    <3> QED
      BY <2>4, <3>1 DEF IsMerged
  <2> QED
    BY <1>3, <2>5
<1> QED
  BY <1>4, <1>5

\* So Imported is what its definition says.
LEMMA MergedIs ==
  ASSUME NEW f, Len(program[f].imports) \in Nat
  PROVE  \E s : /\ Imported(f) = s[Len(program[f].imports)] /\ s[0] = NoSymbols
                /\ \A k \in 1..Len(program[f].imports) : s[k] = MergeImport(f, k, s[k - 1])
<1> DEFINE n == Len(program[f].imports)
           r == CHOOSE s : IsMerged(f, n, s)
<1>1. IsMerged(f, n, r)
  BY MergedExists
<1>2. Imported(f) = r[n]
  BY DEF Imported, IsMerged, MergeImport
<1> HIDE DEF r
<1>3. \A k \in 0..n : r[k] = IF k = 0 THEN NoSymbols ELSE MergeImport(f, k, r[k - 1])
  BY <1>1 DEF IsMerged
<1>4. r[0] = NoSymbols
  BY <1>3
<1>5. \A k \in 1..n : r[k] = MergeImport(f, k, r[k - 1])
  BY <1>3
<1> QED
  BY <1>2, <1>4, <1>5

\* What is imported is what the imports give, and all of it is external.
LEMMA ImportedHas ==
  ASSUME ImportTyped, NEW f \in TopoFilePaths,
         \A x \in Range(program[f].imports) : x.file \in DOMAIN cache
  PROVE  /\ \A q : q \in DOMAIN Imported(f) <=>
              \E x \in Range(program[f].imports) : q \in DOMAIN Chosen(cache[x.file], x.selected)
         /\ External(Imported(f)) = DOMAIN Imported(f)
<1> DEFINE n == Len(program[f].imports)
           D(k) == LET x == program[f].imports[k] IN DOMAIN Chosen(cache[x.file], x.selected)
<1>0. program[f].imports \in Seq(Directives)
  BY DEF ImportTyped
<1>1. n \in Nat /\ Range(program[f].imports) = {program[f].imports[k] : k \in 1..n}
  <2>1. Range(program[f].imports) = {program[f].imports[k] : k \in 1..n}
    BY ImportedIs, Zenon
  <2>2. n \in Nat
    BY <1>0
  <2> QED
    BY <2>1, <2>2
<1>2. PICK s : /\ Imported(f) = s[n] /\ s[0] = NoSymbols
               /\ \A k \in 1..n : s[k] = MergeImport(f, k, s[k - 1])
  BY <1>1, MergedIs
<1>3. \A k \in 1..n : s[k] = Into(s[k - 1], Chosen(cache[program[f].imports[k].file],
                                                   program[f].imports[k].selected))
  BY <1>1, <1>2 DEF MergeImport
<1> DEFINE Holds(k) == /\ \A q : q \in DOMAIN s[k] <=> \E i \in 1..k : q \in D(i)
                       /\ \A q \in DOMAIN s[k] : s[k][q].vis # "internal"
<1>4. Holds(0)
  <2>1. DOMAIN s[0] = {}
    BY <1>2 DEF NoSymbols
  <2> QED
    BY <2>1
<1>5. ASSUME NEW k \in 1..n, Holds(k - 1) PROVE Holds(k)
  <2> DEFINE u == Chosen(cache[program[f].imports[k].file], program[f].imports[k].selected)
  <2>1. /\ DOMAIN s[k] = DOMAIN s[k - 1] \cup DOMAIN u
        /\ \A q \in DOMAIN s[k - 1] : s[k][q] = s[k - 1][q]
        /\ \A q \in DOMAIN u : q \notin DOMAIN s[k - 1] => s[k][q] = u[q]
    <3>1. s[k] = Into(s[k - 1], u)
      BY <1>3
    <3> HIDE DEF u
    <3> QED
      BY <3>1 DEF Into
  <2>2. D(k) = DOMAIN u /\ \A q \in DOMAIN u : u[q].vis # "internal"
    BY ChosenIs
  <2> HIDE DEF u
  <2>3. \A i : i \in 1..k <=> i \in 1..(k - 1) \/ i = k
    BY <1>1
  <2> HIDE DEF D
  <2>4. \A q : q \in DOMAIN s[k] <=> \E i \in 1..k : q \in D(i)
    BY <1>5, <2>1, <2>2, <2>3
  <2>5. \A q \in DOMAIN s[k] : s[k][q].vis # "internal"
    BY <1>5, <2>1, <2>2
  <2> QED
    BY <2>4, <2>5
<1>6. Holds(n)
  <2> HIDE DEF Holds
  <2> DEFINE T == {k \in 0..n : ~Holds(k)}
  <2> SUFFICES ASSUME T # {} PROVE FALSE
    BY <1>1
  <2>1. T \subseteq Nat
    BY <1>1
  <2>2. PICK k \in T : \A y \in T : k <= y
    <3> HIDE DEF T
    <3> QED
      BY <2>1, LeastNumber
  <2>3. k # 0
    BY <1>4, <2>2
  <2>4. k \in 1..n /\ k - 1 \in 0..n /\ k - 1 \notin T
    BY <1>1, <2>2, <2>3
  <2> QED
    BY <1>5, <2>2, <2>4
<1>7. \A q : q \in DOMAIN Imported(f) <=>
        \E x \in Range(program[f].imports) : q \in DOMAIN Chosen(cache[x.file], x.selected)
  BY <1>1, <1>2, <1>6
<1>8. External(Imported(f)) = DOMAIN Imported(f)
  BY <1>2, <1>6 DEF External
<1> QED
  BY <1>7, <1>8

\* What a file declares itself is in its table, as what it is.
LEMMA OwnIs ==
  ASSUME TextsTyped, NEW f \in TopoFilePaths
  PROVE  /\ DOMAIN Own(f) = Names(program[f].text.decl)
         /\ \A d \in program[f].text.decl : Own(f)[d.name].vis = Effective(d)
<1> DEFINE decl == program[f].text.decl
<1>1. Own(f) = [q \in Names(decl) |->
                  Symbol(f, Effective(CHOOSE d \in decl : d.name = q))]
  BY DEF Own, Names
<1>2. ASSUME NEW d \in decl PROVE Own(f)[d.name].vis = Effective(d)
  <2> DEFINE e == CHOOSE e \in decl : e.name = d.name
  <2>1. e \in decl
    OBVIOUS
  <2>2. e = d
    BY <2>1 DEF TextsTyped
  <2>3. Own(f)[d.name] = Symbol(f, Effective(e))
    BY <1>1 DEF Names
  <2> HIDE DEF e
  <2> QED
    BY <2>2, <2>3 DEF Symbol
<1> QED
  BY <1>1, <1>2

\* The table of a file agrees with what it sees, when those of its imports do.
LEMMA TableIs ==
  ASSUME ImportTyped, OrderPlaced, TextsTyped, NEW i \in 1..Len(order),
         \A x \in Range(program[order[i]].imports) :
           x.file \in DOMAIN cache /\ TableAgrees(cache[x.file], Sees(x.file))
  PROVE  TableAgrees(TableOf(order[i]), Sees(order[i]))
<1> DEFINE f == order[i]
           decl == program[f].text.decl
           Comes(q) == \E x \in Range(program[f].imports) :
                         q \in DOMAIN Chosen(cache[x.file], x.selected)
<1>1. f \in TopoFilePaths /\ Sees(f) = Looks(f, Seen)
  BY SeesFixed DEF ImportTyped
<1>2. \A x \in Range(program[f].imports) : x.file \in TopoFilePaths /\ Seen[x.file] = Sees(x.file)
  BY <1>1, ImportedIs DEF Seen
<1>3. ASSUME NEW x \in Range(program[f].imports), NEW q
      PROVE  q \in DOMAIN Chosen(cache[x.file], x.selected)
               <=> \E d \in Seen[x.file] : /\ d.name = q /\ Effective(d) # "internal"
                                           /\ x.selected = {} \/ Last(d.name) \in x.selected
  <2>1. External(cache[x.file]) = Names(Openly(Seen[x.file]))
    BY <1>2 DEF TableAgrees
  <2>2. q \in DOMAIN Chosen(cache[x.file], x.selected)
          <=> q \in Names(Openly(Seen[x.file])) /\ (x.selected = {} \/ Last(q) \in x.selected)
    BY <2>1, ChosenIs
  <2> QED
    BY <2>2 DEF Names, Openly
<1>4. \A d : d \in Sees(f) <=> d \in decl \/ \E x \in Range(program[f].imports) :
                                              d \in Taken(f, x, Seen[x.file])
  BY <1>1 DEF Looks
<1>5. \A q : q \in Names(Sees(f)) <=> q \in Names(decl) \/ Comes(q)
  <2> SUFFICES ASSUME NEW q PROVE q \in Names(Sees(f)) <=> q \in Names(decl) \/ Comes(q)
    OBVIOUS
  <2>1. ASSUME q \in Names(Sees(f)), q \notin Names(decl) PROVE Comes(q)
    <3>1. PICK d \in Sees(f) : d.name = q
      BY <2>1 DEF Names
    <3>2. d \notin decl
      BY <2>1, <3>1 DEF Names
    <3>3. PICK x \in Range(program[f].imports) : d \in Taken(f, x, Seen[x.file])
      BY <1>4, <3>2
    <3> QED
      BY <1>3, <3>1, <3>3 DEF Taken
  <2>2. ASSUME Comes(q), q \notin Names(decl) PROVE q \in Names(Sees(f))
    <3>1. PICK x \in Range(program[f].imports) : q \in DOMAIN Chosen(cache[x.file], x.selected)
      BY <2>2
    <3>2. PICK d \in Seen[x.file] : /\ d.name = q /\ Effective(d) # "internal"
                                    /\ x.selected = {} \/ Last(d.name) \in x.selected
      BY <1>3, <3>1
    <3>3. d \in Taken(f, x, Seen[x.file])
      BY <2>2, <3>2 DEF Taken, Names
    <3> QED
      BY <1>4, <3>2, <3>3 DEF Names
  <2>3. q \in Names(decl) => q \in Names(Sees(f))
    BY <1>4 DEF Names
  <2> HIDE DEF Comes
  <2> QED
    BY <2>1, <2>2, <2>3
<1>6. \A q : q \in Names(Openly(Sees(f)))
               <=> q \in Names(Openly(decl)) \/ (Comes(q) /\ q \notin Names(decl))
  <2> SUFFICES ASSUME NEW q
               PROVE  q \in Names(Openly(Sees(f)))
                        <=> q \in Names(Openly(decl)) \/ (Comes(q) /\ q \notin Names(decl))
    OBVIOUS
  <2>1. ASSUME q \in Names(Openly(Sees(f))), q \notin Names(Openly(decl))
        PROVE  Comes(q) /\ q \notin Names(decl)
    <3>1. PICK d \in Sees(f) : d.name = q /\ Effective(d) # "internal"
      BY <2>1 DEF Names, Openly
    <3>2. d \notin decl
      BY <2>1, <3>1 DEF Names, Openly
    <3>3. PICK x \in Range(program[f].imports) : d \in Taken(f, x, Seen[x.file])
      BY <1>4, <3>2
    <3>4. q \notin Names(decl)
      BY <3>1, <3>3 DEF Taken, Names
    <3> QED
      BY <1>3, <3>1, <3>3, <3>4 DEF Taken
  <2>2. ASSUME Comes(q), q \notin Names(decl) PROVE q \in Names(Openly(Sees(f)))
    <3>1. PICK x \in Range(program[f].imports) : q \in DOMAIN Chosen(cache[x.file], x.selected)
      BY <2>2
    <3>2. PICK d \in Seen[x.file] : /\ d.name = q /\ Effective(d) # "internal"
                                    /\ x.selected = {} \/ Last(d.name) \in x.selected
      BY <1>3, <3>1
    <3>3. d \in Taken(f, x, Seen[x.file])
      BY <2>2, <3>2 DEF Taken, Names
    <3> QED
      BY <1>4, <3>2, <3>3 DEF Names, Openly
  <2>3. q \in Names(Openly(decl)) => q \in Names(Openly(Sees(f)))
    BY <1>4 DEF Names, Openly
  <2> HIDE DEF Comes
  <2> QED
    BY <2>1, <2>2, <2>3
<1>7. /\ \A q : q \in DOMAIN Imported(f) <=> Comes(q)
      /\ External(Imported(f)) = DOMAIN Imported(f)
  BY <1>1, ImportedHas
<1>8. /\ DOMAIN Own(f) = Names(decl)
      /\ \A d \in decl : Own(f)[d.name].vis = Effective(d)
  BY <1>1, OwnIs
<1> HIDE DEF Comes
<1>9. /\ DOMAIN TableOf(f) = Names(decl) \cup DOMAIN Imported(f)
      /\ \A q \in Names(decl) : TableOf(f)[q] = Own(f)[q]
      /\ \A q \in DOMAIN Imported(f) : q \notin Names(decl) => TableOf(f)[q] = Imported(f)[q]
  BY <1>7, <1>8 DEF TableOf, Into, Only
<1>10. DOMAIN TableOf(f) = Names(Sees(f))
  BY <1>5, <1>7, <1>9
<1>11. \A q : q \in External(TableOf(f))
                <=> q \in Names(Openly(decl)) \/ (Comes(q) /\ q \notin Names(decl))
  <2> SUFFICES ASSUME NEW q
               PROVE  q \in External(TableOf(f))
                        <=> q \in Names(Openly(decl)) \/ (Comes(q) /\ q \notin Names(decl))
    OBVIOUS
  <2>1. CASE q \in Names(decl)
    <3>1. PICK d \in decl : d.name = q
      BY <2>1 DEF Names
    <3>2. TableOf(f)[q].vis = Effective(d) /\ q \in DOMAIN TableOf(f)
      BY <1>8, <1>9, <2>1, <3>1
    <3>3. \A e \in decl : e = d
      BY <1>1 DEF TextsTyped
    <3> QED
      BY <2>1, <3>1, <3>2, <3>3 DEF External, Names, Openly
  <2>2. CASE q \notin Names(decl)
    <3>1. q \notin Names(Openly(decl))
      BY <2>2 DEF Names, Openly
    <3>2. q \in DOMAIN TableOf(f) <=> Comes(q)
      BY <1>7, <1>9, <2>2
    <3>3. Comes(q) => TableOf(f)[q].vis # "internal"
      BY <1>7, <1>9, <2>2 DEF External
    <3> QED
      BY <2>2, <3>1, <3>2, <3>3 DEF External
  <2> QED
    BY <2>1, <2>2
<1>12. DOMAIN TableOf(f) \subseteq SymbolNames
  <2> SUFFICES ASSUME NEW q \in DOMAIN TableOf(f) PROVE q \in SymbolNames
    OBVIOUS
  <2>1. CASE q \in Names(decl)
    BY <1>1, <2>1 DEF Names, TextsTyped
  <2>2. CASE q \notin Names(decl)
    <3>1. PICK x \in Range(program[f].imports) : q \in DOMAIN Chosen(cache[x.file], x.selected)
      BY <1>7, <1>9, <2>2 DEF Comes
    <3>2. q \in External(cache[x.file])
      BY <3>1, ChosenIs
    <3> QED
      BY <3>1, <3>2 DEF External, TableAgrees
  <2> QED
    BY <2>1, <2>2
<1> QED
  BY <1>6, <1>10, <1>11, <1>12 DEF TableAgrees

-----------------------------------------------------------------------------
\* What stands in two sequences, one behind the other.
HasItem(s, x) == \E i \in DOMAIN s : s[i] = x

LEMMA JoinHas ==
  ASSUME NEW S, NEW s \in Seq(S), NEW t \in Seq(S), NEW x
  PROVE  HasItem(s \o t, x) <=> HasItem(s, x) \/ HasItem(t, x)
<1>1. /\ DOMAIN s = 1..Len(s) /\ DOMAIN t = 1..Len(t) /\ Len(s) \in Nat /\ Len(t) \in Nat
      /\ DOMAIN (s \o t) = 1..(Len(s) + Len(t))
      /\ \A i \in 1..(Len(s) + Len(t)) :
           (s \o t)[i] = IF i <= Len(s) THEN s[i] ELSE t[i - Len(s)]
  OBVIOUS
<1>2. ASSUME NEW i \in 1..(Len(s) + Len(t)), (s \o t)[i] = x
      PROVE  (\E j \in 1..Len(s) : s[j] = x) \/ (\E j \in 1..Len(t) : t[j] = x)
  <2>1. CASE i <= Len(s)
    BY <1>1, <1>2, <2>1
  <2>2. CASE ~(i <= Len(s))
    <3>1. i - Len(s) \in 1..Len(t) /\ t[i - Len(s)] = x
      BY <1>1, <1>2, <2>2
    <3> QED
      BY <3>1
  <2> QED
    BY <2>1, <2>2
<1>3. ASSUME NEW j \in 1..Len(s), s[j] = x PROVE \E i \in 1..(Len(s) + Len(t)) : (s \o t)[i] = x
  <2>1. j \in 1..(Len(s) + Len(t)) /\ (s \o t)[j] = x
    BY <1>1, <1>3
  <2> QED
    BY <2>1
<1>4. ASSUME NEW j \in 1..Len(t), t[j] = x PROVE \E i \in 1..(Len(s) + Len(t)) : (s \o t)[i] = x
  <2>1. Len(s) + j \in 1..(Len(s) + Len(t)) /\ (s \o t)[Len(s) + j] = x
    BY <1>1, <1>4
  <2> QED
    BY <2>1
<1> QED
  BY <1>1, <1>2, <1>3, <1>4 DEF HasItem

\* Names are of one word or two.
NameWords == {"n", "m", "T", "f"}

\* Which are sequences of words.
LEMMA NamesAre ==
  ASSUME NEW a \in NameWords, NEW b \in NameWords
  PROVE  /\ <<a>> \in Seq(NameWords) /\ Len(<<a>>) = 1
         /\ <<a, b>> \in Seq(NameWords) /\ Len(<<a, b>>) = 2
<1> HIDE DEF NameWords
<1> QED
  OBVIOUS

\* The candidates of a call are its name in the namespace of the caller, in each
\* around it and in none; in none only when it is qualified, and every name that
\* is declared is.
LEMMA FoundIs ==
  ASSUME NEW at \in {<<"n">>, <<"n", "m">>}, NEW call \in CalledNames,
         NEW t, DOMAIN t \subseteq SymbolNames
  PROVE  Found(t, at, call) = {}
           <=> \A k \in 0..Len(at) : SubSeq(at, 1, k) \o call \notin DOMAIN t
<1> DEFINE S == Seq(NameWords)
           alone == IF Len(call) > 1 THEN <<call>> ELSE <<>>
           around == [i \in 1..(Len(at) - 1) |-> SubSeq(at, 1, Len(at) - i) \o call]
<1>1. /\ at \in S /\ call \in S /\ Len(at) \in Nat /\ Len(at) >= 1
      /\ Len(call) \in Nat /\ Len(call) >= 1
  <2>1. "n" \in NameWords /\ "m" \in NameWords /\ "T" \in NameWords /\ "f" \in NameWords
    BY DEF NameWords
  <2>2. at \in S /\ Len(at) \in Nat /\ Len(at) >= 1
    <3>1. at = <<"n">> \/ at = <<"n", "m">>
      OBVIOUS
    <3>2. at \in S /\ (Len(at) = 1 \/ Len(at) = 2)
      BY <2>1, <3>1, NamesAre
    <3> QED
      BY <3>2
  <2>3. call \in S /\ Len(call) \in Nat /\ Len(call) >= 1
    <3>1. call = <<"f">> \/ \E w \in NameWords : call = <<w, "f">>
      BY <2>1 DEF CalledNames
    <3>2. call \in S /\ (Len(call) = 1 \/ Len(call) = 2)
      BY <2>1, <3>1, NamesAre
    <3> QED
      BY <3>2
  <2> QED
    BY <2>2, <2>3
<1>2. /\ SubSeq(at, 1, Len(at)) = at /\ SubSeq(at, 1, 0) \o call = call
      /\ \A k \in 0..Len(at) : SubSeq(at, 1, k) \in S
  BY <1>1
<1>3. Candidates(at, call) = <<at \o call>> \o alone \o around
  <2>1. \A i \in 1..(Len(at) - 1) : Enclosing(at)[i] = SubSeq(at, 1, Len(at) - i)
    BY DEF Enclosing
  <2> QED
    BY <2>1 DEF Candidates
<1>4. <<at \o call>> \in Seq(S) /\ alone \in Seq(S) /\ around \in Seq(S)
  <2>1. at \o call \in S
    BY <1>1
  <2>2. \A i \in 1..(Len(at) - 1) : SubSeq(at, 1, Len(at) - i) \o call \in S
    BY <1>1, <1>2
  <2>3. around \in Seq(S)
    <3>1. Len(at) - 1 \in Nat /\ around \in [1..(Len(at) - 1) -> S]
      BY <1>1, <2>2
    <3> HIDE DEF S, around
    <3> QED
      BY <3>1
  <2>4. alone \in Seq(S)
    <3>1. call \in S
      BY <1>1
    <3> HIDE DEF S
    <3>2. CASE Len(call) > 1
      BY <3>1, <3>2
    <3>3. CASE ~(Len(call) > 1)
      BY <3>3
    <3> QED
      BY <3>2, <3>3
  <2> QED
    BY <2>1, <2>3, <2>4
<1>5. \A x : HasItem(Candidates(at, call), x)
               <=> \/ x = at \o call
                   \/ Len(call) > 1 /\ x = call
                   \/ \E i \in 1..(Len(at) - 1) : x = SubSeq(at, 1, Len(at) - i) \o call
  <2> TAKE x
  <2> DEFINE first == <<at \o call>>
  <2>1. HasItem(first, x) <=> x = at \o call
    <3> DEFINE w == at \o call
    <3> HIDE DEF w
    <3>1. DOMAIN <<w>> = {1} /\ <<w>>[1] = w
      OBVIOUS
    <3>2. HasItem(<<w>>, x) <=> x = w
      BY <3>1 DEF HasItem
    <3> QED
      BY <3>2 DEF w
  <2>2. HasItem(alone, x) <=> Len(call) > 1 /\ x = call
    <3>1. CASE Len(call) > 1
      BY <3>1 DEF HasItem
    <3>2. CASE ~(Len(call) > 1)
      BY <3>2 DEF HasItem
    <3> QED
      BY <3>1, <3>2
  <2>3. HasItem(around, x)
          <=> \E i \in 1..(Len(at) - 1) : x = SubSeq(at, 1, Len(at) - i) \o call
    BY DEF HasItem
  <2> HIDE DEF first, alone, around, S
  <2>4. first \o alone \in Seq(S)
    BY <1>4 DEF first
  <2>5. HasItem(first \o alone, x) <=> HasItem(first, x) \/ HasItem(alone, x)
    BY <1>4, JoinHas DEF first
  <2>6. HasItem((first \o alone) \o around, x)
          <=> HasItem(first \o alone, x) \/ HasItem(around, x)
    BY <1>4, <2>4, JoinHas
  <2>7. Candidates(at, call) = (first \o alone) \o around
    BY <1>3 DEF first
  <2> QED
    BY <2>1, <2>2, <2>3, <2>5, <2>6, <2>7
<1>6. Found(t, at, call) = {}
        <=> \A x \in DOMAIN t : ~HasItem(Candidates(at, call), x)
  BY DEF Found, HasItem
<1>7. ASSUME Len(call) <= 1 PROVE call \notin DOMAIN t
  BY <1>7 DEF SymbolNames, f0, f1, member
<1> HIDE DEF S
<1>8. ASSUME NEW k \in 0..Len(at), SubSeq(at, 1, k) \o call \in DOMAIN t
      PROVE  Found(t, at, call) # {}
  <2>1. CASE k = 0
    <3>1. call \in DOMAIN t
      BY <1>2, <1>8, <2>1
    <3>2. Len(call) > 1
      BY <1>1, <1>7, <3>1
    <3> QED
      BY <1>5, <1>6, <3>1, <3>2
  <2>2. CASE k = Len(at)
    BY <1>2, <1>5, <1>6, <1>8, <2>2
  <2>3. CASE k # 0 /\ k # Len(at)
    <3>1. Len(at) - k \in 1..(Len(at) - 1) /\ Len(at) - (Len(at) - k) = k
      BY <1>1, <2>3
    <3> QED
      BY <1>5, <1>6, <1>8, <3>1
  <2> QED
    BY <2>1, <2>2, <2>3
<1>9. ASSUME NEW x \in DOMAIN t, HasItem(Candidates(at, call), x)
      PROVE  \E k \in 0..Len(at) : SubSeq(at, 1, k) \o call \in DOMAIN t
  <2>1. CASE x = at \o call
    <3>1. Len(at) \in 0..Len(at)
      BY <1>1
    <3> QED
      BY <1>2, <2>1, <3>1
  <2>2. CASE x = call
    <3>1. 0 \in 0..Len(at)
      BY <1>1
    <3> QED
      BY <1>2, <2>2, <3>1
  <2>3. CASE \E i \in 1..(Len(at) - 1) : x = SubSeq(at, 1, Len(at) - i) \o call
    <3>1. PICK i \in 1..(Len(at) - 1) : x = SubSeq(at, 1, Len(at) - i) \o call
      BY <2>3
    <3>2. Len(at) - i \in 0..Len(at)
      BY <1>1
    <3> QED
      BY <3>1, <3>2
  <2> QED
    BY <1>5, <1>9, <2>1, <2>2, <2>3
<1> QED
  BY <1>6, <1>8, <1>9

-----------------------------------------------------------------------------
\* What holds of the tables, file by file.
SymbolsInv ==
  /\ TextsTyped
  /\ fpc = "resolve" => DOMAIN cache = {}
  /\ IsFiniteSet(DOMAIN cache) /\ Analyzed \in 0..Len(order)
  /\ DOMAIN cache = {order[i] : i \in 1..Analyzed}
  /\ \A f \in DOMAIN cache : TableAgrees(cache[f], Sees(f)) /\ (Calls(f) => Callable(f))
  /\ fpc = "accepted" => Analyzed = Len(order)
  /\ fpc = "rejected" /\ failure = "none" =>
       \E i \in 1..Len(order) : Calls(order[i]) /\ ~Callable(order[i])

\* A call finds something in the table exactly when the file sees a callee.
LEMMA CallableIs ==
  ASSUME TextsTyped, NEW f \in TopoFilePaths, Calls(f), NEW t, TableAgrees(t, Sees(f))
  PROVE  Callable(f) <=> Found(t, program[f].text.at, program[f].text.call) # {}
<1> DEFINE at == program[f].text.at
           call == program[f].text.call
<1>1. at \in {<<"n">>, <<"n", "m">>} /\ call \in CalledNames
  BY DEF TextsTyped, Calls
<1>2. DOMAIN t = Names(Sees(f)) /\ DOMAIN t \subseteq SymbolNames
  BY DEF TableAgrees
<1>3. Callable(f) <=> \E d \in Sees(f), k \in 0..Len(at) : d.name = SubSeq(at, 1, k) \o call
  BY DEF Callable
<1> HIDE DEF at, call
<1>4. Found(t, at, call) = {} <=> \A k \in 0..Len(at) : SubSeq(at, 1, k) \o call \notin DOMAIN t
  BY <1>1, <1>2, FoundIs
<1>5. Callable(f) <=> Found(t, at, call) # {}
  BY <1>2, <1>3, <1>4 DEF Names
<1> QED
  BY <1>5 DEF at, call

\* There are no tables in the initial states.
LEMMA SymbolsStart == ImportInit => SymbolsInv
<1> SUFFICES ASSUME ImportInit PROVE SymbolsInv
  OBVIOUS
<1>1. program \in Graphs \cup Chains /\ cache = <<>> /\ fpc = "resolve" /\ order = <<>>
  BY DEF ImportInit
<1>2. TextsTyped
  BY <1>1, TextsAre
<1>3. DOMAIN cache = {} /\ Len(order) = 0
  BY <1>1
<1>4. IsFiniteSet({}) /\ Cardinality({}) = 0
  BY FS_EmptySet
<1>5. Analyzed = 0
  BY <1>3, <1>4 DEF Analyzed
<1> QED
  BY <1>1, <1>2, <1>3, <1>4, <1>5 DEF SymbolsInv

\* What is seen depends on the program only.
LEMMA SeesSame ==
  ASSUME program' = program
  PROVE  /\ TextsTyped' = TextsTyped
         /\ \A f : Sees(f)' = Sees(f)
         /\ \A f : Calls(f)' = Calls(f) /\ Callable(f)' = Callable(f)
<1>1. TextsTyped' = TextsTyped
  BY DEF TextsTyped
<1>2. \A f : Sees(f)' = Sees(f)
  BY DEF Sees
<1>3. \A f : Calls(f)' = Calls(f) /\ Callable(f)' = Callable(f)
  BY <1>2 DEF Calls, Callable
<1> QED
  BY <1>1, <1>2, <1>3

\* DoneBefore the analysis there are no tables.
LEMMA ResolveKeeps ==
  ASSUME SymbolsInv, ImportTyped', DOMAIN cache = {}, UNCHANGED <<program, cache>>,
         fpc' \in {"resolve", "analyze"} \/ (fpc' = "rejected" /\ failure' # "none")
  PROVE  SymbolsInv'
<1>1. DOMAIN cache' = {} /\ Len(order') \in Nat /\ TextsTyped'
  BY SeesSame DEF SymbolsInv, ImportTyped
<1>2. Analyzed' = 0
  BY <1>1, FS_EmptySet DEF Analyzed
<1>3. (fpc = "resolve" => DOMAIN cache = {})' /\ (fpc = "accepted" => Analyzed = Len(order))'
      /\ (fpc = "rejected" /\ failure = "none" =>
            \E i \in 1..Len(order) : Calls(order[i]) /\ ~Callable(order[i]))'
  BY <1>1
<1>4. (DOMAIN cache = {order[i] : i \in 1..Analyzed})'
  BY <1>1, <1>2
<1>5. (\A f \in DOMAIN cache : TableAgrees(cache[f], Sees(f)) /\ (Calls(f) => Callable(f)))'
  BY <1>1
<1>6. (IsFiniteSet(DOMAIN cache) /\ Analyzed \in 0..Len(order))'
  BY <1>1, <1>2, FS_EmptySet
<1> QED
  BY <1>1, <1>3, <1>4, <1>5, <1>6 DEF SymbolsInv

\* One file more is analysed.
LEMMA AnalyzeKeeps ==
  ASSUME ImportInv, SymbolsInv, Analyze
  PROVE  SymbolsInv'
<1> DEFINE n == Analyzed + 1
<1>1. /\ fpc = "analyze" /\ Analyzed < Len(order) /\ Current = order[n]
      /\ UNCHANGED <<program, order>> /\ ImportTyped /\ OrderPlaced
  BY DEF Analyze, Current, ImportInv
<1>2. /\ TextsTyped /\ Analyzed \in 0..Len(order) /\ Len(order) \in Nat
      /\ DOMAIN cache = {order[i] : i \in 1..Analyzed} /\ IsFiniteSet(DOMAIN cache)
      /\ \A f \in DOMAIN cache : TableAgrees(cache[f], Sees(f)) /\ (Calls(f) => Callable(f))
  BY <1>1 DEF SymbolsInv, ImportTyped
<1>3. n \in 1..Len(order) /\ order[n] \in TopoFilePaths
  BY <1>1, <1>2 DEF ImportTyped
<1>4. ASSUME NEW x \in Range(program[order[n]].imports)
      PROVE  x.file \in DOMAIN cache /\ TableAgrees(cache[x.file], Sees(x.file))
  <2>1. x.file \in TopoFilePaths /\ ImportsDirectly(order[n], x.file)
    BY <1>1, <1>3, ImportedIs
  <2>2. PICK j \in 1..(n - 1) : order[j] = x.file
    BY <1>1, <1>3, <2>1 DEF OrderPlaced
  <2>3. j \in 1..Analyzed
    BY <1>2, <2>2
  <2> QED
    BY <1>2, <2>2, <2>3
<1>5. TableAgrees(TableOf(Current), Sees(Current))
  BY <1>1, <1>2, <1>3, <1>4, TableIs
<1>6. UndeclaredCallees(Current) <=> Calls(Current) /\ ~Callable(Current)
  BY <1>1, <1>2, <1>3, <1>5, CallableIs DEF UndeclaredCallees
<1> HIDE DEF n
<1>7. TextsTyped' /\ \A f : /\ Sees(f)' = Sees(f) /\ Calls(f)' = Calls(f)
                            /\ Callable(f)' = Callable(f)
  BY <1>1, <1>2, SeesSame
<1>8. CASE UndeclaredCallees(Current)
  <2>1. fpc' = "rejected" /\ UNCHANGED <<cache, failure>>
    BY <1>8 DEF Analyze
  <2>2. Calls(order[n]) /\ ~Callable(order[n])
    BY <1>1, <1>6, <1>8
  <2>3. (\E i \in 1..Len(order) : Calls(order[i]) /\ ~Callable(order[i]))'
    BY <1>1, <1>3, <1>7, <2>2
  <2>4. (\A f \in DOMAIN cache : TableAgrees(cache[f], Sees(f)) /\ (Calls(f) => Callable(f)))'
    BY <1>2, <1>7, <2>1 DEF TableAgrees, External, Names, Openly, Effective
  <2>5. Analyzed' = Analyzed
    BY <2>1 DEF Analyzed
  <2> QED
    BY <1>1, <1>2, <1>7, <2>1, <2>3, <2>4, <2>5 DEF SymbolsInv
<1>9. CASE ~UndeclaredCallees(Current)
  <2>1. fpc' = fpc /\ cache' = Into(cache, [f \in {Current} |-> TableOf(f)])
    BY <1>9 DEF Analyze
  <2>2. Current \notin DOMAIN cache
    <3> SUFFICES ASSUME NEW i \in 1..Analyzed, order[i] = order[n] PROVE FALSE
      BY <1>1, <1>2
    <3>1. i \in 1..Len(order) /\ i # n
      BY <1>2 DEF n
    <3> QED
      BY <1>1, <1>3, <3>1 DEF OrderPlaced
  <2>3. /\ DOMAIN cache' = DOMAIN cache \cup {Current}
        /\ \A f \in DOMAIN cache : cache'[f] = cache[f]
        /\ cache'[Current] = TableOf(Current)
    BY <2>1, <2>2 DEF Into
  <2>4. IsFiniteSet(DOMAIN cache') /\ Analyzed' = n
    BY <1>2, <2>2, <2>3, FS_AddElement DEF Analyzed, n
  <2>5. (DOMAIN cache = {order[i] : i \in 1..Analyzed})'
    <3>1. \A i : i \in 1..n <=> i \in 1..Analyzed \/ i = n
      BY <1>2 DEF n
    <3> QED
      BY <1>1, <1>2, <2>3, <2>4, <3>1
  <2>6. Calls(Current) => Callable(Current)
    BY <1>6, <1>9
  <2>7. \A f \in DOMAIN cache' : TableAgrees(cache'[f], Sees(f)) /\ (Calls(f) => Callable(f))
    BY <1>2, <1>5, <2>3, <2>6
  <2>8. (\A f \in DOMAIN cache : TableAgrees(cache[f], Sees(f)) /\ (Calls(f) => Callable(f)))'
    BY <1>7, <2>7 DEF TableAgrees, External, Names, Openly, Effective
  <2>9. Analyzed' \in 0..Len(order')
    BY <1>1, <1>2, <1>3, <2>4
  <2> QED
    BY <1>1, <1>7, <2>1, <2>4, <2>5, <2>8, <2>9 DEF SymbolsInv
<1> QED
  BY <1>8, <1>9

\* Every step keeps the invariant.
LEMMA SymbolSteps ==
  ASSUME ImportInv, SymbolsInv, [ImportNext]_importVars
  PROVE  SymbolsInv'
<1>1. ImportInv' /\ ImportTyped' /\ Phases
  BY ImportSteps DEF ImportInv
<1>2. CASE TakeRoot \/ Follow \/ Leave
  <2>1. UNCHANGED <<program, cache, fpc>>
    BY <1>2 DEF TakeRoot, Follow, Leave
  <2>2. fpc = "resolve"
    BY <1>1, <1>2 DEF TakeRoot, Follow, Leave, Phases
  <2> QED
    BY <1>1, <2>1, <2>2, ResolveKeeps DEF SymbolsInv
<1>3. CASE Resolved
  <2>1. /\ fpc = "resolve" /\ UNCHANGED <<program, cache, failure>>
        /\ fpc' = IF failure = "none" THEN "analyze" ELSE "rejected"
    BY <1>3 DEF Resolved
  <2>2. fpc' = "analyze" \/ (fpc' = "rejected" /\ failure' # "none")
    BY <2>1
  <2> QED
    BY <1>1, <2>1, <2>2, ResolveKeeps DEF SymbolsInv
<1>4. CASE Analyze
  BY <1>4, AnalyzeKeeps
<1>5. CASE Combine \/ UNCHANGED importVars
  <2>1. /\ UNCHANGED <<program, order, cache, failure>>
        /\ \/ fpc' = fpc
           \/ /\ fpc' \in {"accepted", "rejected"} /\ Analyzed = Len(order)
              /\ fpc' = "rejected" => failure # "none"
    BY <1>5 DEF Combine, importVars
  <2>2. Analyzed' = Analyzed
    BY <2>1 DEF Analyzed
  <2>3. TextsTyped' /\ \A f : /\ Sees(f)' = Sees(f) /\ Calls(f)' = Calls(f)
                              /\ Callable(f)' = Callable(f)
    BY <2>1, SeesSame DEF SymbolsInv
  <2>4. (\A f \in DOMAIN cache : TableAgrees(cache[f], Sees(f)) /\ (Calls(f) => Callable(f)))'
    BY <2>1, <2>3 DEF SymbolsInv, TableAgrees, External, Names, Openly, Effective
  <2>5. (fpc = "resolve" => DOMAIN cache = {})' /\ (fpc = "accepted" => Analyzed = Len(order))'
    BY <2>1, <2>2 DEF SymbolsInv
  <2>6. (fpc = "rejected" /\ failure = "none" =>
           \E i \in 1..Len(order) : Calls(order[i]) /\ ~Callable(order[i]))'
    BY <2>1, <2>3 DEF SymbolsInv
  <2> QED
    BY <2>1, <2>2, <2>3, <2>4, <2>5, <2>6 DEF SymbolsInv
<1> QED
  BY <1>2, <1>3, <1>4, <1>5 DEF ImportNext

\* The calls are visible when the invariant holds.
LEMMA InvCalls == ImportInv /\ SymbolsInv => CallsAreVisible
<1> SUFFICES ASSUME ImportInv, SymbolsInv PROVE CallsAreVisible
  OBVIOUS
<1>1. Len(order) \in Nat /\ Range(order) = {order[i] : i \in 1..Len(order)}
  BY DEF ImportInv, ImportTyped, Range
<1>2. fpc = "accepted" => Range(order) = DOMAIN cache
  BY <1>1 DEF SymbolsInv
<1> QED
  BY <1>1, <1>2 DEF SymbolsInv, CallsAreVisible

(***************************************************************************)
(* A program is accepted exactly when every call reaches a function that   *)
(* its file sees (SymbolTable.cpp, resolveCallee()), for any number of     *)
(* files, calls of members of types in internal namespaces left aside:     *)
(* because every file is analysed behind all that it imports, its table    *)
(* holds the very names that chains of imports, of any length, lead to.    *)
(* That a chain is no longer than the files before one in the order        *)
(* is SeesFixed.                                                           *)
(***************************************************************************)
THEOREM CallsAlwaysVisible == ImportSpec => []CallsAreVisible
<1>1. ImportInit => ImportInv /\ SymbolsInv
  BY ImportStarts, SymbolsStart
<1>2. ImportInv /\ SymbolsInv /\ [ImportNext]_importVars => (ImportInv /\ SymbolsInv)'
  BY ImportSteps, SymbolSteps
<1>3. ImportInv /\ SymbolsInv => CallsAreVisible
  BY InvCalls
<1> QED
  BY <1>1, <1>2, <1>3, PTL DEF ImportSpec

-----------------------------------------------------------------------------
(* Recursion on types: each type lies in a layer, the types inside it in   *)
(* lower ones.                                                             *)

\* The types of the first d layers.
LayersTo(d) == UNION {TypeLayers[e] : e \in 1..d}
Insides(t) == Range(t.args)

\* How the types lie in their layers.
LEMMA LayersAre ==
  /\ Len(TypeLayers) \in Nat /\ LayersTo(Len(TypeLayers)) = TypeTrees /\ LayersTo(0) = {}
  /\ \A d \in 1..Len(TypeLayers) :
       LayersTo(d) = LayersTo(d - 1) \cup TypeLayers[d] /\ LayersTo(d - 1) = Inner(d)
<1>1. Len(TypeLayers) \in Nat /\ DOMAIN TypeLayers = 1..Len(TypeLayers)
  BY TypesAssumption, LenProperties
<1>2. LayersTo(Len(TypeLayers)) = TypeTrees
  BY <1>1 DEF LayersTo, TypeTrees, Range
<1>3. LayersTo(0) = {}
  BY DEF LayersTo
<1>4. ASSUME NEW d \in 1..Len(TypeLayers)
      PROVE  LayersTo(d) = LayersTo(d - 1) \cup TypeLayers[d] /\ LayersTo(d - 1) = Inner(d)
  <2>1. 1..d = (1..(d - 1)) \cup {d}
    BY <1>1
  <2> QED BY <2>1 DEF LayersTo, Inner
<1> QED BY <1>1, <1>2, <1>3, <1>4

\* What is inside of a type of layer d lies in lower layers.
LEMMA InsideIsLower ==
  ASSUME NEW d \in 1..Len(TypeLayers), NEW t \in TypeLayers[d]
  PROVE  /\ t \in TypeTrees /\ IsTypeTree(t, TypeTrees)
         /\ t.args \in Seq(TypeTrees) /\ Insides(t) \subseteq LayersTo(d - 1)
<1>1. DOMAIN TypeLayers = 1..Len(TypeLayers) /\ Len(TypeLayers) \in Nat
  BY TypesAssumption, LenProperties
<1>2. IsTypeTree(t, Inner(d)) /\ Inner(d) = LayersTo(d - 1)
  BY <1>1, TypesAssumption, LayersAre
<1>3. Inner(d) \subseteq TypeTrees /\ t \in TypeTrees
  BY <1>1 DEF Inner, TypeTrees, Range
<1>4. t.args \in Seq(Inner(d))
  BY <1>2 DEF IsTypeTree
<1>5. DOMAIN t.args = 1..Len(t.args) /\ \A i \in 1..Len(t.args) : t.args[i] \in Inner(d)
  BY <1>4, ElementOfSeq, LenProperties
<1>6. Insides(t) \subseteq LayersTo(d - 1)
  BY <1>2, <1>5 DEF Insides, Range
<1>7. Seq(Inner(d)) \subseteq Seq(TypeTrees)
  BY <1>3
<1>8. IsTypeTree(t, TypeTrees) /\ t.args \in Seq(TypeTrees)
  BY <1>2, <1>4, <1>7 DEF IsTypeTree
<1> QED BY <1>3, <1>6, <1>8

\* Every type has a layer.
LEMMA TypeHasLayer ==
  ASSUME NEW d \in 0..Len(TypeLayers), NEW t \in LayersTo(d)
  PROVE  \E e \in 1..d : t \in TypeLayers[e] /\ e \in 1..Len(TypeLayers)
<1>1. Len(TypeLayers) \in Nat
  BY LayersAre
<1> QED BY <1>1 DEF LayersTo

\* What holds of a type when it holds of those inside holds of all types.
LEMMA AllTypes ==
  ASSUME NEW P, \A t \in TypeTrees : Insides(t) \subseteq P => t \in P
  PROVE  TypeTrees \subseteq P
<1> DEFINE K == {d \in 0..Len(TypeLayers) : ~(LayersTo(d) \subseteq P)}
<1>1. CASE K = {}
  BY <1>1, LayersAre
<1>2. CASE K # {}
  <2>1. K \subseteq Nat
    OBVIOUS
  <2>2. PICK d \in K : \A y \in K : d <= y
    <3> HIDE DEF K
    <3> QED BY <1>2, <2>1, LeastNumber
  <2>3. d # 0
    BY LayersAre
  <2>4. d \in 1..Len(TypeLayers) /\ d - 1 \in 0..Len(TypeLayers) /\ d - 1 \notin K
    BY <2>2, <2>3, LayersAre
  <2>5. LayersTo(d - 1) \subseteq P
    BY <2>4
  <2>6. TypeLayers[d] \subseteq P
    BY <2>4, <2>5, InsideIsLower
  <2>7. LayersTo(d) \subseteq P
    BY <2>4, <2>5, <2>6, LayersAre
  <2> QED BY <2>2, <2>7
<1> QED BY <1>1, <1>2

\* A step says what a function is of a type from what it is of those inside.
IsStep(step, W) ==
  /\ \A t \in TypeTrees : \A f \in [TypeTrees -> W] : step[t][f] \in W
  /\ \A t \in TypeTrees : \A f, g \in [TypeTrees -> W] :
       (\A x \in Insides(t) : f[x] = g[x]) => step[t][f] = step[t][g]
Solves(f, step) == \A t \in TypeTrees : f[t] = step[t][f]

\* The function that a step stands for is there.
LEMMA RecursionIs ==
  ASSUME NEW W, NEW w \in W, NEW step, IsStep(step, W)
  PROVE  \E f \in [TypeTrees -> W] : Solves(f, step)
<1>s. /\ \A t \in TypeTrees : \A f \in [TypeTrees -> W] : step[t][f] \in W
      /\ \A t \in TypeTrees : \A f, g \in [TypeTrees -> W] :
           (\A x \in Insides(t) : f[x] = g[x]) => step[t][f] = step[t][g]
  BY DEF IsStep
<1> DEFINE Upto(d, f) == \A t \in LayersTo(d) : f[t] = step[t][f]
           K == {d \in 0..Len(TypeLayers) : ~\E f \in [TypeTrees -> W] : Upto(d, f)}
<1>0. Len(TypeLayers) \in Nat
  BY LayersAre
<1>1. CASE Len(TypeLayers) \notin K
  <2>1. Len(TypeLayers) \in 0..Len(TypeLayers)
    BY <1>0
  <2>2. \E f \in [TypeTrees -> W] : Upto(Len(TypeLayers), f)
    BY <1>1, <2>1
  <2> QED BY <2>2, LayersAre DEF Solves
<1>2. CASE K # {}
  <2>1. K \subseteq Nat
    OBVIOUS
  <2>2. PICK d \in K : \A y \in K : d <= y
    <3> HIDE DEF K
    <3> QED BY <1>2, <2>1, LeastNumber
  <2>3. d # 0
    <3>1. [t \in TypeTrees |-> w] \in [TypeTrees -> W]
      OBVIOUS
    <3>2. Upto(0, [t \in TypeTrees |-> w])
      BY LayersAre
    <3> QED BY <2>2, <3>1, <3>2
  <2>4. d \in 1..Len(TypeLayers) /\ d - 1 \in 0..Len(TypeLayers) /\ d - 1 \notin K
    BY <1>0, <2>2, <2>3
  <2>5. PICK g \in [TypeTrees -> W] : Upto(d - 1, g)
    BY <2>4
  <2> DEFINE h == [t \in TypeTrees |-> IF t \in LayersTo(d - 1) THEN g[t] ELSE step[t][g]]
  <2>6. h \in [TypeTrees -> W]
    BY <1>s, <2>5
  <2>7. LayersTo(d - 1) \subseteq TypeTrees /\ \A t \in LayersTo(d - 1) : h[t] = g[t]
    <3>1. LayersTo(d - 1) \subseteq TypeTrees
      BY <2>4, TypeHasLayer, InsideIsLower
    <3> QED BY <3>1
  <2>8. ASSUME NEW t \in LayersTo(d) PROVE h[t] = step[t][h]
    <3>1. PICK e \in 1..d : t \in TypeLayers[e] /\ e \in 1..Len(TypeLayers)
      BY <2>2, TypeHasLayer
    <3>2. t \in TypeTrees /\ Insides(t) \subseteq LayersTo(e - 1)
      BY <3>1, InsideIsLower
    <3>3. LayersTo(e - 1) \subseteq LayersTo(d - 1)
      BY <3>1, <2>4, <1>0 DEF LayersTo
    <3>4. step[t][h] = step[t][g]
      BY <1>s, <2>5, <2>6, <2>7, <3>2, <3>3
    <3>5. h[t] = step[t][g]
      BY <2>5, <2>7, <3>2
    <3> QED BY <3>4, <3>5
  <2> HIDE DEF h
  <2>9. Upto(d, h)
    BY <2>8
  <2> QED BY <2>2, <2>6, <2>9
<1> QED BY <1>1, <1>2

-----------------------------------------------------------------------------
(* Types that resolve.                                                     *)

\* What a type is made of.
LEMMA TypeIs ==
  ASSUME NEW t \in TypeTrees
  PROVE  /\ IsTypeTree(t, TypeTrees) /\ t.args \in Seq(TypeTrees) /\ Len(t.args) \in Nat
         /\ DOMAIN t.args = 1..Len(t.args) /\ Insides(t) \subseteq TypeTrees
         /\ \A i \in DOMAIN t.args : t.args[i] \in TypeTrees /\ t.args[i] \in Insides(t)
<1>1. Len(TypeLayers) \in Nat /\ t \in LayersTo(Len(TypeLayers))
  BY LayersAre
<1>2. PICK e \in 1..Len(TypeLayers) : t \in TypeLayers[e]
  BY <1>1, TypeHasLayer
<1>3. IsTypeTree(t, TypeTrees) /\ t.args \in Seq(TypeTrees)
  BY <1>2, InsideIsLower
<1>4. Len(t.args) \in Nat /\ DOMAIN t.args = 1..Len(t.args)
  BY <1>3, LenProperties
<1>5. \A i \in DOMAIN t.args : t.args[i] \in TypeTrees /\ t.args[i] \in Insides(t)
  BY <1>3, <1>4, ElementOfSeq DEF Insides, Range
<1> QED BY <1>3, <1>4, <1>5 DEF Insides, Range

\* isValidType() of a type, where f says it of the types inside.
ValidStep(t, f, known) ==
  LET parts == \A i \in DOMAIN t.args : f[t.args[i]]
  IN CASE t.kind \in {"void", "qualified"} -> TRUE
       [] t.kind = "backend" -> t.name \in BackendTypes
       [] t.kind = "record" -> t.names # <<>> /\ ~Repeated(t.names) /\ parts
       [] t.kind = "array" ->
            /\ Len(t.args) = 2 /\ t.args[1].kind # "number" /\ f[t.args[1]]
            /\ t.args[2].kind = "number" /\ t.args[2].n >= 1
       [] t.kind = "union" ->
            Len(t.names) >= 2 /\ t.args[1].kind = "u8" /\ ~Repeated(t.names) /\ parts
       [] t.kind \in Scalars \cup {"optional", "slice"} ->
            Len(t.args) = StdArity(t.kind) /\ parts
       [] t.kind = "user" -> t.name \in known
       [] OTHER -> FALSE
IsValid(f, known) == f = [t \in TypeTrees |-> ValidStep(t, f, known)]

\* Whatever f says.
LEMMA StepIsBoolean ==
  ASSUME NEW t, NEW f, NEW known
  PROVE  ValidStep(t, f, known) \in BOOLEAN
<1>1. CASE t.kind \in {"void", "qualified"}
  BY <1>1 DEF ValidStep
<1>2. CASE t.kind = "record"
  BY <1>2 DEF ValidStep
<1>3. CASE t.kind = "array"
  BY <1>3 DEF ValidStep, Scalars
<1>4. CASE t.kind = "union"
  BY <1>4 DEF ValidStep
<1>5. CASE t.kind \in Scalars \cup {"optional", "slice"}
  BY <1>5 DEF ValidStep, Scalars
<1>6. CASE t.kind = "user"
  BY <1>6 DEF ValidStep, Scalars
<1>7. CASE t.kind = "backend"
  BY <1>7 DEF ValidStep, Scalars
<1>8. CASE t.kind \notin {"void", "qualified", "backend", "record", "array", "union", "user"}
                          \cup Scalars \cup {"optional", "slice"}
  BY <1>8 DEF ValidStep
<1> QED BY <1>1, <1>2, <1>3, <1>4, <1>5, <1>6, <1>7, <1>8

\* The function that isValidType() is defined by is there.
LEMMA ValidExists ==
  ASSUME NEW known
  PROVE  \E f \in [TypeTrees -> BOOLEAN] : \A t \in TypeTrees : f[t] = ValidStep(t, f, known)
<1> DEFINE step == [t \in TypeTrees |-> [f \in [TypeTrees -> BOOLEAN] |-> ValidStep(t, f, known)]]
<1>1. ASSUME NEW t \in TypeTrees, NEW f \in [TypeTrees -> BOOLEAN]
      PROVE  step[t][f] = ValidStep(t, f, known) /\ step[t][f] \in BOOLEAN
  <2>1. step[t][f] = ValidStep(t, f, known)
    OBVIOUS
  <2> QED BY <2>1, StepIsBoolean
<1>2. ASSUME NEW t \in TypeTrees, NEW f \in [TypeTrees -> BOOLEAN],
             NEW g \in [TypeTrees -> BOOLEAN], \A x \in Insides(t) : f[x] = g[x]
      PROVE  ValidStep(t, f, known) = ValidStep(t, g, known)
  <2>1. \A i \in DOMAIN t.args : f[t.args[i]] = g[t.args[i]]
    BY <1>2, TypeIs
  <2>2. (\A i \in DOMAIN t.args : f[t.args[i]]) <=> (\A i \in DOMAIN t.args : g[t.args[i]])
    BY <2>1
  <2>3. Len(t.args) = 2 => f[t.args[1]] = g[t.args[1]]
    BY <2>1, TypeIs
  <2>4. CASE t.kind = "array"
    <3>1. (f[t.args[1]] \in BOOLEAN /\ g[t.args[1]] \in BOOLEAN) \/ Len(t.args) # 2
      BY TypeIs
    <3> QED BY <2>3, <2>4, <3>1 DEF ValidStep, Scalars
  <2>5. CASE t.kind # "array"
    BY <2>2, <2>5 DEF ValidStep
  <2> QED BY <2>4, <2>5
<1> HIDE DEF step
<1>3. IsStep(step, BOOLEAN)
  BY <1>1, <1>2 DEF IsStep
<1>4. \E w : w \in BOOLEAN
  OBVIOUS
<1>5. \E f \in [TypeTrees -> BOOLEAN] : Solves(f, step)
  BY <1>3, <1>4, RecursionIs
<1> QED BY <1>1, <1>5 DEF Solves

\* So isValidType() is what its definition says.
LEMMA ValidIs ==
  ASSUME NEW known, NEW t \in TypeTrees
  PROVE  /\ IsValidType(t, known) \in BOOLEAN
         /\ IsValidType(t, known)
              = ValidStep(t, [x \in TypeTrees |-> IsValidType(x, known)], known)
<1>1. PICK f \in [TypeTrees -> BOOLEAN] : \A x \in TypeTrees : f[x] = ValidStep(x, f, known)
  BY ValidExists
<1>2. f = [x \in TypeTrees |-> ValidStep(x, f, known)]
  BY <1>1
<1>3. IsValid(f, known)
  BY <1>2 DEF IsValid
<1> DEFINE r == CHOOSE g : IsValid(g, known)
<1>4. IsValid(r, known)
  BY <1>3
<1>5. \A x : IsValidType(x, known) = r[x]
  BY DEF IsValidType, ValidStep, IsValid
<1> HIDE DEF r
<1>6. r = [x \in TypeTrees |-> ValidStep(x, r, known)]
  BY <1>4 DEF IsValid
<1>7. r = [x \in TypeTrees |-> r[x]]
  BY <1>6
<1>8. r = [x \in TypeTrees |-> IsValidType(x, known)]
  BY <1>5, <1>7
<1>9. r[t] = ValidStep(t, r, known)
  BY <1>6
<1>10. ValidStep(t, r, known) \in BOOLEAN
  BY StepIsBoolean
<1> QED BY <1>5, <1>8, <1>9, <1>10

\* The parts of a type, where f says it of the types inside.
PartsStep(t, f) ==
  {t} \cup IF t.kind \in Shaped THEN UNION {f[t.args[i]] : i \in DOMAIN t.args} ELSE {}
IsParts(f) == f = [t \in TypeTrees |-> PartsStep(t, f)]

\* The function that Parts is defined by is there.
LEMMA PartsExist ==
  \E f \in [TypeTrees -> SUBSET TypeTrees] : \A t \in TypeTrees : f[t] = PartsStep(t, f)
<1> DEFINE W == SUBSET TypeTrees
           step == [t \in TypeTrees |-> [f \in [TypeTrees -> W] |-> PartsStep(t, f)]]
<1>1. ASSUME NEW t \in TypeTrees, NEW f \in [TypeTrees -> W]
      PROVE  step[t][f] = PartsStep(t, f) /\ step[t][f] \in W
  <2>1. step[t][f] = PartsStep(t, f)
    OBVIOUS
  <2>2. \A i \in DOMAIN t.args : f[t.args[i]] \in W
    BY TypeIs
  <2> QED BY <2>1, <2>2 DEF PartsStep
<1>2. ASSUME NEW t \in TypeTrees, NEW f \in [TypeTrees -> W],
             NEW g \in [TypeTrees -> W], \A x \in Insides(t) : f[x] = g[x]
      PROVE  PartsStep(t, f) = PartsStep(t, g)
  <2>1. \A i \in DOMAIN t.args : f[t.args[i]] = g[t.args[i]]
    BY <1>2, TypeIs
  <2> QED BY <2>1 DEF PartsStep
<1> HIDE DEF step
<1>3. IsStep(step, W)
  BY <1>1, <1>2 DEF IsStep
<1>4. {} \in W
  OBVIOUS
<1> HIDE DEF W
<1>5. \E f \in [TypeTrees -> W] : Solves(f, step)
  BY <1>3, <1>4, RecursionIs
<1> QED BY <1>1, <1>5 DEF Solves, W

\* So Parts is what its definition says.
LEMMA PartsAre ==
  ASSUME NEW t \in TypeTrees
  PROVE  /\ Parts(t) \subseteq TypeTrees
         /\ Parts(t) = {t} \cup IF t.kind \in Shaped
                                THEN UNION {Parts(t.args[i]) : i \in DOMAIN t.args} ELSE {}
<1>1. PICK f \in [TypeTrees -> SUBSET TypeTrees] : \A x \in TypeTrees : f[x] = PartsStep(x, f)
  BY PartsExist
<1>2. f = [x \in TypeTrees |-> PartsStep(x, f)]
  BY <1>1
<1>3. IsParts(f)
  BY <1>2 DEF IsParts
<1> DEFINE r == CHOOSE g : IsParts(g)
<1>4. IsParts(r)
  BY <1>3
<1>5. \A x : Parts(x) = r[x]
  BY DEF Parts, PartsStep, IsParts
<1> HIDE DEF r
<1>6. \A x \in TypeTrees : r[x] = PartsStep(x, r)
  BY <1>4 DEF IsParts
<1>7. Parts(t) = {t} \cup IF t.kind \in Shaped
                          THEN UNION {Parts(t.args[i]) : i \in DOMAIN t.args} ELSE {}
  BY <1>5, <1>6 DEF PartsStep
<1> DEFINE P == {x \in TypeTrees : Parts(x) \subseteq TypeTrees}
<1>8. ASSUME NEW x \in TypeTrees, Insides(x) \subseteq P PROVE x \in P
  <2>1. Parts(x) = {x} \cup IF x.kind \in Shaped
                            THEN UNION {Parts(x.args[i]) : i \in DOMAIN x.args} ELSE {}
    BY <1>5, <1>6 DEF PartsStep
  <2>2. \A i \in DOMAIN x.args : Parts(x.args[i]) \subseteq TypeTrees
    BY <1>8, TypeIs
  <2> QED BY <2>1, <2>2
<1>9. TypeTrees \subseteq P
  <2> HIDE DEF P
  <2> QED BY <1>8, AllTypes
<1> QED BY <1>7, <1>9

\* What is wrong with one part of a type.
Wrong(p, names) ==
  \/ p.kind = "user" /\ p.name \notin names
  \/ p.kind = "backend" /\ p.name \notin BackendTypes
  \/ Shapeless(p)
  \/ \E i \in DOMAIN p.args :
       p.kind \in Shaped /\ p.args[i].kind = "number" /\ ~(p.kind = "array" /\ i = 2)
Bad(t, names) == \E p \in Parts(t) : Wrong(p, names)

\* Something is wrong with a type when it is with the type itself or with one inside.
LEMMA BadIs ==
  ASSUME NEW t \in TypeTrees, NEW names
  PROVE  /\ Bad(t, names) <=> Unresolved(t, names) \/ Misplaced(t)
         /\ Bad(t, names) <=>
              \/ Wrong(t, names)
              \/ t.kind \in Shaped /\ \E i \in DOMAIN t.args : Bad(t.args[i], names)
<1>1. Bad(t, names) <=> Unresolved(t, names) \/ Misplaced(t)
  BY DEF Bad, Wrong, Unresolved, Misplaced
<1>2. CASE t.kind \in Shaped
  <2>1. Parts(t) = {t} \cup UNION {Parts(t.args[i]) : i \in DOMAIN t.args}
    BY <1>2, PartsAre
  <2> QED BY <1>1, <1>2, <2>1 DEF Bad
<1>3. CASE t.kind \notin Shaped
  <2>1. Parts(t) = {t}
    BY <1>3, PartsAre
  <2> QED BY <1>1, <1>3, <2>1 DEF Bad
<1> QED BY <1>2, <1>3

\* A type inside resolves when it is no number and nothing is wrong with its parts.
Judged(t, known) ==
  IsValidType(t, known) <=> t.kind # "number" /\ ~Bad(t, known)

\* The recursion of isValidType() and the parts of a type say the same, kind by kind.
LEMMA AllAreJudged ==
  ASSUME NEW known
  PROVE  \A t \in TypeTrees : Judged(t, known)
<1> DEFINE P == {t \in TypeTrees : Judged(t, known)}
<1>1. ASSUME NEW t \in TypeTrees, Insides(t) \subseteq P PROVE t \in P
  <2> DEFINE f == [x \in TypeTrees |-> IsValidType(x, known)]
             n == Len(t.args)
  <2>1. IsValidType(t, known) = ValidStep(t, f, known) /\ IsValidType(t, known) \in BOOLEAN
    BY ValidIs
  <2>2. \A i \in DOMAIN t.args :
          /\ f[t.args[i]] = IsValidType(t.args[i], known) /\ IsValidType(t.args[i], known) \in BOOLEAN
          /\ IsValidType(t.args[i], known)
               <=> t.args[i].kind # "number" /\ ~Bad(t.args[i], known)
    BY <1>1, TypeIs, ValidIs DEF Judged
  <2>3. /\ n \in Nat /\ DOMAIN t.args = 1..n
        /\ t.kind \in Shaped \cup {"void", "qualified", "backend", "user", "number"}
        /\ t.kind \in {"record", "union"} => n = Len(t.names)
        /\ \A i \in 1..n : t.args[i].n \in Nat
    BY TypeIs DEF IsTypeTree
  <2>4. \A i \in DOMAIN t.args : t.args[i].kind = "number" => ~Bad(t.args[i], known)
    <3> SUFFICES ASSUME NEW i \in DOMAIN t.args, t.args[i].kind = "number"
                 PROVE  ~Bad(t.args[i], known)
      OBVIOUS
    <3>1. t.args[i] \in TypeTrees
      BY TypeIs
    <3> QED BY <3>1, BadIs DEF Wrong, Shapeless, Shaped, Scalars
  <2>5. Bad(t, known) <=>
          \/ Wrong(t, known)
          \/ t.kind \in Shaped /\ \E i \in DOMAIN t.args : Bad(t.args[i], known)
    BY BadIs
  <2>6. (\A i \in DOMAIN t.args : f[t.args[i]])
          <=> \A i \in DOMAIN t.args : t.args[i].kind # "number" /\ ~Bad(t.args[i], known)
    BY <2>2
  <2> HIDE DEF f
  <2>7. CASE t.kind \in {"void", "qualified", "backend", "user", "number"}
    BY <2>1, <2>5, <2>7 DEF Judged, ValidStep, Wrong, Shapeless, Shaped, Scalars
  <2>8. CASE t.kind = "record"
    BY <2>1, <2>5, <2>6, <2>8 DEF Judged, ValidStep, Wrong, Shapeless, Shaped, Scalars
  <2>9. CASE t.kind = "union"
    <3>1. Len(t.names) \in Nat
      BY TypeIs, LenProperties DEF IsTypeTree
    <3> DEFINE whole == /\ ~(Len(t.names) < 2) /\ ~Repeated(t.names) /\ t.args[1].kind = "u8"
                        /\ \A i \in DOMAIN t.args : t.args[i].kind # "number"
    <3>2. ValidStep(t, f, known) <=> whole /\ \A i \in DOMAIN t.args : ~Bad(t.args[i], known)
      BY <2>6, <2>9, <3>1 DEF ValidStep, Scalars
    <3>3. Wrong(t, known) <=> ~whole
      BY <2>9, <3>1 DEF Wrong, Shapeless, Shaped, Scalars
    <3> HIDE DEF whole
    <3> QED BY <2>1, <2>5, <2>9, <3>2, <3>3 DEF Judged, Shaped
  <2>10. CASE t.kind = "array"
    <3>1. CASE n # 2
      BY <2>1, <2>5, <2>10, <3>1 DEF Judged, ValidStep, Wrong, Shapeless, Shaped, Scalars
    <3>2. CASE n = 2
      <4>1. 1 \in DOMAIN t.args /\ 2 \in DOMAIN t.args /\ t.args[2].n \in Nat
            /\ \A i \in DOMAIN t.args : i = 1 \/ i = 2
        BY <2>3, <3>2
      <4>2. ValidStep(t, f, known) <=>
              /\ t.args[1].kind # "number" /\ f[t.args[1]]
              /\ t.args[2].kind = "number" /\ t.args[2].n >= 1
        BY <2>10, <3>2 DEF ValidStep, Scalars
      <4>3. f[t.args[1]] <=> t.args[1].kind # "number" /\ ~Bad(t.args[1], known)
        BY <2>2, <4>1
      <4>4. Wrong(t, known) <=>
              \/ t.args[2].kind # "number" \/ t.args[2].n = 0
              \/ t.args[1].kind = "number"
        BY <2>10, <3>2, <4>1 DEF Wrong, Shapeless, Shaped, Scalars
      <4> QED BY <2>1, <2>4, <2>5, <2>10, <4>1, <4>2, <4>3, <4>4 DEF Judged, Shaped
    <3> QED BY <3>1, <3>2
  <2>11. CASE t.kind \in Scalars
    <3>1. t.args = <<>> <=> n = 0
      BY TypeIs, EmptySeq
    <3>2. ValidStep(t, f, known) <=> t.args = <<>>
      BY <2>3, <2>6, <2>11, <3>1 DEF ValidStep, Scalars, StdArity
    <3>3. Bad(t, known) <=> t.args # <<>>
      BY <2>3, <2>5, <2>11, <3>1 DEF Wrong, Shapeless, Shaped, Scalars
    <3> QED BY <2>1, <2>11, <3>2, <3>3 DEF Judged, Scalars
  <2>12. CASE t.kind \in {"optional", "slice"}
    BY <2>1, <2>3, <2>5, <2>6, <2>12 DEF Judged, ValidStep, Wrong, Shapeless, Shaped, Scalars, StdArity
  <2>13. Judged(t, known)
    BY <2>3, <2>7, <2>8, <2>9, <2>10, <2>11, <2>12 DEF Shaped
  <2> QED BY <2>13
<1>2. TypeTrees \subseteq P
  <2> HIDE DEF P
  <2> QED BY <1>1, AllTypes
<1> QED BY <1>2

-----------------------------------------------------------------------------
(* The checks of the declarations.                                         *)

Kinds == {"functions", "classes"}
DeclsOf(kind) == IF kind = "classes" THEN unit.classes ELSE unit.functions
\* The resolver has been at declaration i of a kind.
HasBeenAt(kind, i) ==
  ypc = "checked" \/ (kind = ypc /\ i < turn) \/ (kind = "functions" /\ ypc = "classes")
\* The type does not resolve where the declaration stands.
Strange(kind, i) == ~IsValidType(DeclsOf(kind)[i].type, ParametersOf(kind, i))

\* The errors so far are those of the declarations so far, and between two declarations
\* the resolver knows no template parameter.
FaultsFit ==
  \A kind \in Kinds : \A i \in DOMAIN DeclsOf(kind) :
    <<"unknown-type", kind, i>> \in faults <=> HasBeenAt(kind, i) /\ Strange(kind, i)
TypesInv ==
  /\ unit \in Units /\ scope = {} /\ turn \in Nat \ {0}
  /\ ypc \in {"functions", "classes", "checked"} /\ FaultsFit

\* What is declared is numbered, and its types are types.
LEMMA UnitIs ==
  ASSUME unit \in Units
  PROVE  /\ IsUnit(unit)
         /\ Len(unit.functions) \in Nat /\ DOMAIN unit.functions = 1..Len(unit.functions)
         /\ Len(unit.classes) \in Nat /\ DOMAIN unit.classes = 1..Len(unit.classes)
         /\ \A kind \in Kinds : \A i \in DOMAIN DeclsOf(kind) :
              DeclsOf(kind)[i].type \in TypeTrees /\ DeclsOf(kind)[i].type.kind # "number"
<1>1. IsUnit(unit)
  BY TypesAssumption
<1>2. /\ Len(unit.functions) \in Nat /\ DOMAIN unit.functions = 1..Len(unit.functions)
      /\ Len(unit.classes) \in Nat /\ DOMAIN unit.classes = 1..Len(unit.classes)
  BY <1>1, LenProperties DEF IsUnit
<1>3. /\ \A i \in DOMAIN unit.functions : unit.functions[i].type \in TypeTrees
      /\ \A i \in DOMAIN unit.classes : unit.classes[i].type \in TypeTrees
  <2>1. \A i \in DOMAIN unit.functions :
          unit.functions[i] \in [owner : STRING, params : Seq(STRING), type : TypeTrees, odd : BOOLEAN]
    BY <1>1, <1>2, ElementOfSeq DEF IsUnit
  <2>2. \A i \in DOMAIN unit.classes :
          unit.classes[i] \in [name : STRING, params : Seq(STRING), type : TypeTrees]
    BY <1>1, <1>2, ElementOfSeq DEF IsUnit
  <2> QED BY <2>1, <2>2
<1>4. /\ \A i \in DOMAIN unit.functions : unit.functions[i].type.kind # "number"
      /\ \A i \in DOMAIN unit.classes : unit.classes[i].type.kind # "number"
  BY <1>1 DEF IsUnit, Range
<1> QED BY <1>1, <1>2, <1>3, <1>4 DEF Kinds, DeclsOf

\* A function sees the parameters of its class: there is one class of its name.
LEMMA FunctionSees ==
  ASSUME unit \in Units, scope = {}, NEW i \in DOMAIN unit.functions
  PROVE  DeclaredNames \cup SeenBy(unit.functions[i]) = ParametersOf("functions", i)
<1> DEFINE f == unit.functions[i]
           own == {d \in Range(unit.classes) : d.name = f.owner}
<1>1. CASE f.owner \in ClassNames
  <2> DEFINE k == CHOOSE j \in DOMAIN unit.classes : unit.classes[j].name = f.owner
  <2>1. k \in DOMAIN unit.classes /\ unit.classes[k].name = f.owner
    BY <1>1 DEF ClassNames
  <2>2. ParamsOf[f.owner] = unit.classes[k].params
    BY <1>1 DEF ParamsOf
  <2> HIDE DEF k
  <2>3. own = {unit.classes[k]}
    BY <2>1, UnitIs DEF IsUnit, Range
  <2>4. UNION {Range(c.params) : c \in own} = Range(unit.classes[k].params)
    BY <2>3
  <2> QED BY <1>1, <2>2, <2>4 DEF SeenBy, ParametersOf
<1>2. CASE f.owner \notin ClassNames
  <2>1. own = {}
    BY <1>2 DEF ClassNames, Range
  <2> QED BY <1>2, <2>1 DEF SeenBy, ParametersOf
<1> QED BY <1>1, <1>2

\* The errors with the resolver at declaration t of kind k, when it says what is strange.
LEMMA OneMore ==
  ASSUME TypesInv, unit' = unit, ypc' = ypc, turn' = turn + 1, ypc \in Kinds,
         turn \in DOMAIN DeclsOf(ypc), NEW rules, Fault(rules),
         "unknown-type" \in rules <=> Strange(ypc, turn)
  PROVE  FaultsFit'
<1>1. ASSUME NEW kind \in Kinds, NEW i \in DOMAIN DeclsOf(kind)
      PROVE  <<"unknown-type", kind, i>> \in faults' <=> HasBeenAt(kind, i)' /\ Strange(kind, i)
  <2>1. <<"unknown-type", kind, i>> \in faults' <=>
          \/ <<"unknown-type", kind, i>> \in faults
          \/ "unknown-type" \in rules /\ kind = ypc /\ i = turn
    BY DEF Fault
  <2>2. i \in Nat /\ turn \in Nat
    BY UnitIs DEF TypesInv, Kinds, DeclsOf
  <2>3. HasBeenAt(kind, i)' <=> HasBeenAt(kind, i) \/ (kind = ypc /\ i = turn)
    BY <2>2 DEF HasBeenAt, TypesInv
  <2>4. kind = ypc /\ i = turn => ~HasBeenAt(kind, i)
    BY <2>2 DEF HasBeenAt, TypesInv, Kinds
  <2>5. <<"unknown-type", kind, i>> \in faults <=> HasBeenAt(kind, i) /\ Strange(kind, i)
    BY DEF TypesInv, FaultsFit
  <2> QED BY <2>1, <2>3, <2>4, <2>5
<1>2. \A kind, i : Strange(kind, i)' <=> Strange(kind, i)
  BY DEF Strange, DeclsOf, ParametersOf, DeclaredNames, ClassNames
<1>3. \A kind : DeclsOf(kind)' = DeclsOf(kind)
  BY DEF DeclsOf
<1> QED BY <1>1, <1>2, <1>3 DEF FaultsFit

\* Behind the last declaration of a kind nothing more is said of it.
LEMMA NextPhase ==
  ASSUME TypesInv, NEW here, NEW next, NEW units, Phase(here, next, units),
         \/ here = "functions" /\ next = "classes" /\ units = unit.functions
         \/ here = "classes" /\ next = "checked" /\ units = unit.classes
  PROVE  TypesInv'
<1>1. unit' = unit /\ scope' = scope /\ faults' = faults /\ turn' = 1 /\ ypc' = next /\ ypc = here
      /\ turn > Len(units)
  BY DEF Phase
<1>2. \A kind, i : Strange(kind, i)' <=> Strange(kind, i)
  BY <1>1 DEF Strange, DeclsOf, ParametersOf, DeclaredNames, ClassNames
<1>3. \A kind : DeclsOf(kind)' = DeclsOf(kind)
  BY <1>1 DEF DeclsOf
<1>4. ASSUME NEW kind \in Kinds, NEW i \in DOMAIN DeclsOf(kind)
      PROVE  HasBeenAt(kind, i)' <=> HasBeenAt(kind, i)
  <2>1. i \in Nat /\ i >= 1 /\ turn \in Nat /\ (kind = here => i < turn)
    BY <1>1, UnitIs DEF TypesInv, Kinds, DeclsOf
  <2> QED BY <1>1, <2>1 DEF HasBeenAt, Kinds
<1>5. FaultsFit'
  BY <1>1, <1>2, <1>3, <1>4 DEF TypesInv, FaultsFit
<1> QED BY <1>1, <1>5 DEF TypesInv

\* The invariant is inductive.
LEMMA TypesStep == TypesInv /\ [TypeNext]_typeVars => TypesInv'
<1> SUFFICES ASSUME TypesInv, [TypeNext]_typeVars PROVE TypesInv'
  OBVIOUS
<1>1. CASE CheckFunction
  <2> DEFINE f == unit.functions[turn]
             rules == BrokenRules(f.type, SeenBy(f)) \cup {r \in {"T003"} : Repeated(f.params)}
                        \cup {r \in {"odd"} : f.odd}
  <2>1. /\ unit' = unit /\ ypc' = ypc /\ ypc = "functions" /\ turn' = turn + 1
        /\ turn <= Len(unit.functions) /\ Fault(rules) /\ scope' = {}
    BY <1>1 DEF CheckFunction, Behind
  <2>2. turn \in DOMAIN unit.functions /\ DeclsOf(ypc) = unit.functions
    BY <2>1, UnitIs DEF TypesInv, DeclsOf
  <2>3. DeclaredNames \cup SeenBy(f) = ParametersOf("functions", turn)
    BY <2>2, FunctionSees DEF TypesInv
  <2>4. "unknown-type" \in rules <=> Strange(ypc, turn)
    BY <2>1, <2>2, <2>3 DEF BrokenRules, Strange
  <2> HIDE DEF rules
  <2>5. FaultsFit'
    BY <2>1, <2>2, <2>4, OneMore DEF Kinds
  <2> QED BY <2>1, <2>5 DEF TypesInv
<1>2. CASE CheckClass
  <2> DEFINE c == unit.classes[turn]
             rules == BrokenRules(c.type, scope \cup Range(c.params))
  <2>1. /\ unit' = unit /\ ypc' = ypc /\ ypc = "classes" /\ turn' = turn + 1
        /\ turn <= Len(unit.classes) /\ Fault(rules) /\ scope' = {}
    BY <1>2 DEF CheckClass, TypesInv
  <2>2. turn \in DOMAIN unit.classes /\ DeclsOf(ypc) = unit.classes
    BY <2>1, UnitIs DEF TypesInv, DeclsOf
  <2>3. DeclaredNames \cup (scope \cup Range(c.params)) = ParametersOf("classes", turn)
    BY DEF TypesInv, ParametersOf
  <2>4. "unknown-type" \in rules <=> Strange(ypc, turn)
    BY <2>1, <2>2, <2>3 DEF BrokenRules, Strange
  <2> HIDE DEF rules
  <2>5. FaultsFit'
    BY <2>1, <2>2, <2>4, OneMore DEF Kinds
  <2> QED BY <2>1, <2>5 DEF TypesInv
<1>3. CASE Phase("functions", "classes", unit.functions) \/ Phase("classes", "checked", unit.classes)
  BY <1>3, NextPhase
<1>4. CASE UNCHANGED typeVars
  <2>1. /\ unit' = unit /\ ypc' = ypc /\ turn' = turn /\ scope' = scope /\ faults' = faults
    BY <1>4 DEF typeVars
  <2>2. \A kind, i : (Strange(kind, i)' <=> Strange(kind, i)) /\ (HasBeenAt(kind, i)' <=> HasBeenAt(kind, i))
    BY <2>1 DEF Strange, DeclsOf, ParametersOf, DeclaredNames, ClassNames, HasBeenAt
  <2>3. \A kind : DeclsOf(kind)' = DeclsOf(kind)
    BY <2>1 DEF DeclsOf
  <2>4. FaultsFit'
    BY <2>1, <2>2, <2>3 DEF TypesInv, FaultsFit
  <2> QED BY <2>1, <2>4 DEF TypesInv
<1> QED BY <1>1, <1>2, <1>3, <1>4 DEF TypeNext

\* It says what is wanted when all declarations have been seen.
LEMMA TypesFit == TypesInv => TypesAreKnown
<1> SUFFICES ASSUME TypesInv, ypc = "checked",
                    NEW kind \in Kinds, NEW i \in DOMAIN DeclsOf(kind)
             PROVE  <<"unknown-type", kind, i>> \in faults
                      <=> \/ Unresolved(DeclsOf(kind)[i].type, ParametersOf(kind, i))
                          \/ Misplaced(DeclsOf(kind)[i].type)
  BY DEF TypesAreKnown, Kinds, DeclsOf
\* What the property leaves open is refused for no other reason.
<1>1. DeclsOf(kind)[i].type \in TypeTrees /\ DeclsOf(kind)[i].type.kind # "number"
  BY UnitIs DEF TypesInv
<1>2. Strange(kind, i) <=> Bad(DeclsOf(kind)[i].type, ParametersOf(kind, i))
  BY <1>1, AllAreJudged DEF Strange, Judged
<1> QED BY <1>1, <1>2, BadIs DEF TypesInv, FaultsFit, HasBeenAt

\* A type is refused where it has a part that its declaration does not know, a name of
\* a backend that the registry has not, or a part that has no layout, and for no other
\* reason unless it has one outside the byte contract inside: no template parameter is
\* left behind for a later declaration, and none of its own or of its class is missed
\* (SemanticAnalyzer::validateTypes with TypeResolver::isValidType), for types nested to
\* any depth and any number of declarations.
THEOREM TypesAlwaysKnown == TypeSpec => []TypesAreKnown
<1>1. TypeInit => TypesInv
  <2> SUFFICES ASSUME TypeInit PROVE TypesInv
    OBVIOUS
  <2>1. ASSUME NEW kind \in Kinds, NEW i \in DOMAIN DeclsOf(kind) PROVE ~HasBeenAt(kind, i)
    <3>1. i \in Nat /\ i >= 1
      BY UnitIs DEF TypeInit, Kinds, DeclsOf
    <3> QED BY <3>1 DEF TypeInit, HasBeenAt
  <2> QED BY <2>1 DEF TypeInit, TypesInv, FaultsFit
<1> QED BY <1>1, TypesStep, TypesFit, PTL DEF TypeSpec
=============================================================================
