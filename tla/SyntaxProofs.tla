---------------------------- MODULE SyntaxProofs ----------------------------
(***************************************************************************)
(* Proofs about the lexer and the parser.  The lexer accounts for every    *)
(* character of a text, however long: what is known between two tokens is  *)
(* where each of them ends, and that what lies between them was skipped or *)
(* reported.  The parser keeps the tokens in order, reads to the end what  *)
(* it accepts and moves on in its loops, for inputs of any length, any     *)
(* limit on the errors and on the recursion: what is known at each step is *)
(* that the tokens ahead are a row, and what the steps that are left will  *)
(* make of them.                                                           *)
(***************************************************************************)
EXTENDS Lexer, Parser, TLAPS, SequenceTheorems, FiniteSetTheorems, WellFoundedInduction

-----------------------------------------------------------------------------
(* The invariant.                                                          *)

\* A set of numbers that is not empty has a least one.
LEMMA Least ==
  ASSUME NEW K, K \subseteq Nat, K # {}
  PROVE  \E x \in K : \A y \in K : x <= y
<1> DEFINE W == {0..x : x \in K}
<1>1. W \subseteq FiniteSubsetsOf(Nat) /\ W # {}
  <2>1. \A x \in K : IsFiniteSet(0..x) /\ 0..x \in SUBSET Nat
    BY FS_Interval
  <2> QED
    BY <2>1 DEF FiniteSubsetsOf
<1>2. \E w \in W : \A u \in W : ~(<<u, w>> \in StrictSubsetOrdering(Nat))
  <2>1. IsWellFoundedOn(StrictSubsetOrdering(Nat), FiniteSubsetsOf(Nat))
    BY FS_StrictSubsetOrderingWellFounded, Zenon
  <2> HIDE DEF W
  <2> QED
    BY <1>1, <2>1, WFMin, Zenon
<1>3. PICK x \in K : \A y \in K : ~(<<0..y, 0..x>> \in StrictSubsetOrdering(Nat))
  BY <1>2
<1>4. ASSUME NEW y \in K, ~(x <= y) PROVE FALSE
  <2>1. 0..y \subseteq 0..x /\ x \in 0..x /\ x \notin 0..y
    BY <1>4
  <2>2. 0..y \in SUBSET Nat /\ 0..x \in SUBSET Nat
    BY <1>4
  <2> QED
    BY <1>3, <2>1, <2>2 DEF StrictSubsetOrdering
<1> QED
  BY <1>4

-----------------------------------------------------------------------------
\* What a token can be.
Kinds == {"id", "int", "str", "op", "error"}

\* The state keeps its types.
LexerTypes ==
  /\ text \in Seq(Chars)
  /\ lpos \in 1..(Len(text) + 1)
  /\ lexemes \in Seq([kind : Kinds, from : Nat, to : Nat])

\* A token ends where it must: nothing that follows could have been part of it.
Spelled(x) ==
  CASE x.kind = "id" -> Char(x.to + 1) \notin Letters \cup Digits
    [] x.kind = "int" -> Char(x.to + 1) \notin Digits
    [] x.kind = "str" -> "n" \notin {text[p] : p \in Span(x)}
    [] x.kind = "op" -> ~Operator(Append(SubSeq(text, x.from, x.to), Char(x.to + 1)))
    [] OTHER -> TRUE

\* What was read lies behind what is skipped, reported or in a token, each token behind the
\* one before it.
Tiled ==
  /\ trivia \subseteq 1..(lpos - 1) /\ wrong \subseteq 1..(lpos - 1) /\ trivia \cap wrong = {}
  /\ \A i \in DOMAIN lexemes :
       /\ 1 <= lexemes[i].from /\ lexemes[i].from <= lexemes[i].to /\ lexemes[i].to < lpos
       /\ lexemes[i].kind = "error" => Span(lexemes[i]) \subseteq wrong
       /\ lexemes[i].kind # "error" => Span(lexemes[i]) \cap (trivia \cup wrong) = {}
       /\ Spelled(lexemes[i])
  /\ \A i, j \in DOMAIN lexemes : i < j => lexemes[i].to < lexemes[j].from
  /\ \A p \in 1..(lpos - 1) :
       \/ p \in trivia \cup wrong
       \/ \E i \in DOMAIN lexemes : lexemes[i].kind # "error" /\ p \in Span(lexemes[i])

\* What holds before each token.
LexerInv == LexerTypes /\ Tiled

\* Where a run of characters ends.
LEMMA RunEndIs ==
  ASSUME LexerTypes, NEW i \in 1..(Len(text) + 1), NEW set, "end" \notin set
  PROVE  /\ RunEnd(i, set) \in i..(Len(text) + 1)
         /\ Char(RunEnd(i, set)) \notin set
         /\ \A k \in i..(RunEnd(i, set) - 1) : Char(k) \in set
<1> DEFINE K == {j \in i..(Len(text) + 1) : Char(j) \notin set}
<1>1. Len(text) \in Nat
  BY LenProperties DEF LexerTypes
<1>2. Len(text) + 1 \in K
  BY <1>1 DEF Char, AtEnd
<1>3. PICK j \in K : \A y \in K : j <= y
  <2>1. K \subseteq Nat
    BY <1>1
  <2> QED
    BY <1>2, <2>1, Least
<1>4. j \in i..(Len(text) + 1) /\ Char(j) \notin set
  BY <1>3
<1>5. \A k \in i..(j - 1) : Char(k) \in set
  <2> SUFFICES ASSUME NEW k \in i..(j - 1), Char(k) \notin set PROVE FALSE
    OBVIOUS
  <2>1. k \in K /\ ~(j <= k)
    BY <1>1, <1>4
  <2> QED
    BY <1>3, <2>1
<1> HIDE DEF K
<1>6. \E e \in i..(Len(text) + 1) : Char(e) \notin set /\ \A k \in i..(e - 1) : Char(k) \in set
  BY <1>4, <1>5
<1> QED
  BY <1>6 DEF RunEnd

\* A token that is whole, as long as it says and not an error.
LEMMA EmitKeeps ==
  ASSUME LexerInv, NEW kind \in Kinds \ {"error"}, NEW to \in lpos..Len(text),
         Emit(kind, to), UNCHANGED wrong,
         Spelled([kind |-> kind, from |-> lpos, to |-> to])
  PROVE  LexerInv'
<1> DEFINE x == [kind |-> kind, from |-> lpos, to |-> to]
           n == Len(lexemes)
<1>1. Len(text) \in Nat /\ lpos \in 1..(Len(text) + 1) /\ n \in Nat /\ DOMAIN lexemes = 1..n
  BY LenProperties DEF LexerInv, LexerTypes
<1>2. x \in [kind : Kinds, from : Nat, to : Nat]
  BY <1>1
<1>3. UNCHANGED <<text, trivia, wrong>> /\ lpos' = to + 1 /\ lexemes' = Append(lexemes, x)
  BY DEF Emit
<1>13. x.kind = kind /\ x.from = lpos /\ x.to = to /\ Span(x) = lpos..to /\ Spelled(x)
  BY DEF Span
<1> HIDE DEF x
<1>4. /\ lexemes' \in Seq([kind : Kinds, from : Nat, to : Nat])
      /\ DOMAIN lexemes' = 1..(n + 1)
      /\ \A i \in 1..n : lexemes'[i] = lexemes[i]
      /\ lexemes'[n + 1] = x
  BY <1>2, <1>3, AppendProperties, LenProperties DEF LexerInv, LexerTypes
<1>5. LexerTypes'
  BY <1>1, <1>3, <1>4 DEF LexerInv, LexerTypes
<1>6. \A i \in 1..n : /\ lexemes[i] \in [kind : Kinds, from : Nat, to : Nat]
                      /\ lexemes[i].to < lpos
  BY <1>1, ElementOfSeq DEF LexerInv, LexerTypes, Tiled
<1>7. trivia \subseteq 1..(to + 1 - 1) /\ wrong \subseteq 1..(to + 1 - 1)
  BY <1>1 DEF LexerInv, Tiled
<1>8. ASSUME NEW i \in DOMAIN lexemes'
      PROVE  /\ 1 <= lexemes'[i].from /\ lexemes'[i].from <= lexemes'[i].to
             /\ lexemes'[i].to < lpos'
             /\ lexemes'[i].kind = "error" => Span(lexemes'[i]) \subseteq wrong
             /\ lexemes'[i].kind # "error" => Span(lexemes'[i]) \cap (trivia \cup wrong) = {}
             /\ Spelled(lexemes'[i])
  <2>1. CASE i = n + 1
    <3>1. Span(x) \cap (trivia \cup wrong) = {}
      BY <1>1, <1>13 DEF LexerInv, Tiled
    <3>2. lexemes'[i] = x /\ x.kind # "error"
      BY <1>13, <1>4, <2>1
    <3>3. 1 <= x.from /\ x.from <= x.to /\ x.to < lpos' /\ Spelled(x)
      BY <1>1, <1>3, <1>13
    <3> QED
      BY <3>1, <3>2, <3>3
  <2>2. CASE i \in 1..n
    <3>1. /\ 1 <= lexemes[i].from /\ lexemes[i].from <= lexemes[i].to
          /\ lexemes[i].kind = "error" => Span(lexemes[i]) \subseteq wrong
          /\ lexemes[i].kind # "error" => Span(lexemes[i]) \cap (trivia \cup wrong) = {}
          /\ Spelled(lexemes[i])
      BY <1>1, <2>2 DEF LexerInv, Tiled
    <3>2. lexemes[i].to < lpos'
      BY <1>1, <1>3, <1>6, <2>2
    <3> QED
      BY <1>4, <2>2, <3>1, <3>2
  <2> QED
    BY <1>1, <1>4, <2>1, <2>2
<1>9. ASSUME NEW i \in DOMAIN lexemes', NEW j \in DOMAIN lexemes', i < j
      PROVE  lexemes'[i].to < lexemes'[j].from
  <2>1. i \in 1..n
    BY <1>1, <1>4, <1>9
  <2>2. CASE j = n + 1
    BY <1>13, <1>4, <1>6, <2>1, <2>2
  <2>3. CASE j \in 1..n
    BY <1>1, <1>4, <1>9, <2>1, <2>3 DEF LexerInv, Tiled
  <2> QED
    BY <1>1, <1>4, <2>2, <2>3
<1>10. ASSUME NEW p \in 1..(lpos' - 1)
       PROVE  \/ p \in trivia \cup wrong
              \/ \E i \in DOMAIN lexemes' : lexemes'[i].kind # "error" /\ p \in Span(lexemes'[i])
  <2>1. CASE p < lpos
    <3>1. \/ p \in trivia \cup wrong
          \/ \E i \in DOMAIN lexemes : lexemes[i].kind # "error" /\ p \in Span(lexemes[i])
      BY <1>1, <1>3, <2>1 DEF LexerInv, Tiled
    <3> QED
      BY <1>1, <1>4, <3>1
  <2>2. CASE ~(p < lpos)
    <3>1. p \in Span(x) /\ x.kind # "error"
      BY <1>1, <1>3, <1>13, <2>2
    <3>2. n + 1 \in DOMAIN lexemes'
      BY <1>1, <1>4
    <3> QED
      BY <1>4, <3>1, <3>2
  <2> QED
    BY <2>1, <2>2
<1>11. \A y : Spelled(y)' <=> Spelled(y)
  BY <1>3 DEF Spelled, Char, AtEnd
<1>12. \A y : Span(y)' = Span(y)
  BY DEF Span
<1> QED
  BY <1>3, <1>5, <1>7, <1>8, <1>9, <1>10, <1>11, <1>12 DEF LexerInv, Tiled

\* The rest of a run is reported, with an error token for it.
LEMMA RejectKeeps ==
  ASSUME LexerInv, NEW next \in (lpos + 1)..(Len(text) + 1), Reject(next)
  PROVE  LexerInv'
<1> DEFINE x == [kind |-> "error", from |-> lpos, to |-> next - 1]
           n == Len(lexemes)
<1>1. /\ Len(text) \in Nat /\ lpos \in 1..(Len(text) + 1) /\ n \in Nat /\ DOMAIN lexemes = 1..n
      /\ next \in Nat /\ next - 1 \in Nat /\ lpos <= next - 1
  BY LenProperties DEF LexerInv, LexerTypes
<1>2. x \in [kind : Kinds, from : Nat, to : Nat]
  BY <1>1 DEF Kinds
<1>3. UNCHANGED <<text, trivia>> /\ lpos' = next /\ lexemes' = Append(lexemes, x)
      /\ wrong' = wrong \cup lpos..(next - 1)
  BY <1>1 DEF Reject, Emit
<1>13. x.kind = "error" /\ x.from = lpos /\ x.to = next - 1 /\ Span(x) = lpos..(next - 1)
       /\ Spelled(x)
  BY DEF Span, Spelled
<1> HIDE DEF x
<1>4. /\ lexemes' \in Seq([kind : Kinds, from : Nat, to : Nat])
      /\ DOMAIN lexemes' = 1..(n + 1)
      /\ \A i \in 1..n : lexemes'[i] = lexemes[i]
      /\ lexemes'[n + 1] = x
  BY <1>2, <1>3, AppendProperties, LenProperties DEF LexerInv, LexerTypes
<1>5. LexerTypes'
  BY <1>1, <1>3, <1>4 DEF LexerInv, LexerTypes
<1>6. \A i \in 1..n : /\ lexemes[i] \in [kind : Kinds, from : Nat, to : Nat]
                      /\ lexemes[i].to < lpos
  BY <1>1, ElementOfSeq DEF LexerInv, LexerTypes, Tiled
<1>7. trivia' \subseteq 1..(lpos' - 1) /\ wrong' \subseteq 1..(lpos' - 1) /\ trivia' \cap wrong' = {}
  BY <1>1, <1>3 DEF LexerInv, Tiled
<1>8. ASSUME NEW i \in DOMAIN lexemes'
      PROVE  /\ 1 <= lexemes'[i].from /\ lexemes'[i].from <= lexemes'[i].to
             /\ lexemes'[i].to < lpos'
             /\ lexemes'[i].kind = "error" => Span(lexemes'[i]) \subseteq wrong'
             /\ lexemes'[i].kind # "error" => Span(lexemes'[i]) \cap (trivia' \cup wrong') = {}
             /\ Spelled(lexemes'[i])
  <2>1. CASE i = n + 1
    BY <1>1, <1>3, <1>13, <1>4, <2>1
  <2>2. CASE i \in 1..n
    <3>1. /\ 1 <= lexemes[i].from /\ lexemes[i].from <= lexemes[i].to
          /\ lexemes[i].kind = "error" => Span(lexemes[i]) \subseteq wrong
          /\ lexemes[i].kind # "error" => Span(lexemes[i]) \cap (trivia \cup wrong) = {}
          /\ Spelled(lexemes[i])
      BY <1>1, <2>2 DEF LexerInv, Tiled
    <3>2. lexemes[i].to < lpos'
      BY <1>1, <1>3, <1>6, <2>2
    <3>3. Span(lexemes[i]) \cap lpos..(next - 1) = {}
      BY <1>1, <1>6, <2>2 DEF Span
    <3> QED
      BY <1>3, <1>4, <2>2, <3>1, <3>2, <3>3
  <2> QED
    BY <1>1, <1>4, <2>1, <2>2
<1>9. ASSUME NEW i \in DOMAIN lexemes', NEW j \in DOMAIN lexemes', i < j
      PROVE  lexemes'[i].to < lexemes'[j].from
  <2>1. i \in 1..n
    BY <1>1, <1>4, <1>9
  <2>2. CASE j = n + 1
    BY <1>13, <1>4, <1>6, <2>1, <2>2
  <2>3. CASE j \in 1..n
    BY <1>1, <1>4, <1>9, <2>1, <2>3 DEF LexerInv, Tiled
  <2> QED
    BY <1>1, <1>4, <2>2, <2>3
<1>10. ASSUME NEW p \in 1..(lpos' - 1)
       PROVE  \/ p \in trivia' \cup wrong'
              \/ \E i \in DOMAIN lexemes' : lexemes'[i].kind # "error" /\ p \in Span(lexemes'[i])
  <2>1. CASE p < lpos
    <3>1. \/ p \in trivia \cup wrong
          \/ \E i \in DOMAIN lexemes : lexemes[i].kind # "error" /\ p \in Span(lexemes[i])
      BY <1>1, <1>3, <2>1 DEF LexerInv, Tiled
    <3> QED
      BY <1>1, <1>3, <1>4, <3>1
  <2>2. CASE ~(p < lpos)
    BY <1>1, <1>3, <2>2
  <2> QED
    BY <2>1, <2>2
<1>11. \A y : Spelled(y)' <=> Spelled(y)
  BY <1>3 DEF Spelled, Char, AtEnd
<1>12. \A y : Span(y)' = Span(y)
  BY DEF Span
<1> QED
  BY <1>5, <1>7, <1>8, <1>9, <1>10, <1>11, <1>12 DEF LexerInv, Tiled

\* Characters are passed over without a token, skipped or reported.
LEMMA PassKeeps ==
  ASSUME LexerInv, NEW next \in (lpos + 1)..(Len(text) + 1), lpos' = next,
         UNCHANGED <<text, lexemes>>,
         \/ trivia' = trivia \cup lpos..(next - 1) /\ wrong' = wrong
         \/ wrong' = wrong \cup lpos..(next - 1) /\ trivia' = trivia
  PROVE  LexerInv'
<1>1. Len(text) \in Nat /\ lpos \in 1..(Len(text) + 1) /\ next \in Nat /\ lpos < next
  BY LenProperties DEF LexerInv, LexerTypes
<1>2. LexerTypes'
  BY <1>1 DEF LexerInv, LexerTypes
<1>3. /\ trivia' \subseteq 1..(lpos' - 1) /\ wrong' \subseteq 1..(lpos' - 1)
      /\ trivia' \cap wrong' = {}
  <2>1. trivia \subseteq 1..(lpos - 1) /\ wrong \subseteq 1..(lpos - 1) /\ trivia \cap wrong = {}
    BY DEF LexerInv, Tiled
  <2>2. /\ 1..(lpos - 1) \subseteq 1..(next - 1) /\ lpos..(next - 1) \subseteq 1..(next - 1)
        /\ 1..(lpos - 1) \cap lpos..(next - 1) = {}
    BY <1>1
  <2>3. CASE trivia' = trivia \cup lpos..(next - 1) /\ wrong' = wrong
    BY <2>1, <2>2, <2>3
  <2>4. CASE wrong' = wrong \cup lpos..(next - 1) /\ trivia' = trivia
    BY <2>1, <2>2, <2>4
  <2> QED
    BY <2>3, <2>4
<1>4. ASSUME NEW i \in DOMAIN lexemes
      PROVE  /\ lexemes[i].to < lpos'
             /\ lexemes[i].kind = "error" => Span(lexemes[i]) \subseteq wrong'
             /\ lexemes[i].kind # "error" => Span(lexemes[i]) \cap (trivia' \cup wrong') = {}
  <2>1. lexemes[i].to \in Nat /\ lexemes[i].from \in Nat
    <3>1. lexemes[i] \in [kind : Kinds, from : Nat, to : Nat]
      BY ElementOfSeq, LenProperties DEF LexerInv, LexerTypes
    <3> QED
      BY <3>1
  <2>2. /\ lexemes[i].to < lpos
        /\ lexemes[i].kind = "error" => Span(lexemes[i]) \subseteq wrong
        /\ lexemes[i].kind # "error" => Span(lexemes[i]) \cap (trivia \cup wrong) = {}
    BY DEF LexerInv, Tiled
  <2>3. Span(lexemes[i]) \cap lpos..(next - 1) = {}
    BY <1>1, <2>1, <2>2 DEF Span
  <2> QED
    BY <1>1, <2>1, <2>2, <2>3
<1>5. ASSUME NEW p \in 1..(lpos' - 1)
      PROVE  \/ p \in trivia' \cup wrong'
             \/ \E i \in DOMAIN lexemes : lexemes[i].kind # "error" /\ p \in Span(lexemes[i])
  <2>1. p \in 1..(lpos - 1) \/ p \in lpos..(next - 1)
    BY <1>1
  <2> QED
    BY <2>1 DEF LexerInv, Tiled
<1>6. \A y : (Spelled(y)' <=> Spelled(y)) /\ Span(y)' = Span(y)
  BY DEF Spelled, Char, AtEnd, Span
<1>7. /\ \A i \in DOMAIN lexemes :
            1 <= lexemes[i].from /\ lexemes[i].from <= lexemes[i].to /\ Spelled(lexemes[i])
      /\ \A i, j \in DOMAIN lexemes : i < j => lexemes[i].to < lexemes[j].from
  BY DEF LexerInv, Tiled
<1> QED
  BY <1>2, <1>3, <1>4, <1>5, <1>6, <1>7 DEF LexerInv, Tiled

-----------------------------------------------------------------------------
\* It holds in the initial states.
LEMMA LexerStarts == LexerInit => LexerInv
<1> SUFFICES ASSUME LexerInit PROVE LexerInv
  OBVIOUS
<1>1. PICK n \in 1..MaxText : text \in [1..n -> Chars]
  BY DEF LexerInit
<1>2. text \in Seq(Chars) /\ Len(text) \in Nat
  <2>1. n \in Nat
    OBVIOUS
  <2> QED
    BY <1>1, <2>1, SeqDef, LenProperties
<1>3. lexemes = <<>> /\ lexemes \in Seq([kind : Kinds, from : Nat, to : Nat]) /\ DOMAIN lexemes = {}
  BY EmptySeq, LenProperties DEF LexerInit
<1> QED
  BY <1>2, <1>3 DEF LexerInit, LexerInv, LexerTypes, Tiled

\* Characters that are there are letters of the text, and "end" is behind it.
LEMMA CharIs ==
  ASSUME LexerTypes
  PROVE  /\ Len(text) \in Nat
         /\ \A i \in 1..Len(text) : Char(i) = text[i] /\ text[i] \in Chars
         /\ \A i \in Nat : Char(i) # "end" => i <= Len(text)
         /\ "end" \notin Chars
<1>1. Len(text) \in Nat /\ \A i \in 1..Len(text) : text[i] \in Chars
  BY LenProperties, ElementOfSeq DEF LexerTypes
<1>2. "end" \notin Chars
  BY DEF Chars, Letters, Digits, Blank
<1> QED
  BY <1>1, <1>2 DEF Char, AtEnd

\* Blanks and comments are passed over.
LEMMA CommentKeeps ==
  ASSUME LexerInv, ~AtEnd(lpos), SkipWhitespace \/ SkipBlockComment
  PROVE  LexerInv'
<1>1. LexerTypes /\ Len(text) \in Nat /\ lpos \in 1..Len(text)
  BY CharIs DEF LexerInv, LexerTypes, AtEnd
<1>2. CASE Ignore(lpos + 1)
  BY <1>1, <1>2, PassKeeps DEF Ignore
<1>3. CASE LineComment /\ Ignore(RunEnd(lpos + 2, Chars \ {"n"}))
  <2>1. lpos + 2 \in 1..(Len(text) + 1) /\ "end" \notin Chars \ {"n"}
    <3>1. Char(lpos + 1) # "end" /\ lpos + 1 \in Nat
      BY <1>1, <1>3 DEF LineComment
    <3> QED
      BY <1>1, <3>1, CharIs
  <2>2. RunEnd(lpos + 2, Chars \ {"n"}) \in (lpos + 2)..(Len(text) + 1)
    BY <1>1, <2>1, RunEndIs
  <2> DEFINE e == RunEnd(lpos + 2, Chars \ {"n"})
  <2> HIDE DEF e
  <2>3. e \in (lpos + 1)..(Len(text) + 1) /\ Ignore(e)
    BY <1>1, <1>3, <2>2 DEF e
  <2> QED
    BY <2>3, PassKeeps DEF Ignore
<1>4. CASE SkipBlockComment
  <2> DEFINE ends == {i \in (lpos + 2)..Len(text) : Char(i) = "*" /\ Char(i + 1) = "/"}
             e == CHOOSE i \in ends : \A j \in ends : i <= j
  <2>1. CASE ends = {}
    <3>1. wrong' = wrong \cup lpos..(Len(text) + 1 - 1) /\ lpos' = Len(text) + 1
          /\ UNCHANGED <<text, lexemes, trivia>>
      BY <1>1, <1>4, <2>1 DEF SkipBlockComment
    <3>2. Len(text) + 1 \in (lpos + 1)..(Len(text) + 1)
      BY <1>1
    <3> QED
      BY <3>1, <3>2, PassKeeps
  <2>2. CASE ends # {}
    <3>1. \E i \in ends : \A j \in ends : i <= j
      <4>1. ends \subseteq Nat
        BY <1>1
      <4> HIDE DEF ends
      <4> QED
        BY <2>2, <4>1, Least
    <3>2. e \in ends
      BY <3>1
    <3>3. e \in (lpos + 2)..Len(text) /\ Char(e + 1) = "/"
      BY <3>2
    <3>4. Ignore(e + 2)
      BY <1>4, <2>2 DEF SkipBlockComment
    <3> HIDE DEF e
    <3>5. e + 1 \in Nat /\ Char(e + 1) # "end"
      BY <1>1, <3>3
    <3>6. e + 1 <= Len(text)
      BY <1>1, <3>5, CharIs
    <3>7. e + 2 \in (lpos + 1)..(Len(text) + 1)
      BY <1>1, <3>3, <3>6
    <3> QED
      BY <3>4, <3>7, PassKeeps DEF Ignore
  <2> QED
    BY <2>1, <2>2
<1> QED
  BY <1>2, <1>3, <1>4 DEF SkipWhitespace

\* The sign at both ends of a string.
Quote == "\""

\* Words, numbers and strings, and what begins no token.
LEMMA WordKeeps ==
  ASSUME LexerInv, ~AtEnd(lpos), ScanIdentifier \/ ScanInteger \/ ScanString \/ Unexpected
  PROVE  LexerInv'
<1>1. LexerTypes /\ Len(text) \in Nat /\ lpos \in 1..Len(text) /\ lpos + 1 \in 1..(Len(text) + 1)
  BY CharIs DEF LexerInv, LexerTypes, AtEnd
<1>2. ASSUME NEW set, NEW kind \in {"id", "int"}, "end" \notin set, Char(lpos) \in set,
             set = IF kind = "id" THEN Letters \cup Digits ELSE Digits,
             Emit(kind, RunEnd(lpos, set) - 1), UNCHANGED wrong
      PROVE  LexerInv'
  <2> DEFINE e == RunEnd(lpos, set)
  <2>0. lpos \in 1..(Len(text) + 1)
    BY <1>1
  <2>1. /\ e \in lpos..(Len(text) + 1) /\ Char(e) \notin set
    BY <1>1, <1>2, <2>0, RunEndIs
  <2> HIDE DEF e
  <2>2. e # lpos
    BY <1>2, <2>1
  <2>3. e - 1 \in lpos..Len(text) /\ (e - 1) + 1 = e
    BY <1>1, <2>1, <2>2
  <2>4. Spelled([kind |-> kind, from |-> lpos, to |-> e - 1])
    BY <1>2, <2>1, <2>3 DEF Spelled
  <2>5. Emit(kind, e - 1) /\ kind \in Kinds \ {"error"}
    BY <1>2 DEF e, Kinds
  <2> QED
    BY <1>2, <2>3, <2>4, <2>5, EmitKeeps
<1>3. "end" \notin Letters \cup Digits /\ "end" \notin Digits
  BY DEF Letters, Digits
<1>4. CASE ScanIdentifier
  BY <1>2, <1>3, <1>4 DEF ScanIdentifier
<1>5. CASE ScanInteger
  BY <1>2, <1>3, <1>5 DEF ScanInteger
<1>6. CASE ScanString
  <2> DEFINE e == RunEnd(lpos + 1, Chars \ {Quote, "n"})
  <2>1. /\ e \in (lpos + 1)..(Len(text) + 1)
        /\ \A k \in (lpos + 1)..(e - 1) : Char(k) \in Chars \ {Quote, "n"}
    <3>1. "end" \notin Chars \ {Quote, "n"}
      BY <1>1, CharIs
    <3> QED
      BY <1>1, <3>1, RunEndIs
  <2>2. /\ Char(lpos) = Quote
        /\ IF Char(e) = Quote THEN Emit("str", e) /\ UNCHANGED wrong ELSE Reject(e)
    BY <1>6, Zenon DEF ScanString, Quote
  <2>2a. Quote # "end" /\ Quote # "n"
    BY Zenon DEF Quote
  <2> HIDE DEF e
  <2>3. CASE Char(e) = Quote
    <3>1. e \in Nat /\ e <= Len(text) /\ e \in lpos..Len(text)
      <4>1. e \in Nat
        BY <1>1, <2>1
      <4>2. Char(e) # "end"
        BY <2>2a, <2>3
      <4> QED
        BY <1>1, <2>1, <4>1, <4>2, CharIs
    <3>2. ASSUME NEW p \in lpos..e PROVE text[p] # "n"
      <4>1. p \in 1..Len(text) /\ Char(p) = text[p]
        BY <1>1, <3>1, CharIs
      <4>2. p = lpos \/ p = e \/ p \in (lpos + 1)..(e - 1)
        BY <1>1, <3>1
      <4> QED
        BY <2>1, <2>2, <2>2a, <2>3, <4>1, <4>2
    <3>3. Spelled([kind |-> "str", from |-> lpos, to |-> e])
      BY <3>2 DEF Spelled, Span
    <3>4. "str" \in Kinds \ {"error"}
      BY DEF Kinds
    <3> QED
      BY <2>2, <2>3, <3>1, <3>3, <3>4, EmitKeeps
  <2>4. CASE Char(e) # Quote
    BY <2>1, <2>2, <2>4, RejectKeeps
  <2> QED
    BY <2>3, <2>4
<1>7. CASE Unexpected
  <2>1. Reject(lpos + 1) /\ lpos + 1 \in (lpos + 1)..(Len(text) + 1)
    BY <1>1, <1>7 DEF Unexpected
  <2> QED
    BY <2>1, RejectKeeps
<1> QED
  BY <1>4, <1>5, <1>6, <1>7

\* Short pieces of a sequence, with what follows, written out.
LEMMA TupleOfTwo ==
  ASSUME NEW R, NEW s \in Seq(R), Len(s) = 2
  PROVE  s = <<s[1], s[2]>>
<1> DEFINE t == <<s[1], s[2]>>
<1>0. \A i \in 1..Len(s) : s[i] \in R
  BY ElementOfSeq
<1>1. s[1] \in R /\ s[2] \in R
  BY <1>0
<1>2. t \in Seq(R) /\ Len(t) = 2 /\ t[1] = s[1] /\ t[2] = s[2]
  BY <1>1
<1> HIDE DEF t
<1>3. s = t
  BY <1>2, SeqEqual
<1> QED
  BY <1>3 DEF t

\* And of three.
LEMMA TupleOfThree ==
  ASSUME NEW R, NEW s \in Seq(R), Len(s) = 3
  PROVE  s = <<s[1], s[2], s[3]>>
<1> DEFINE t == <<s[1], s[2], s[3]>>
<1>0. \A i \in 1..Len(s) : s[i] \in R
  BY ElementOfSeq
<1>1. s[1] \in R /\ s[2] \in R /\ s[3] \in R
  BY <1>0
<1>2. t \in Seq(R) /\ Len(t) = 3 /\ t[1] = s[1] /\ t[2] = s[2] /\ t[3] = s[3]
  BY <1>1
<1> HIDE DEF t
<1>3. s = t
  BY <1>2, SeqEqual
<1> QED
  BY <1>3 DEF t

\* And of four.
LEMMA TupleOfFour ==
  ASSUME NEW R, NEW s \in Seq(R), Len(s) = 4
  PROVE  s = <<s[1], s[2], s[3], s[4]>>
<1> DEFINE t == <<s[1], s[2], s[3], s[4]>>
<1>0. \A i \in 1..Len(s) : s[i] \in R
  BY ElementOfSeq
<1>1. s[1] \in R /\ s[2] \in R /\ s[3] \in R /\ s[4] \in R
  BY <1>0
<1>2. t \in Seq(R) /\ Len(t) = 4 /\ t[1] = s[1] /\ t[2] = s[2] /\ t[3] = s[3] /\ t[4] = s[4]
  BY <1>1
<1> HIDE DEF t
<1>3. s = t
  BY <1>2, SeqEqual
<1> QED
  BY <1>3 DEF t

\* A piece of the text and a character behind it.
LEMMA PieceIs ==
  ASSUME LexerTypes, NEW a \in 1..Len(text), NEW b \in a..Len(text), NEW k \in Nat \ {0}
  PROVE  LET s == Append(SubSeq(text, a, b), Char(k)) IN
         /\ s \in Seq(Chars \cup {"end"}) /\ Len(s) = b - a + 2
         /\ \A i \in 1..(b - a + 1) : s[i] = text[a + i - 1]
         /\ s[b - a + 2] = Char(k)
<1> DEFINE R == Chars \cup {"end"}
           u == SubSeq(text, a, b)
<1>1. Len(text) \in Nat /\ \A i \in 1..Len(text) : text[i] \in R
  BY LenProperties, ElementOfSeq DEF LexerTypes
<1>2. Char(k) \in R
  <2>1. CASE k \in 1..Len(text)
    BY <1>1, <2>1 DEF Char
  <2>2. CASE AtEnd(k)
    BY <2>2 DEF Char
  <2> QED
    BY <1>1, <2>1, <2>2 DEF AtEnd
<1>3. /\ u \in Seq(R) /\ Len(u) = b - a + 1
      /\ \A i \in 1..(b - a + 1) : u[i] = text[a + i - 1]
  <2>1. a \in Int /\ b \in Int /\ a <= b /\ \A i \in a..b : text[i] \in R
    BY <1>1
  <2> QED
    BY <2>1, SubSeqProperties
<1>7. Len(u) \in Nat
  BY <1>1, <1>3
<1> HIDE DEF u, R
<1> DEFINE s == Append(u, Char(k))
<1>4. /\ s \in Seq(R) /\ Len(s) = Len(u) + 1
      /\ \A i \in 1..Len(u) : s[i] = u[i]
      /\ s[Len(u) + 1] = Char(k)
  <2>1. Append(u, Char(k)) \in Seq(R) /\ Len(Append(u, Char(k))) = Len(u) + 1
    BY <1>2, <1>3, AppendProperties
  <2>2. \A i \in 1..Len(u) : Append(u, Char(k))[i] = u[i]
    BY <1>2, <1>3, <1>7, AppendProperties
  <2>3. Append(u, Char(k))[Len(u) + 1] = Char(k)
    BY <1>2, <1>3, <1>7, AppendProperties
  <2> QED
    BY <2>1, <2>2, <2>3
<1>5. (b - a + 1) + 1 = b - a + 2
  BY <1>1
<1> HIDE DEF s
<1>6. /\ s \in Seq(R) /\ Len(s) = b - a + 2
      /\ \A i \in 1..(b - a + 1) : s[i] = text[a + i - 1]
      /\ s[b - a + 2] = Char(k)
  BY <1>3, <1>4, <1>5
<1> QED
  BY <1>6 DEF s, u, R

\* What can follow an operator of two characters, or of three.
LEMMA OperatorsAre ==
  ASSUME NEW a, NEW b, NEW c, NEW d
  PROVE  /\ Operator(<<a, b, c>>) => a = "." /\ b = "." /\ c = "."
         /\ ~Operator(<<a, b, c, d>>)
         /\ Operator(<<a, b>>) => \/ <<a, b>> \in Pairs \/ <<a, b>> = <<".", ".">>
                                 \/ <<a, b>> = <<"/", "/">> \/ <<a, b>> = <<"/", "*">>
  BY DEF Operator, Pairs

\* Operators, of one to three characters.
LEMMA OperatorKeeps ==
  ASSUME LexerInv, ~AtEnd(lpos), ScanOperator
  PROVE  LexerInv'
<1>1. LexerTypes /\ Len(text) \in Nat /\ lpos \in 1..Len(text) /\ Char(lpos) = text[lpos]
  <2>1. LexerTypes /\ Len(text) \in Nat /\ lpos \in 1..Len(text)
    BY CharIs DEF LexerInv, LexerTypes, AtEnd
  <2> QED
    BY <2>1, CharIs
<1> DEFINE c(i) == Char(lpos + i)
<1>2. ASSUME NEW to \in lpos..Len(text), Emit("op", to), UNCHANGED wrong,
             ~Operator(Append(SubSeq(text, lpos, to), Char(to + 1)))
      PROVE  LexerInv'
  <2>1. Spelled([kind |-> "op", from |-> lpos, to |-> to]) /\ "op" \in Kinds \ {"error"}
    BY <1>2 DEF Spelled, Kinds
  <2> QED
    BY <1>2, <2>1, EmitKeeps
<1>3. ASSUME NEW i \in {1, 2}, Char(lpos + i) # "end"
      PROVE  lpos + i \in lpos..Len(text) /\ Char(lpos + i) = text[lpos + i]
  <2>1. lpos + i \in Nat
    BY <1>1
  <2>2. lpos + i <= Len(text)
    BY <1>1, <1>3, <2>1, CharIs
  <2> QED
    BY <1>1, <2>1, <2>2, CharIs
<1>4. UNCHANGED wrong /\ ~LineComment /\ ~BlockComment
  BY DEF ScanOperator
<1>5. ASSUME <<Char(lpos), Char(lpos + 1)>> \in Pairs, Emit("op", lpos + 1) PROVE LexerInv'
  <2>1. Char(lpos + 1) # "end" /\ Char(lpos) # "."
    BY <1>5 DEF Pairs
  <2>2. lpos + 1 \in lpos..Len(text) /\ lpos + 1 + 1 \in Nat \ {0}
    BY <1>1, <1>3, <2>1
  <2> DEFINE s == Append(SubSeq(text, lpos, lpos + 1), Char(lpos + 1 + 1))
  <2>3. s \in Seq(Chars \cup {"end"}) /\ Len(s) = 3 /\ s[1] = text[lpos]
    <3>1. /\ s \in Seq(Chars \cup {"end"}) /\ Len(s) = (lpos + 1) - lpos + 2
          /\ \A i \in 1..((lpos + 1) - lpos + 1) : s[i] = text[lpos + i - 1]
      BY <1>1, <2>2, PieceIs
    <3> HIDE DEF s
    <3>2. (lpos + 1) - lpos + 2 = 3 /\ 1 \in 1..((lpos + 1) - lpos + 1) /\ lpos + 1 - 1 = lpos
      BY <1>1
    <3> QED
      BY <3>1, <3>2
  <2>4. ~Operator(s)
    <3> HIDE DEF s
    <3>1. s = <<s[1], s[2], s[3]>>
      BY <2>3, TupleOfThree
    <3>2. s[1] # "."
      BY <1>1, <2>1, <2>3
    <3>3. ~Operator(<<s[1], s[2], s[3]>>)
      BY <3>2, OperatorsAre
    <3> QED
      BY <3>1, <3>3
  <2> QED
    BY <1>2, <1>4, <1>5, <2>2, <2>4
<1>6. ASSUME <<Char(lpos), Char(lpos + 1)>> = <<".", ".">>,
             Emit("op", IF Char(lpos + 2) = "." THEN lpos + 2 ELSE lpos + 1)
      PROVE  LexerInv'
  <2>1. Char(lpos + 1) # "end"
    BY <1>6
  <2>2. lpos + 1 \in lpos..Len(text)
    BY <1>3, <2>1
  <2>3. CASE Char(lpos + 2) = "."
    <3>1. lpos + 2 \in lpos..Len(text)
      BY <1>3, <2>3
    <3> DEFINE s == Append(SubSeq(text, lpos, lpos + 2), Char(lpos + 2 + 1))
    <3>2. s \in Seq(Chars \cup {"end"}) /\ Len(s) = 4
      <4>1. /\ s \in Seq(Chars \cup {"end"}) /\ Len(s) = (lpos + 2) - lpos + 2
        BY <1>1, <3>1, PieceIs
      <4>2. (lpos + 2) - lpos + 2 = 4
        BY <1>1
      <4> QED
        BY <4>1, <4>2
    <3>3. ~Operator(s)
      <4> HIDE DEF s
      <4>1. s = <<s[1], s[2], s[3], s[4]>>
        BY <3>2, TupleOfFour
      <4>2. ~Operator(<<s[1], s[2], s[3], s[4]>>)
        BY OperatorsAre
      <4> QED
        BY <4>1, <4>2
    <3> QED
      BY <1>2, <1>4, <1>6, <2>3, <3>1, <3>3
  <2>4. CASE Char(lpos + 2) # "."
    <3> DEFINE s == Append(SubSeq(text, lpos, lpos + 1), Char(lpos + 1 + 1))
    <3>1. s \in Seq(Chars \cup {"end"}) /\ Len(s) = 3 /\ s[3] = Char(lpos + 2)
      <4>0. lpos + 1 + 1 = lpos + 2 /\ lpos + 2 \in Nat \ {0}
        BY <1>1
      <4>1. /\ s \in Seq(Chars \cup {"end"}) /\ Len(s) = (lpos + 1) - lpos + 2
            /\ s[(lpos + 1) - lpos + 2] = Char(lpos + 2)
        BY <1>1, <2>2, <4>0, PieceIs
      <4> HIDE DEF s
      <4>2. (lpos + 1) - lpos + 2 = 3
        BY <1>1
      <4> QED
        BY <4>1, <4>2
    <3>3. ~Operator(s)
      <4> HIDE DEF s
      <4>1. s = <<s[1], s[2], s[3]>>
        BY <3>1, TupleOfThree
      <4>2. ~Operator(<<s[1], s[2], s[3]>>)
        BY <2>4, <3>1, OperatorsAre
      <4> QED
        BY <4>1, <4>2
    <3> QED
      BY <1>2, <1>4, <1>6, <2>2, <2>4, <3>3
  <2> QED
    BY <2>3, <2>4
<1>7. ASSUME <<Char(lpos), Char(lpos + 1)>> \notin Pairs \cup {<<".", ".">>}, Emit("op", lpos)
      PROVE  LexerInv'
  <2> DEFINE s == Append(SubSeq(text, lpos, lpos), Char(lpos + 1))
  <2>1. s \in Seq(Chars \cup {"end"}) /\ Len(s) = 2 /\ s[1] = text[lpos] /\ s[2] = Char(lpos + 1)
    <3>1. /\ s \in Seq(Chars \cup {"end"}) /\ Len(s) = lpos - lpos + 2
          /\ \A i \in 1..(lpos - lpos + 1) : s[i] = text[lpos + i - 1]
          /\ s[lpos - lpos + 2] = Char(lpos + 1)
      <4>1. lpos + 1 \in Nat \ {0} /\ lpos \in lpos..Len(text)
        BY <1>1
      <4> QED
        BY <1>1, <4>1, PieceIs
    <3> HIDE DEF s
    <3>2. lpos - lpos + 2 = 2 /\ 1 \in 1..(lpos - lpos + 1) /\ lpos + 1 - 1 = lpos
      BY <1>1
    <3> QED
      BY <3>1, <3>2
  <2>2. s = <<Char(lpos), Char(lpos + 1)>>
    <3> HIDE DEF s
    <3>1. s = <<s[1], s[2]>>
      BY <2>1, TupleOfTwo
    <3> QED
      BY <1>1, <2>1, <3>1
  <2>3. <<Char(lpos), Char(lpos + 1)>> # <<"/", "/">> /\ <<Char(lpos), Char(lpos + 1)>> # <<"/", "*">>
    BY <1>4 DEF LineComment, BlockComment
  <2>4. ~Operator(<<Char(lpos), Char(lpos + 1)>>)
    BY <1>7, <2>3, OperatorsAre
  <2>5. lpos \in lpos..Len(text)
    BY <1>1
  <2> QED
    BY <1>2, <1>4, <1>7, <2>2, <2>4, <2>5
<1> QED
  BY <1>5, <1>6, <1>7 DEF ScanOperator

\* Every step keeps the invariant.
LEMMA LexerKeeps ==
  ASSUME LexerInv, [LexerNext]_lexerVars
  PROVE  LexerInv'
<1>1. CASE UNCHANGED lexerVars
  BY <1>1 DEF lexerVars, LexerInv, LexerTypes, Tiled, Spelled, Char, AtEnd, Span
<1> QED
  BY <1>1, CommentKeeps, WordKeeps, OperatorKeeps DEF LexerNext

\* Every character of a text is in one token, or was skipped, or was reported, and each token is
\* as long as it can be (Lexer.cpp:292): of texts of any length.
THEOREM TextAlwaysTiled == LexerSpec => []TextIsTiled
<1>1. LexerInv => TextIsTiled
  <2> SUFFICES ASSUME LexerInv, Scanned PROVE TextIsTiled
    BY DEF TextIsTiled
  <2> DEFINE good == {j \in DOMAIN lexemes : lexemes[j].kind # "error"}
             spans == {Span(lexemes[i]) : i \in good}
  <2>1. Len(text) \in Nat /\ lpos = Len(text) + 1 /\ DOMAIN text = 1..Len(text)
        /\ DOMAIN lexemes \subseteq Nat
    BY LenProperties DEF LexerInv, LexerTypes, Scanned, AtEnd
  <2>2. ASSUME NEW p \in DOMAIN text
        PROVE  Cardinality({s \in spans \cup {trivia, wrong} : p \in s}) = 1
    <3>1. ASSUME NEW i \in good, NEW j \in good, p \in Span(lexemes[i]), p \in Span(lexemes[j])
          PROVE  i = j
      <4>0. p \in Nat /\ i \in Nat /\ j \in Nat
        BY <2>1
      <4>1. /\ lexemes[i].from \in Nat /\ lexemes[i].to \in Nat
            /\ lexemes[j].from \in Nat /\ lexemes[j].to \in Nat
        <5>1. /\ lexemes[i] \in [kind : Kinds, from : Nat, to : Nat]
              /\ lexemes[j] \in [kind : Kinds, from : Nat, to : Nat]
          BY ElementOfSeq, LenProperties DEF LexerInv, LexerTypes
        <5> QED
          BY <5>1
      <4>2. /\ lexemes[i].from <= p /\ p <= lexemes[i].to
            /\ lexemes[j].from <= p /\ p <= lexemes[j].to
        BY <3>1 DEF Span
      <4>3. ~(i < j) /\ ~(j < i)
        BY <4>0, <4>1, <4>2 DEF LexerInv, Tiled
      <4> QED
        BY <4>0, <4>3
    <3>2. ASSUME NEW i \in good, p \in Span(lexemes[i]) PROVE p \notin trivia \cup wrong
      BY <3>2 DEF LexerInv, Tiled
    <3>3. trivia \cap wrong = {}
      BY DEF LexerInv, Tiled
    <3>4. p \in trivia \cup wrong \/ \E i \in good : p \in Span(lexemes[i])
      BY <2>1 DEF LexerInv, Tiled
    <3>5. \E s : {u \in spans \cup {trivia, wrong} : p \in u} = {s}
      <4>1. CASE \E i \in good : p \in Span(lexemes[i])
        <5>1. PICK i \in good : p \in Span(lexemes[i])
          BY <4>1
        <5>2. p \notin trivia \cup wrong
          BY <3>2, <5>1
        <5>3. {u \in spans \cup {trivia, wrong} : p \in u} = {Span(lexemes[i])}
          BY <3>1, <5>1, <5>2
        <5> QED
          BY <5>3
      <4>2. CASE p \in trivia
        <5>1. {u \in spans \cup {trivia, wrong} : p \in u} = {trivia}
          BY <3>2, <3>3, <4>2
        <5> QED
          BY <5>1
      <4>3. CASE p \in wrong
        <5>1. {u \in spans \cup {trivia, wrong} : p \in u} = {wrong}
          BY <3>2, <3>3, <4>3
        <5> QED
          BY <5>1
      <4> QED
        BY <3>4, <4>1, <4>2, <4>3
    <3> QED
      BY <3>5, FS_Singleton
  <2>3. ASSUME NEW i \in DOMAIN lexemes
        PROVE  LET x == lexemes[i] IN
               CASE x.kind = "id" -> Char(x.to + 1) \notin Letters \cup Digits
                 [] x.kind = "int" -> Char(x.to + 1) \notin Digits
                 [] x.kind = "str" -> "n" \notin {text[p] : p \in Span(x)}
                 [] x.kind = "op" ->
                      ~Operator(Append(SubSeq(text, x.from, x.to), Char(x.to + 1)))
                 [] OTHER -> Span(x) \subseteq wrong
    <3>1. lexemes[i].kind \in Kinds
      <4>1. lexemes[i] \in [kind : Kinds, from : Nat, to : Nat]
        BY ElementOfSeq, LenProperties DEF LexerInv, LexerTypes
      <4> QED
        BY <4>1
    <3>2. Spelled(lexemes[i]) /\ (lexemes[i].kind = "error" => Span(lexemes[i]) \subseteq wrong)
      BY DEF LexerInv, Tiled
    <3> QED
      BY <3>1, <3>2 DEF Spelled, Kinds
  <2> QED
    BY <2>2, <2>3 DEF TextIsTiled
<1>2. LexerInit => LexerInv
  BY LexerStarts
<1>3. LexerInv /\ [LexerNext]_lexerVars => LexerInv'
  BY LexerKeeps
<1> QED
  BY <1>1, <1>2, <1>3, PTL DEF LexerSpec

-----------------------------------------------------------------------------
(* The tokens of the parser.                                               *)

\* The tokens from the current one on are a row: their places follow each other,
\* the end of the file is behind all others, and the last one is the last that
\* the lexer delivered.
\* (The provers do not see that a literal is a STRING.)
Kind == STRING \cup {"eof", "}", ">"}
Token == [k : Kind, n : Nat]
Row(s, l) ==
  /\ s \in Seq(Token) /\ s # <<>> /\ l \in Nat
  /\ \A i \in 1..(Len(s) - 1) : s[i + 1].n = After(s[i].n) /\ s[i].k # "eof"
  /\ IF s[Len(s)].k = "eof" THEN s[Len(s)].n = 2 * (l + 1)
     ELSE s[Len(s)].n \in {2 * l, 2 * l + 1}
  /\ \A i \in 1..Len(s) : s[i].k = ">>" => s[i].n % 2 = 0

\* A token that the lexer delivers.
Delivered(tok, l, m) ==
  tok \in Token /\ tok.n = 2 * (l + 1) /\ m = IF tok.k = "eof" THEN l ELSE l + 1

\* The place behind a place is a later one, and that of a whole token.
LEMMA AfterIs ==
  ASSUME NEW n \in Nat
  PROVE  /\ After(n) \in Nat /\ After(n) > n /\ After(n) % 2 = 0
         /\ n % 2 = 0 => After(n + 1) = After(n)
BY DEF After

\* What is left of a row when its first token goes is a row that begins further on.
LEMMA RowTail ==
  ASSUME NEW s, NEW l, Row(s, l), Len(s) > 1
  PROVE  Row(Tail(s), l) /\ Tail(s)[1] = s[2] /\ Tail(s)[1].n > s[1].n /\ s[1].k # "eof"
<1>1. /\ s \in Seq(Token) /\ Len(s) \in Nat /\ l \in Nat
      /\ \A i \in 1..Len(s) : s[i] \in Token
  BY DEF Row
<1>2. /\ Tail(s) \in Seq(Token) /\ Len(Tail(s)) = Len(s) - 1
      /\ \A i \in 1..(Len(s) - 1) : Tail(s)[i] = s[i + 1]
  BY <1>1
<1>3. \A i \in 1..(Len(Tail(s)) - 1) : i + 1 \in 1..(Len(s) - 1) /\ i \in 1..(Len(s) - 1)
  BY <1>1, <1>2
<1>4. \A i \in 1..(Len(Tail(s)) - 1) :
        Tail(s)[i + 1].n = After(Tail(s)[i].n) /\ Tail(s)[i].k # "eof"
  BY <1>1, <1>2, <1>3 DEF Row
<1>5. Tail(s)[Len(Tail(s))] = s[Len(s)]
  BY <1>1, <1>2
<1>6. \A i \in 1..Len(Tail(s)) : Tail(s)[i].k = ">>" => Tail(s)[i].n % 2 = 0
  <2>1. \A i \in 1..(Len(s) - 1) : i + 1 \in 1..Len(s)
    BY <1>1
  <2> QED BY <1>2, <2>1 DEF Row
<1>7. s[2].n = After(s[1].n) /\ s[1].k # "eof" /\ s[1].n \in Nat
  <2>1. 1 \in 1..(Len(s) - 1) /\ 1 \in 1..Len(s)
    BY <1>1
  <2>2. s[1] \in Token
    BY <1>1, <2>1
  <2> QED BY <2>1, <2>2 DEF Row, Token
<1>8. s[2].n > s[1].n
  BY <1>7, AfterIs
<1>9. Tail(s)[1] = s[2] /\ Tail(s) # <<>>
  <2>1. 1 \in 1..(Len(s) - 1) /\ 1 + 1 = 2
    BY <1>1
  <2>2. Len(Tail(s)) # 0
    BY <1>1, <1>2
  <2> QED BY <1>2, <2>1, <2>2, EmptySeq
<1> QED BY <1>1, <1>2, <1>4, <1>5, <1>6, <1>7, <1>8, <1>9 DEF Row

\* One token from the lexer is a row.
LEMMA RowOne ==
  ASSUME NEW tok, NEW l \in Nat, NEW m, Delivered(tok, l, m)
  PROVE  Row(<<tok>>, m) /\ m \in Nat
<1>1. tok \in Token /\ tok.n = 2 * (l + 1) /\ m \in Nat
  BY DEF Delivered
<1>2. tok.n % 2 = 0
  BY <1>1
<1>3. /\ <<tok>> \in Seq(Token) /\ <<tok>> # <<>> /\ Len(<<tok>>) = 1 /\ <<tok>>[1] = tok
      /\ \A i \in 1..Len(<<tok>>) : <<tok>>[i] = tok
      /\ 1..(Len(<<tok>>) - 1) = {}
  BY <1>1
<1>4. IF tok.k = "eof" THEN tok.n = 2 * (m + 1) ELSE tok.n \in {2 * m, 2 * m + 1}
  BY <1>1 DEF Delivered
<1> QED BY <1>1, <1>2, <1>3, <1>4 DEF Row

\* A row that does not end in the end of the file goes on with what the lexer delivers.
LEMMA RowMore ==
  ASSUME NEW s, NEW l, Row(s, l), s[Len(s)].k # "eof", NEW tok, NEW m, Delivered(tok, l, m)
  PROVE  Row(Append(s, tok), m)
<1>1. /\ s \in Seq(Token) /\ Len(s) \in Nat \ {0} /\ l \in Nat
      /\ \A i \in 1..Len(s) : s[i] \in Token
  BY DEF Row
<1>2. tok \in Token /\ tok.n = 2 * (l + 1) /\ m \in Nat
  BY <1>1 DEF Delivered
<1> DEFINE q == Append(s, tok)
<1>3. /\ q \in Seq(Token) /\ q # <<>> /\ Len(q) = Len(s) + 1 /\ q[Len(s) + 1] = tok
      /\ \A i \in 1..Len(s) : q[i] = s[i]
  BY <1>1, <1>2
<1> HIDE DEF q
<1>4. s[Len(s)].n \in {2 * l, 2 * l + 1} /\ s[Len(s)].n \in Nat
  BY <1>1 DEF Row, Token
<1>5. tok.n = After(s[Len(s)].n)
  <2>1. CASE s[Len(s)].n = 2 * l
    <3>1. (2 * l) % 2 = 0
      BY <1>1
    <3> QED BY <1>1, <1>2, <2>1, <3>1 DEF After
  <2>2. CASE s[Len(s)].n = 2 * l + 1
    <3>1. (2 * l + 1) % 2 = 1
      BY <1>1
    <3> QED BY <1>1, <1>2, <2>2, <3>1 DEF After
  <2> QED BY <1>4, <2>1, <2>2
<1>6. ASSUME NEW i \in 1..(Len(q) - 1) PROVE q[i + 1].n = After(q[i].n) /\ q[i].k # "eof"
  <2>1. CASE i = Len(s)
    BY <1>1, <1>3, <1>5, <2>1
  <2>2. CASE i # Len(s)
    <3>1. i \in 1..(Len(s) - 1) /\ i \in 1..Len(s) /\ i + 1 \in 1..Len(s)
      BY <1>1, <1>3, <2>2
    <3> QED BY <1>3, <3>1 DEF Row
  <2> QED BY <2>1, <2>2
<1>7. ASSUME NEW i \in 1..Len(q), q[i].k = ">>" PROVE q[i].n % 2 = 0
  <2>1. CASE i = Len(s) + 1
    <3>1. (2 * (l + 1)) % 2 = 0
      BY <1>1
    <3> QED BY <1>2, <1>3, <2>1, <3>1
  <2>2. CASE i # Len(s) + 1
    <3>1. i \in 1..Len(s)
      BY <1>1, <1>3, <2>2
    <3> QED BY <1>3, <1>7, <3>1 DEF Row
  <2> QED BY <2>1, <2>2
<1>8. IF tok.k = "eof" THEN tok.n = 2 * (m + 1) ELSE tok.n \in {2 * m, 2 * m + 1}
  BY <1>1, <1>2 DEF Delivered
<1> QED BY <1>2, <1>3, <1>6, <1>7, <1>8 DEF Row, q

-----------------------------------------------------------------------------
\* The tokens ahead, made of those looked past, the current one, the lookahead and those
\* pushed back.
AheadOf(b, c, l, p) == b \o <<c>> \o l \o Reverse(p)

\* What turning a sequence around returns.
LEMMA ReverseIs ==
  ASSUME NEW s \in Seq(Token)
  PROVE  /\ Reverse(s) \in Seq(Token) /\ Len(Reverse(s)) = Len(s) /\ Len(s) \in Nat
         /\ \A i \in 1..Len(s) : Reverse(s)[i] = s[Len(s) - i + 1]
<1>1. Len(s) \in Nat /\ \A i \in 1..Len(s) : Len(s) - i + 1 \in 1..Len(s) /\ s[i] \in Token
  BY LenProperties, ElementOfSeq
<1>2. Reverse(s) = [i \in 1..Len(s) |-> s[Len(s) - i + 1]]
  BY DEF Reverse
<1>3. Reverse(s) \in [1..Len(s) -> Token]
  BY <1>1, <1>2
<1>4. Reverse(s) \in Seq(Token)
  BY <1>1, <1>3, SeqDef
<1>5. Len(Reverse(s)) = Len(s)
  BY <1>1, <1>3
<1> QED BY <1>1, <1>2, <1>4, <1>5

\* Where the tokens ahead are found in the four pieces.
LEMMA AheadIs ==
  ASSUME NEW b \in Seq(Token), NEW c \in Token, NEW l \in Seq(Token), NEW p \in Seq(Token)
  PROVE  /\ AheadOf(b, c, l, p) \in Seq(Token) /\ Len(b) \in Nat /\ Len(l) \in Nat /\ Len(p) \in Nat
         /\ Len(AheadOf(b, c, l, p)) = Len(b) + 1 + Len(l) + Len(p)
         /\ \A i \in 1..Len(b) : AheadOf(b, c, l, p)[i] = b[i]
         /\ AheadOf(b, c, l, p)[Len(b) + 1] = c
         /\ \A i \in 1..Len(l) : AheadOf(b, c, l, p)[Len(b) + 1 + i] = l[i]
         /\ \A i \in 1..Len(p) : AheadOf(b, c, l, p)[Len(b) + 1 + Len(l) + i] = p[Len(p) - i + 1]
<1> DEFINE r == Reverse(p)
           u == b \o <<c>>
           v == u \o l
           q == v \o r
<1>1. /\ r \in Seq(Token) /\ Len(r) = Len(p) /\ Len(p) \in Nat
      /\ \A i \in 1..Len(p) : r[i] = p[Len(p) - i + 1]
  BY ReverseIs
<1> HIDE DEF r
<1>2. /\ u \in Seq(Token) /\ Len(u) = Len(b) + 1 /\ Len(b) \in Nat /\ u[Len(b) + 1] = c
      /\ \A i \in 1..Len(b) : u[i] = b[i]
  <2>1. <<c>> \in Seq(Token) /\ Len(<<c>>) = 1 /\ <<c>>[1] = c /\ Len(b) \in Nat
    BY LenProperties
  <2> HIDE DEF u
  <2>2. /\ u \in Seq(Token) /\ Len(u) = Len(b) + Len(<<c>>)
        /\ \A i \in 1..(Len(b) + Len(<<c>>)) : u[i] = IF i <= Len(b) THEN b[i] ELSE <<c>>[i - Len(b)]
    BY <2>1, ConcatProperties DEF u
  <2>3. Len(b) + 1 \in 1..(Len(b) + 1) /\ ~(Len(b) + 1 <= Len(b)) /\ Len(b) + 1 - Len(b) = 1
    BY <2>1
  <2>4. \A i \in 1..Len(b) : i \in 1..(Len(b) + 1) /\ i <= Len(b)
    BY <2>1
  <2> QED BY <2>1, <2>2, <2>3, <2>4
<1> HIDE DEF u
<1>3. /\ v \in Seq(Token) /\ Len(v) = Len(b) + 1 + Len(l) /\ Len(l) \in Nat
      /\ \A i \in 1..(Len(b) + 1) : v[i] = u[i]
      /\ \A i \in 1..Len(l) : v[Len(b) + 1 + i] = l[i]
  <2> HIDE DEF v
  <2>1. /\ v \in Seq(Token) /\ Len(v) = Len(u) + Len(l) /\ Len(l) \in Nat
        /\ \A i \in 1..(Len(u) + Len(l)) : v[i] = IF i <= Len(u) THEN u[i] ELSE l[i - Len(u)]
    BY <1>2, ConcatProperties, LenProperties DEF v
  <2>2. \A i \in 1..(Len(b) + 1) : i \in 1..(Len(u) + Len(l)) /\ i <= Len(u)
    BY <1>2, <2>1
  <2>3. \A i \in 1..Len(l) : /\ Len(b) + 1 + i \in 1..(Len(u) + Len(l)) /\ ~(Len(b) + 1 + i <= Len(u))
                             /\ Len(b) + 1 + i - Len(u) = i
    BY <1>2, <2>1
  <2> QED BY <1>2, <2>1, <2>2, <2>3
<1> HIDE DEF v
<1>4. /\ q \in Seq(Token) /\ Len(q) = Len(v) + Len(p)
      /\ \A i \in 1..Len(v) : q[i] = v[i]
      /\ \A i \in 1..Len(p) : q[Len(v) + i] = r[i]
  <2> HIDE DEF q
  <2>1. /\ q \in Seq(Token) /\ Len(q) = Len(v) + Len(r) /\ Len(v) \in Nat
        /\ \A i \in 1..(Len(v) + Len(r)) : q[i] = IF i <= Len(v) THEN v[i] ELSE r[i - Len(v)]
    <3>1. v \in Seq(Token) /\ r \in Seq(Token)
      BY <1>1, <1>3
    <3> QED BY <3>1, ConcatProperties, LenProperties DEF q
  <2>2. \A i \in 1..Len(v) : i \in 1..(Len(v) + Len(r)) /\ i <= Len(v)
    BY <1>1, <2>1
  <2>3. \A i \in 1..Len(r) : /\ Len(v) + i \in 1..(Len(v) + Len(r)) /\ ~(Len(v) + i <= Len(v))
                             /\ Len(v) + i - Len(v) = i
    BY <1>1, <2>1
  <2> QED BY <1>1, <2>1, <2>2, <2>3
<1>5. q = AheadOf(b, c, l, p)
  BY DEF AheadOf, q, v, u, r
<1> HIDE DEF q
<1>6. \A i \in 1..Len(b) : i \in 1..(Len(b) + 1) /\ i \in 1..Len(v)
  BY <1>2, <1>3
<1>7. Len(b) + 1 \in 1..(Len(b) + 1) /\ Len(b) + 1 \in 1..Len(v)
  BY <1>2, <1>3
<1>8. \A i \in 1..Len(l) : Len(b) + 1 + i \in 1..Len(v)
  BY <1>2, <1>3
<1>9. Len(q) = Len(b) + 1 + Len(l) + Len(p)
  BY <1>1, <1>2, <1>3, <1>4
<1>10. \A i \in 1..Len(p) : q[Len(b) + 1 + Len(l) + i] = p[Len(p) - i + 1]
  BY <1>1, <1>3, <1>4
<1> QED BY <1>1, <1>2, <1>3, <1>4, <1>5, <1>6, <1>7, <1>8, <1>9, <1>10

\* The last token pushed back, and the others.
LEMMA LastIs ==
  ASSUME NEW p \in Seq(Token), p # <<>>
  PROVE  /\ Last(p) \in Token /\ Front(p) \in Seq(Token) /\ Len(Front(p)) = Len(p) - 1
         /\ Last(p) = p[Len(p)] /\ Len(p) \in Nat \ {0}
         /\ \A i \in 1..(Len(p) - 1) : Front(p)[i] = p[i]
<1>1. Len(p) \in Nat \ {0} /\ \A i \in 1..Len(p) : p[i] \in Token
  BY EmptySeq, LenProperties, ElementOfSeq
<1>2. /\ SubSeq(p, 1, Len(p) - 1) \in Seq(Token) /\ Len(SubSeq(p, 1, Len(p) - 1)) = Len(p) - 1
      /\ \A i \in 1..(Len(p) - 1) : SubSeq(p, 1, Len(p) - 1)[i] = p[i]
  <2>1. \A i \in 1..(Len(p) - 1) : i \in 1..Len(p)
    BY <1>1
  <2> DEFINE n == Len(p) - 1
  <2>2. n \in Nat /\ 1 \in Int /\ n \in Int /\ n - 1 + 1 = n /\ (1 <= n \/ n = 0)
        /\ \A i \in 1..n : 1 + i - 1 = i
    <3>1. n \in Nat
      BY <1>1
    <3> HIDE DEF n
    <3> QED BY <3>1
  <2>3. \A i \in 1..n : p[i] \in Token
    BY <1>1, <2>1
  <2> HIDE DEF n
  <2>4. /\ SubSeq(p, 1, n) \in Seq(Token) /\ Len(SubSeq(p, 1, n)) = IF 1 <= n THEN n - 1 + 1 ELSE 0
        /\ \A i \in 1..(n - 1 + 1) : SubSeq(p, 1, n)[i] = p[1 + i - 1]
    BY <2>2, <2>3, SubSeqProperties
  <2>5. /\ SubSeq(p, 1, n) \in Seq(Token) /\ Len(SubSeq(p, 1, n)) = n
        /\ \A i \in 1..n : SubSeq(p, 1, n)[i] = p[i]
    BY <2>2, <2>4
  <2> QED BY <2>5 DEF n
<1> QED BY <1>1, <1>2 DEF Last, Front

\* The tokens looked past come first.
LEMMA AheadFirst ==
  ASSUME NEW b \in Seq(Token), NEW c \in Token, NEW l \in Seq(Token), NEW p \in Seq(Token),
         NEW i \in 1..Len(b)
  PROVE  AheadOf(b, c, l, p)[i] = b[i]
BY AheadIs

\* Concatenation and the two short sequences, under names the provers leave alone.
Cat(s, t) == s \o t
Sole(c) == <<c>>
None == <<>>

\* Concatenation keeps to tokens.
LEMMA CatIs ==
  ASSUME NEW s \in Seq(Token), NEW t \in Seq(Token)
  PROVE  Cat(s, t) \in Seq(Token)
BY ConcatProperties DEF Cat

\* Nothing on either side of a sequence changes it.
LEMMA CatNone ==
  ASSUME NEW s \in Seq(Token)
  PROVE  Cat(s, None) = s /\ Cat(None, s) = s
BY ConcatEmptySeq DEF Cat, None

\* Concatenation is associative.
LEMMA CatCat ==
  ASSUME NEW s \in Seq(Token), NEW t \in Seq(Token), NEW u \in Seq(Token)
  PROVE  Cat(Cat(s, t), u) = Cat(s, Cat(t, u))
BY ConcatAssociative DEF Cat

\* The two short sequences keep to tokens.
LEMMA Short ==
  /\ None \in Seq(Token)
  /\ \A c \in Token : Sole(c) \in Seq(Token)
BY DEF None, Sole

\* The row in one form.
LEMMA Form ==
  ASSUME NEW b \in Seq(Token), NEW c \in Token, NEW l \in Seq(Token), NEW p \in Seq(Token)
  PROVE  AheadOf(b, c, l, p) = Cat(b, Cat(Sole(c), Cat(l, Reverse(p))))
<1>1. AheadOf(b, c, l, p) = Cat(Cat(Cat(b, Sole(c)), l), Reverse(p))
  BY DEF AheadOf, Cat, Sole
<1>2. Sole(c) \in Seq(Token) /\ Reverse(p) \in Seq(Token)
  BY Short, ReverseIs
<1> DEFINE r == Reverse(p)
           e == Sole(c)
<1> HIDE DEF r, e
<1>3. e \in Seq(Token) /\ r \in Seq(Token) /\ Cat(b, e) \in Seq(Token) /\ Cat(l, r) \in Seq(Token)
  BY <1>2, CatIs DEF r, e
<1>4. Cat(Cat(Cat(b, e), l), r) = Cat(Cat(b, e), Cat(l, r))
  BY <1>3, CatCat
<1>5. Cat(Cat(b, e), Cat(l, r)) = Cat(b, Cat(e, Cat(l, r)))
  BY <1>3, CatCat
<1> QED BY <1>1, <1>4, <1>5 DEF r, e

\* A sequence of at most one token is its own reverse.
LEMMA ReverseOne ==
  /\ Reverse(<<>>) = <<>>
  /\ \A c \in Token : Reverse(<<c>>) = <<c>>
<1>1. Reverse(<<>>) = <<>>
  <2>1. <<>> \in Seq(Token) /\ Len(<<>>) = 0
    OBVIOUS
  <2>2. Reverse(<<>>) \in Seq(Token) /\ Len(Reverse(<<>>)) = 0
    BY <2>1, ReverseIs
  <2> QED BY <2>2, EmptySeq
<1>2. ASSUME NEW c \in Token PROVE Reverse(<<c>>) = <<c>>
  <2> DEFINE e == <<c>>
  <2>1. e \in Seq(Token) /\ Len(e) = 1 /\ e[1] = c
    OBVIOUS
  <2> HIDE DEF e
  <2> DEFINE r == Reverse(e)
  <2>2. r \in Seq(Token) /\ Len(r) = 1 /\ \A i \in 1..1 : r[i] = e[1 - i + 1]
    BY <2>1, ReverseIs
  <2> HIDE DEF r
  <2>3. \A i \in 1..1 : r[i] = e[i]
    BY <2>2
  <2>4. r = e
    BY <2>1, <2>2, <2>3, SeqEqual
  <2> QED BY <2>4 DEF r, e
<1> QED BY <1>1, <1>2

\* A concatenation turns around piece by piece, the last piece first.
LEMMA ReverseConcat ==
  ASSUME NEW u \in Seq(Token), NEW v \in Seq(Token)
  PROVE  Reverse(u \o v) = Reverse(v) \o Reverse(u)
<1> DEFINE w == u \o v
           x == Reverse(w)
           ru == Reverse(u)
           rv == Reverse(v)
           y == rv \o ru
           m == Len(u)
           n == Len(v)
<1>1. /\ w \in Seq(Token) /\ Len(w) = m + n /\ m \in Nat /\ n \in Nat
      /\ \A i \in 1..(m + n) : w[i] = IF i <= m THEN u[i] ELSE v[i - m]
  BY ConcatProperties, LenProperties
<1>2. /\ ru \in Seq(Token) /\ Len(ru) = m /\ \A i \in 1..m : ru[i] = u[m - i + 1]
  BY ReverseIs
<1>3. /\ rv \in Seq(Token) /\ Len(rv) = n /\ \A i \in 1..n : rv[i] = v[n - i + 1]
  BY ReverseIs
<1> HIDE DEF w, ru, rv
<1>4. /\ x \in Seq(Token) /\ Len(x) = Len(w) /\ \A i \in 1..Len(w) : x[i] = w[Len(w) - i + 1]
  BY <1>1, ReverseIs
<1>5. /\ y \in Seq(Token) /\ Len(y) = Len(rv) + Len(ru)
      /\ \A i \in 1..(Len(rv) + Len(ru)) : y[i] = IF i <= Len(rv) THEN rv[i] ELSE ru[i - Len(rv)]
  <2>1. ru \in Seq(Token) /\ rv \in Seq(Token)
    BY <1>2, <1>3
  <2> QED BY <2>1, ConcatProperties
<1> HIDE DEF x, y, m, n
<1>6. ASSUME NEW i \in 1..(m + n) PROVE x[i] = y[i]
  <2>1. m + n - i + 1 \in 1..(m + n)
    BY <1>1
  <2>2. x[i] = w[m + n - i + 1] /\ y[i] = IF i <= n THEN rv[i] ELSE ru[i - n]
    <3>1. i \in 1..Len(w) /\ i \in 1..(Len(rv) + Len(ru))
      BY <1>1, <1>2, <1>3
    <3>2. x[i] = w[m + n - i + 1]
      BY <1>1, <1>4, <3>1
    <3>3. y[i] = IF i <= n THEN rv[i] ELSE ru[i - n]
      BY <1>3, <1>5, <3>1
    <3> QED BY <3>2, <3>3
  <2>3. CASE i <= n
    <3>1. i \in 1..n /\ ~(m + n - i + 1 <= m) /\ m + n - i + 1 - m = n - i + 1
      BY <1>1, <2>3
    <3>2. w[m + n - i + 1] = v[n - i + 1]
      BY <1>1, <2>1, <3>1
    <3> QED BY <1>3, <2>2, <2>3, <3>1, <3>2
  <2>4. CASE ~(i <= n)
    <3>1. i - n \in 1..m /\ m + n - i + 1 <= m /\ m - (i - n) + 1 = m + n - i + 1
      BY <1>1, <2>4
    <3>2. w[m + n - i + 1] = u[m + n - i + 1]
      BY <1>1, <2>1, <3>1
    <3>3. ru[i - n] = u[m + n - i + 1]
      BY <1>2, <3>1
    <3> QED BY <2>2, <2>4, <3>2, <3>3
  <2> QED BY <2>3, <2>4
<1>7. x = y
  <2>1. Len(x) = m + n /\ Len(y) = m + n
    BY <1>1, <1>2, <1>3, <1>4, <1>5
  <2> QED BY <1>4, <1>5, <1>6, <2>1, SeqEqual
<1> QED BY <1>7 DEF x, y, w, ru, rv

\* Turned around twice, a sequence is what it was: what the pipeline test pushes back comes
\* out in the order it was looked past.
LEMMA ReverseTwice ==
  ASSUME NEW s \in Seq(Token)
  PROVE  Reverse(Reverse(s)) = s
<1> DEFINE r == Reverse(s)
           x == Reverse(r)
           n == Len(s)
<1>1. r \in Seq(Token) /\ Len(r) = n /\ n \in Nat /\ \A i \in 1..n : r[i] = s[n - i + 1]
  BY ReverseIs
<1> HIDE DEF r
<1>2. x \in Seq(Token) /\ Len(x) = Len(r) /\ \A i \in 1..Len(r) : x[i] = r[Len(r) - i + 1]
  BY <1>1, ReverseIs
<1> HIDE DEF x, n
<1>3. ASSUME NEW i \in 1..n PROVE x[i] = s[i]
  <2>1. n - i + 1 \in 1..n /\ n - (n - i + 1) + 1 = i
    BY <1>1
  <2> QED BY <1>1, <1>2, <2>1
<1>4. x = s
  BY <1>1, <1>2, <1>3, SeqEqual DEF n
<1> QED BY <1>4 DEF x, r

\* The token pushed back last is the next one.
LEMMA ReverseLast ==
  ASSUME NEW p \in Seq(Token), p # <<>>
  PROVE  /\ Reverse(p) = Cat(Sole(Last(p)), Reverse(Front(p)))
         /\ Last(p) \in Token /\ Front(p) \in Seq(Token)
<1> DEFINE z == Last(p)
           f == Front(p)
           e == <<z>>
<1>1. /\ z \in Token /\ f \in Seq(Token) /\ Len(f) = Len(p) - 1 /\ z = p[Len(p)] /\ Len(p) \in Nat \ {0}
      /\ \A i \in 1..(Len(p) - 1) : f[i] = p[i]
  BY LastIs
<1>2. e \in Seq(Token) /\ Len(e) = 1 /\ e[1] = z
  BY <1>1
<1> HIDE DEF z, f
<1>3. Reverse(e) = e
  BY <1>1, ReverseOne
<1> HIDE DEF e
<1>4. p = f \o e
  <2> DEFINE w == f \o e
  <2>1. /\ w \in Seq(Token) /\ Len(w) = Len(f) + Len(e)
        /\ \A i \in 1..(Len(f) + Len(e)) : w[i] = IF i <= Len(f) THEN f[i] ELSE e[i - Len(f)]
    BY <1>1, <1>2, ConcatProperties
  <2> HIDE DEF w
  <2>2. ASSUME NEW i \in 1..Len(p) PROVE p[i] = w[i]
    <3>1. CASE i = Len(p)
      <4>1. i \in 1..(Len(f) + Len(e)) /\ ~(i <= Len(f)) /\ i - Len(f) = 1
        BY <1>1, <1>2, <3>1
      <4> QED BY <1>1, <1>2, <2>1, <3>1, <4>1
    <3>2. CASE i # Len(p)
      <4>1. i \in 1..(Len(f) + Len(e)) /\ i <= Len(f) /\ i \in 1..(Len(p) - 1)
        BY <1>1, <1>2, <3>2
      <4> QED BY <1>1, <2>1, <4>1
    <3> QED BY <3>1, <3>2
  <2>3. Len(p) = Len(w)
    BY <1>1, <1>2, <2>1
  <2>4. p = w
    BY <2>1, <2>2, <2>3, SeqEqual
  <2> QED BY <2>4 DEF w
<1>5. Reverse(f \o e) = Reverse(e) \o Reverse(f)
  BY <1>1, <1>2, ReverseConcat
<1>6. Reverse(p) = e \o Reverse(f)
  BY <1>3, <1>4, <1>5
<1> QED BY <1>1, <1>6 DEF e, z, f, Cat, Sole

\* A token that was pushed back is looked at: the row stays the same.
LEMMA PushedPeeked ==
  ASSUME NEW b \in Seq(Token), NEW c \in Token, NEW p \in Seq(Token), p # <<>>
  PROVE  AheadOf(b, c, <<Last(p)>>, Front(p)) = AheadOf(b, c, <<>>, p)
<1> DEFINE z == Last(p)
           f == Front(p)
           rp == Reverse(p)
           rf == Reverse(f)
<1>1. z \in Token /\ f \in Seq(Token) /\ rp = Cat(Sole(z), rf) /\ rp \in Seq(Token)
  BY ReverseLast, ReverseIs
<1>2. Sole(z) \in Seq(Token) /\ None \in Seq(Token) /\ Cat(None, rp) = rp
  BY <1>1, Short, CatNone
<1> HIDE DEF z, f
<1>3. AheadOf(b, c, Sole(z), f) = Cat(b, Cat(Sole(c), Cat(Sole(z), rf)))
  BY <1>1, <1>2, Form
<1>4. AheadOf(b, c, None, p) = Cat(b, Cat(Sole(c), Cat(None, rp)))
  BY <1>2, Form
<1>5. AheadOf(b, c, Sole(z), f) = AheadOf(b, c, None, p)
  BY <1>1, <1>2, <1>3, <1>4
<1> QED BY <1>5 DEF Sole, None, z, f

\* What is behind the first token.
LEMMA TailIs ==
  ASSUME NEW c \in Token, NEW q \in Seq(Token)
  PROVE  Tail(<<c>> \o q) = q /\ Len(<<c>> \o q) = Len(q) + 1 /\ (<<c>> \o q)[1] = c
<1> DEFINE e == <<c>>
           w == e \o q
<1>1. e \in Seq(Token) /\ Len(e) = 1 /\ e[1] = c /\ Len(q) \in Nat
  BY LenProperties
<1> HIDE DEF e
<1>2. /\ w \in Seq(Token) /\ Len(w) = 1 + Len(q)
      /\ \A i \in 1..(1 + Len(q)) : w[i] = IF i <= 1 THEN e[i] ELSE q[i - 1]
  <2>1. /\ w \in Seq(Token) /\ Len(w) = Len(e) + Len(q)
        /\ \A i \in 1..(Len(e) + Len(q)) : w[i] = IF i <= Len(e) THEN e[i] ELSE q[i - Len(e)]
    BY <1>1, ConcatProperties
  <2> QED BY <1>1, <2>1
<1> HIDE DEF w
<1>3. w # <<>>
  BY <1>1, <1>2, EmptySeq
<1>4. /\ Tail(w) \in Seq(Token) /\ Len(Tail(w)) = Len(w) - 1
      /\ \A i \in 1..Len(Tail(w)) : Tail(w)[i] = w[i + 1]
  BY <1>2, <1>3, HeadTailProperties
<1>5. ASSUME NEW i \in 1..Len(q) PROVE Tail(w)[i] = q[i]
  <2>1. i + 1 \in 1..(1 + Len(q)) /\ ~(i + 1 <= 1) /\ i + 1 - 1 = i /\ i \in 1..Len(Tail(w))
    BY <1>1, <1>2, <1>4
  <2> QED BY <1>2, <1>4, <2>1
<1>6. Tail(w) = q
  <2>1. Len(Tail(w)) = Len(q)
    BY <1>1, <1>2, <1>4
  <2> QED BY <1>4, <1>5, <2>1, SeqEqual
<1>7. w[1] = c /\ Len(w) = Len(q) + 1
  BY <1>1, <1>2
<1> QED BY <1>6, <1>7 DEF w, e

\* The same, of the named concatenation.
LEMMA Later ==
  ASSUME NEW c \in Token, NEW q \in Seq(Token)
  PROVE  Tail(Cat(Sole(c), q)) = q /\ Len(Cat(Sole(c), q)) = Len(q) + 1
BY TailIs DEF Cat, Sole

\* advance(): the first of the row goes, or the lexer is asked.
LEMMA LookedTaken ==
  ASSUME NEW c \in Token, NEW l \in Token, NEW p \in Seq(Token)
  PROVE  /\ AheadOf(<<>>, l, <<>>, p) = Tail(AheadOf(<<>>, c, <<l>>, p))
         /\ Len(AheadOf(<<>>, c, <<l>>, p)) > 1
<1> DEFINE e == Sole(l)
           r == Reverse(p)
           w == Cat(e, r)
           v == Cat(Sole(c), w)
<1>1. None \in Seq(Token) /\ e \in Seq(Token) /\ r \in Seq(Token) /\ Sole(c) \in Seq(Token)
  BY ReverseIs, Short
<1>2. w \in Seq(Token) /\ v \in Seq(Token)
  BY <1>1, CatIs
<1>3. AheadOf(None, l, None, p) = w
  <2>1. AheadOf(None, l, None, p) = Cat(None, Cat(Sole(l), Cat(None, Reverse(p))))
    BY <1>1, Form
  <2>2. Cat(None, r) = r /\ Cat(None, w) = w
    BY <1>1, <1>2, CatNone
  <2> QED BY <2>1, <2>2
<1>4. AheadOf(None, c, e, p) = v
  <2>1. AheadOf(None, c, e, p) = Cat(None, Cat(Sole(c), Cat(e, Reverse(p))))
    BY <1>1, Form
  <2>2. Cat(None, v) = v
    BY <1>2, CatNone
  <2> QED BY <2>1, <2>2
<1>5. Tail(v) = w /\ Len(v) = Len(w) + 1
  BY <1>2, Later
<1>6. Len(w) = Len(r) + 1 /\ Len(r) \in Nat
  BY <1>1, Later, LenProperties
<1>7. Len(v) > 1
  BY <1>5, <1>6
<1>8. AheadOf(None, l, None, p) = Tail(AheadOf(None, c, e, p)) /\ Len(AheadOf(None, c, e, p)) > 1
  BY <1>3, <1>4, <1>5, <1>7
<1> QED BY <1>8 DEF None, Sole

\* advance() with tokens pushed back: the last one pushed back becomes the current one.
LEMMA PushedTaken ==
  ASSUME NEW c \in Token, NEW p \in Seq(Token), p # <<>>
  PROVE  /\ AheadOf(<<>>, Last(p), <<>>, Front(p)) = Tail(AheadOf(<<>>, c, <<>>, p))
         /\ Len(AheadOf(<<>>, c, <<>>, p)) > 1
         /\ Last(p) \in Token /\ Front(p) \in Seq(Token)
<1>1. Last(p) \in Token /\ Front(p) \in Seq(Token)
  BY ReverseLast
<1>2. <<>> \in Seq(Token)
  OBVIOUS
<1>3. AheadOf(<<>>, c, <<Last(p)>>, Front(p)) = AheadOf(<<>>, c, <<>>, p)
  BY <1>2, PushedPeeked
<1> QED BY <1>1, <1>3, LookedTaken

\* A token passes from the current one to those the pipeline test looks past.
LEMMA LookedPast ==
  ASSUME NEW b \in Seq(Token), NEW c \in Token, NEW l \in Token, NEW p \in Seq(Token)
  PROVE  AheadOf(Append(b, c), l, <<>>, p) = AheadOf(b, c, <<l>>, p)
<1>1. /\ Append(b, c) = b \o <<c>> /\ Append(b, c) \in Seq(Token)
      /\ <<l>> \in Seq(Token) /\ <<>> \in Seq(Token) /\ (b \o <<c>>) \o <<l>> \in Seq(Token)
  OBVIOUS
<1>2. ((b \o <<c>>) \o <<l>>) \o <<>> = (b \o <<c>>) \o <<l>>
  BY <1>1
<1> QED BY <1>1, <1>2 DEF AheadOf

\* The pipeline test passes the current token and gets the next from those pushed back.
LEMMA PushedPast ==
  ASSUME NEW b \in Seq(Token), NEW c \in Token, NEW p \in Seq(Token), p # <<>>
  PROVE  /\ AheadOf(Append(b, c), Last(p), <<>>, Front(p)) = AheadOf(b, c, <<>>, p)
         /\ Last(p) \in Token /\ Front(p) \in Seq(Token)
<1>1. Last(p) \in Token /\ Front(p) \in Seq(Token)
  BY ReverseLast
<1> DEFINE z == Last(p)
           f == Front(p)
<1> HIDE DEF z, f
<1>2. AheadOf(Append(b, c), z, <<>>, f) = AheadOf(b, c, <<z>>, f)
  BY <1>1, LookedPast DEF z, f
<1>3. AheadOf(b, c, <<z>>, f) = AheadOf(b, c, <<>>, p)
  BY PushedPeeked DEF z, f
<1> QED BY <1>1, <1>2, <1>3 DEF z, f

\* A new token is the last one.
LEMMA NewLast ==
  ASSUME NEW b \in Seq(Token), NEW c \in Token, NEW l \in Token
  PROVE  /\ AheadOf(b, c, <<l>>, <<>>) = Append(AheadOf(b, c, <<>>, <<>>), l)
         /\ AheadOf(<<>>, c, <<>>, <<>>) = <<c>>
         /\ Last(AheadOf(b, c, <<>>, <<>>)) = c
<1>1. Reverse(<<>>) = <<>>
  BY ReverseOne
<1>2. b \o <<c>> \in Seq(Token) /\ (b \o <<c>>) \o <<l>> \in Seq(Token)
  OBVIOUS
<1>3. ((b \o <<c>>) \o <<l>>) \o <<>> = (b \o <<c>>) \o <<l>>
  BY <1>2
<1>4. ((b \o <<c>>) \o <<>>) \o <<>> = b \o <<c>>
  BY <1>2
<1>5. (b \o <<c>>) \o <<l>> = Append(b \o <<c>>, l)
  BY <1>2
<1>6. ((<<>> \o <<c>>) \o <<>>) \o <<>> = <<c>>
  OBVIOUS
<1>7. Last(b \o <<c>>) = c
  BY <1>2 DEF Last
<1> QED BY <1>1, <1>3, <1>4, <1>5, <1>6, <1>7 DEF AheadOf

\* The pipeline test gives back what it looked past.
LEMMA PushedBack ==
  ASSUME NEW b \in Seq(Token), b # <<>>, NEW c \in Token, NEW p \in Seq(Token)
  PROVE  /\ AheadOf(<<>>, b[1], <<>>, p \o <<c>> \o Reverse(Tail(b))) = AheadOf(b, c, <<>>, p)
         /\ p \o <<c>> \o Reverse(Tail(b)) \in Seq(Token)
         /\ b[1] \in Token
<1> DEFINE e == Sole(c)
           h == Sole(b[1])
           t == Tail(b)
           rt == Reverse(t)
           rp == Reverse(p)
           pe == Cat(p, e)
           w == Cat(pe, rt)
           x == Cat(e, rp)
           y == Cat(t, x)
<1>1. /\ b[1] \in Token /\ t \in Seq(Token) /\ b = Cat(h, t)
  BY DEF Cat, Sole
<1>2. None \in Seq(Token) /\ e \in Seq(Token) /\ h \in Seq(Token) /\ Reverse(e) = e
  BY <1>1, Short, ReverseOne DEF Sole
<1> HIDE DEF t, e, h
<1>3. rt \in Seq(Token) /\ rp \in Seq(Token) /\ Reverse(rt) = t
  BY <1>1, ReverseIs, ReverseTwice
<1> HIDE DEF rt
<1>4. pe \in Seq(Token)
  BY <1>2, CatIs
<1>5. Reverse(pe) = Cat(Reverse(e), rp)
  BY <1>2, ReverseConcat DEF Cat
<1> HIDE DEF pe, rp
<1>6. w \in Seq(Token) /\ Reverse(w) = Cat(Reverse(rt), Reverse(pe))
  BY <1>3, <1>4, CatIs, ReverseConcat DEF Cat
<1>7. Reverse(w) = y
  BY <1>2, <1>3, <1>5, <1>6
<1>8. x \in Seq(Token)
  BY <1>2, <1>3, CatIs
<1> HIDE DEF w, x
<1>9. y \in Seq(Token)
  BY <1>1, <1>8, CatIs
<1> HIDE DEF y
<1>10. Cat(h, y) \in Seq(Token)
  BY <1>2, <1>9, CatIs
<1>11. AheadOf(None, b[1], None, w) = Cat(h, y)
  <2>1. AheadOf(None, b[1], None, w) = Cat(None, Cat(Sole(b[1]), Cat(None, Reverse(w))))
    BY <1>1, <1>2, <1>6, Form
  <2>2. Cat(None, y) = y /\ Cat(None, Cat(h, y)) = Cat(h, y)
    BY <1>9, <1>10, CatNone
  <2> QED BY <1>7, <2>1, <2>2 DEF h
<1>12. AheadOf(b, c, None, p) = Cat(b, x)
  <2>1. AheadOf(b, c, None, p) = Cat(b, Cat(Sole(c), Cat(None, Reverse(p))))
    BY <1>2, Form
  <2>2. Cat(None, rp) = rp
    BY <1>3, CatNone
  <2> QED BY <2>1, <2>2 DEF e, rp, x
<1>13. Cat(Cat(h, t), x) = Cat(h, y)
  BY <1>1, <1>2, <1>8, CatCat DEF y
<1>14. AheadOf(None, b[1], None, w) = AheadOf(b, c, None, p)
  BY <1>1, <1>11, <1>12, <1>13
<1> QED BY <1>1, <1>6, <1>14 DEF w, pe, rt, t, e, Cat, Sole, None

-----------------------------------------------------------------------------
\* How many tokens are ahead outside the pipeline test.
LEMMA AheadLen ==
  ASSUME NEW c \in Token, NEW l \in Seq(Token), NEW p \in Seq(Token)
  PROVE  /\ AheadOf(<<>>, c, l, p) \in Seq(Token)
         /\ Len(AheadOf(<<>>, c, l, p)) = 1 + Len(l) + Len(p)
<1> DEFINE o == <<>>
           q == AheadOf(o, c, l, p)
<1>1. o \in Seq(Token) /\ Len(o) = 0
  OBVIOUS
<1> HIDE DEF o
<1>2. q \in Seq(Token)
  BY <1>1, AheadIs
<1>3. Len(q) = Len(o) + 1 + Len(l) + Len(p)
  BY <1>1, AheadIs
<1>4. Len(l) \in Nat /\ Len(p) \in Nat
  BY LenProperties
<1> HIDE DEF q
<1>5. Len(q) = 1 + Len(l) + Len(p)
  BY <1>1, <1>3, <1>4
<1> QED BY <1>2, <1>5 DEF q, o

\* The current token is the first of those ahead, outside the pipeline test.
LEMMA AheadHead ==
  ASSUME NEW c \in Token, NEW l \in Seq(Token), NEW p \in Seq(Token)
  PROVE  AheadOf(<<>>, c, l, p)[1] = c
<1> DEFINE o == <<>>
<1>1. o \in Seq(Token) /\ Len(o) + 1 = 1
  OBVIOUS
<1> HIDE DEF o
<1>2. AheadOf(o, c, l, p)[Len(o) + 1] = c
  <2>1. ASSUME NEW b \in Seq(Token) PROVE AheadOf(b, c, l, p)[Len(b) + 1] = c
    BY AheadIs
  <2> QED BY <1>1, <2>1
<1> QED BY <1>1, <1>2 DEF o

\* lookahead_ holds one token or none.
AtMostOne(l) == l = <<>> \/ \E t \in Token : l = <<t>>

\* Both are such.
LEMMA OneOrNone ==
  /\ AtMostOne(<<>>)
  /\ \A t \in Token : AtMostOne(<<t>>)
BY DEF AtMostOne

\* The token lookahead_ holds is all of it.
LEMMA Only ==
  ASSUME NEW l, AtMostOne(l)
  PROVE  l # <<>> => l[1] \in Token /\ l = <<l[1]>>
<1> SUFFICES ASSUME l # <<>> PROVE l[1] \in Token /\ l = <<l[1]>>
  OBVIOUS
<1>1. PICK t \in Token : l = <<t>>
  BY DEF AtMostOne
<1>2. l[1] = t
  BY <1>1
<1> QED BY <1>1, <1>2

\* The tokens the parser has in hand are a row up to the last one delivered.
TokensFit ==
  /\ corner \in Corners /\ lexed \in Nat
  /\ cur \in Token /\ la \in Seq(Token) /\ AtMostOne(la)
  /\ pending \in Seq(Token) /\ buffered \in Seq(Token)
  /\ Row(Ahead, lexed)

\* The token the parser is at, those looked past not counted.
First == IF buffered = <<>> THEN cur ELSE buffered[1]

\* Ahead, as a function of its four pieces.
LEMMA AheadForm == Ahead = AheadOf(buffered, cur, la, pending)
BY DEF Ahead, AheadOf

\* What the lexer may answer with is a token behind all others; at its end only the end.
LEMMA Deliveries ==
  ASSUME corner \in Corners, lexed \in Nat, NEW tok \in Lexed, Count(tok)
  PROVE  Delivered(tok, lexed, lexed') /\ (cur.k = "eof" => tok.k = "eof")
<1>1. lexed' = IF tok.k = "eof" THEN lexed ELSE lexed + 1
  BY DEF Count
<1>2. corner.prefix \in Seq(STRING) /\ corner.kinds \subseteq STRING
  BY ParserAssumption
<1> DEFINE more == IF Chosen < MaxTokens THEN corner.kinds ELSE {}
           kinds == IF cur.k = "eof" \/ Chosen = MaxTokens + Closers THEN {"eof"}
                    ELSE IF Chosen < 0 THEN {corner.prefix[lexed + 1]}
                    ELSE {"}", "eof"} \cup more
<1>3. PICK k \in kinds : tok = [k |-> k, n |-> 2 * (lexed + 1)]
  BY DEF Lexed, Tok, NextPlace
<1>7. "eof" \in Kind /\ "}" \in Kind /\ STRING \subseteq Kind
  BY DEF Kind
<1>4. k \in Kind
  <2>1. CASE ~(cur.k = "eof" \/ Chosen = MaxTokens + Closers) /\ Chosen < 0
    <3>1. k = corner.prefix[lexed + 1]
      BY <2>1
    <3>2. Len(corner.prefix) \in Nat /\ lexed + 1 \in 1..Len(corner.prefix)
      BY <1>2, <2>1, LenProperties DEF Chosen
    <3>3. corner.prefix[lexed + 1] \in STRING
      BY <1>2, <3>2, ElementOfSeq
    <3> QED BY <1>7, <3>1, <3>3
  <2>2. CASE cur.k = "eof" \/ Chosen = MaxTokens + Closers
    <3>1. k = "eof"
      BY <2>2
    <3> QED BY <1>7, <3>1
  <2>3. CASE ~(cur.k = "eof" \/ Chosen = MaxTokens + Closers) /\ ~(Chosen < 0)
    <3>1. k \in {"}", "eof"} \cup more /\ more \subseteq Kind
      BY <1>2, <1>7, <2>3
    <3> HIDE DEF more
    <3> QED BY <1>7, <3>1
  <2> QED BY <2>1, <2>2, <2>3
<1>5. tok \in Token /\ tok.k = k /\ tok.n = 2 * (lexed + 1)
  <2> DEFINE n == 2 * (lexed + 1)
  <2>1. n \in Nat
    <3>1. lexed \in Nat
      OBVIOUS
    <3> HIDE DEF kinds
    <3> QED BY <3>1
  <2> HIDE DEF n, kinds
  <2>2. tok = [k |-> k, n |-> n]
    BY <1>3 DEF n
  <2> QED BY <1>4, <2>1, <2>2 DEF Token, n
<1>6. cur.k = "eof" => k = "eof"
  OBVIOUS
<1> QED BY <1>1, <1>5, <1>6 DEF Delivered

\* The first of the row, and the row when the lexer has to be asked.
LEMMA RowFirst ==
  ASSUME TokensFit
  PROVE  /\ First \in Token /\ Ahead[1] = First /\ Ahead # <<>> /\ Ahead \in Seq(Token)
         /\ cur.k = "eof" => la = <<>> /\ pending = <<>> /\ cur.n = 2 * (lexed + 1)
<1> DEFINE a == AheadOf(buffered, cur, la, pending)
<1>1. a = Ahead /\ Row(a, lexed)
  BY AheadForm DEF TokensFit
<1>2. /\ buffered \in Seq(Token) /\ cur \in Token /\ la \in Seq(Token) /\ pending \in Seq(Token)
      /\ lexed \in Nat
  BY DEF TokensFit
<1>3. /\ a \in Seq(Token) /\ Len(buffered) \in Nat /\ Len(la) \in Nat /\ Len(pending) \in Nat
      /\ Len(a) = Len(buffered) + 1 + Len(la) + Len(pending)
      /\ a[Len(buffered) + 1] = cur
  BY <1>2, AheadIs
<1>4. \A i \in 1..Len(buffered) : a[i] = buffered[i]
  BY <1>2, AheadFirst
<1> HIDE DEF a
<1>5. a # <<>>
  BY <1>1 DEF Row
<1>6. First \in Token /\ a[1] = First
  <2>1. CASE buffered = <<>>
    <3>1. Len(buffered) = 0
      BY <2>1
    <3> QED BY <1>2, <1>3, <2>1, <3>1 DEF First
  <2>2. CASE buffered # <<>>
    <3>1. 1 \in 1..Len(buffered)
      BY <1>2, <1>3, <2>2, EmptySeq
    <3>2. buffered[1] \in Token
      BY <1>2, <3>1, ElementOfSeq
    <3> QED BY <1>4, <2>2, <3>1, <3>2 DEF First
  <2> QED BY <2>1, <2>2
<1>7. ASSUME cur.k = "eof" PROVE la = <<>> /\ pending = <<>> /\ cur.n = 2 * (lexed + 1)
  <2>1. Len(buffered) + 1 = Len(a)
    <3>1. CASE Len(buffered) + 1 # Len(a)
      <4>1. Len(buffered) + 1 \in 1..(Len(a) - 1)
        BY <1>3, <3>1
      <4>2. a[Len(buffered) + 1].k # "eof"
        BY <1>1, <4>1 DEF Row
      <4> QED BY <1>3, <1>7, <4>2
    <3> QED BY <3>1
  <2>2. Len(la) = 0 /\ Len(pending) = 0
    BY <1>3, <2>1
  <2>3. la = <<>> /\ pending = <<>>
    BY <1>2, <2>2, EmptySeq
  <2>4. a[Len(a)].k = "eof" => a[Len(a)].n = 2 * (lexed + 1)
    BY <1>1 DEF Row
  <2> QED BY <1>3, <1>7, <2>1, <2>3, <2>4
<1> QED BY <1>1, <1>3, <1>5, <1>6, <1>7

\* advance() outside the pipeline test: the parser moves on by one token, or stays
\* at the end.
LEMMA Advances ==
  ASSUME TokensFit, buffered = <<>>, Advance, UNCHANGED <<corner, buffered>>
  PROVE  /\ TokensFit' /\ la' = <<>>
         /\ la # <<>> => cur' = la[1]
         /\ IF cur.k = "eof" THEN cur' = cur ELSE cur'.n > cur.n
<1>1. /\ corner \in Corners /\ lexed \in Nat /\ cur \in Token /\ la \in Seq(Token) /\ AtMostOne(la)
      /\ pending \in Seq(Token) /\ buffered' = <<>> /\ <<>> \in Seq(Token) /\ corner' \in Corners
  BY DEF TokensFit
<1>2. /\ Ahead = AheadOf(<<>>, cur, la, pending) /\ Row(Ahead, lexed)
      /\ Ahead' = AheadOf(<<>>, cur', la', pending')
  BY <1>1, AheadForm DEF TokensFit, Ahead, AheadOf
<1>3. CASE la # <<>>
  <2>1. cur' = la[1] /\ la' = <<>> /\ UNCHANGED <<pending, lexed>>
    BY <1>3 DEF Advance
  <2>2. la[1] \in Token /\ la = <<la[1]>>
    BY <1>1, <1>3, Only
  <2> DEFINE t == la[1]
             p == pending
             x == AheadOf(<<>>, t, <<>>, p)
             y == AheadOf(<<>>, cur, <<t>>, p)
  <2>3. t \in Token /\ p \in Seq(Token)
    BY <1>1, <2>2
  <2>4. Ahead = y /\ Ahead' = x
    BY <1>2, <2>1, <2>2
  <2> HIDE DEF t, p
  <2>5. x = Tail(y) /\ Len(y) > 1
    BY <1>1, <2>3, LookedTaken
  <2> HIDE DEF x, y
  <2>6. Row(x, lexed) /\ x[1].n > y[1].n /\ y[1].k # "eof"
    <3>1. Row(y, lexed)
      BY <1>2, <2>4
    <3> QED BY <2>5, <3>1, RowTail
  <2>7. TokensFit'
    <3>1. cur' \in Token /\ la' \in Seq(Token) /\ la' = <<>> /\ AtMostOne(la') /\ pending' \in Seq(Token)
      BY <1>1, <2>1, <2>3, OneOrNone DEF t
    <3>2. corner' \in Corners /\ lexed' \in Nat /\ buffered' \in Seq(Token) /\ Row(Ahead', lexed')
      BY <1>1, <2>1, <2>4, <2>6
    <3> QED BY <3>1, <3>2 DEF TokensFit
  <2>8. y[1] = cur /\ x[1] = cur'
    <3>1. <<t>> \in Seq(Token) /\ cur' = t
      BY <2>1, <2>3 DEF t
    <3> QED BY <1>1, <2>3, <3>1, AheadHead DEF x, y
  <2> QED BY <1>3, <2>1, <2>6, <2>7, <2>8
<1>4. CASE la = <<>> /\ pending # <<>>
  <2>1. cur' = Last(pending) /\ pending' = Front(pending) /\ UNCHANGED <<la, lexed>>
    BY <1>4 DEF Advance
  <2> DEFINE x == AheadOf(<<>>, Last(pending), <<>>, Front(pending))
             y == AheadOf(<<>>, cur, <<>>, pending)
  <2>2. Last(pending) \in Token /\ Front(pending) \in Seq(Token) /\ x = Tail(y) /\ Len(y) > 1
    BY <1>1, <1>4, PushedTaken
  <2>3. Ahead = y /\ Ahead' = x
    BY <1>2, <1>4, <2>1
  <2> HIDE DEF x, y
  <2>4. Row(x, lexed) /\ x[1].n > y[1].n /\ y[1].k # "eof"
    <3>1. Row(y, lexed)
      BY <1>2, <2>3
    <3> QED BY <2>2, <3>1, RowTail
  <2>5. TokensFit'
    BY <1>1, <1>4, <2>1, <2>2, <2>3, <2>4 DEF TokensFit
  <2>6. y[1] = cur /\ x[1] = cur'
    BY <1>1, <2>1, <2>2, AheadHead DEF x, y
  <2> QED BY <1>4, <2>1, <2>4, <2>5, <2>6
<1>5. CASE la = <<>> /\ pending = <<>>
  <2>1. PICK tok \in Lexed : cur' = tok /\ Count(tok) /\ UNCHANGED <<la, pending>>
    BY <1>5 DEF Advance
  <2>2. Delivered(tok, lexed, lexed') /\ (cur.k = "eof" => tok.k = "eof")
    BY <1>1, <2>1, Deliveries
  <2>3. tok \in Token /\ tok.n = 2 * (lexed + 1)
    BY <2>2 DEF Delivered
  <2>4. Row(<<tok>>, lexed') /\ lexed' \in Nat
    BY <1>1, <2>2, RowOne
  <2>5. Ahead' = <<tok>> /\ Ahead = <<cur>>
    BY <1>1, <1>2, <1>5, <2>1, <2>3, NewLast
  <2>6. TokensFit'
    BY <1>1, <1>5, <2>1, <2>3, <2>4, <2>5 DEF TokensFit
  <2>7. IF cur.k = "eof" THEN cur.n = 2 * (lexed + 1) ELSE cur.n \in {2 * lexed, 2 * lexed + 1}
    <3>1. Row(<<cur>>, lexed) /\ Len(<<cur>>) = 1 /\ <<cur>>[1] = cur
      BY <1>2, <2>5
    <3> QED BY <3>1 DEF Row
  <2>8. CASE cur.k = "eof"
    <3>1. cur = [k |-> "eof", n |-> 2 * (lexed + 1)] /\ tok = [k |-> "eof", n |-> 2 * (lexed + 1)]
      BY <1>1, <2>2, <2>3, <2>7, <2>8 DEF Token
    <3> QED BY <1>5, <2>1, <2>6, <2>8, <3>1
  <2>9. CASE cur.k # "eof"
    <3>1. tok.n > cur.n
      BY <1>1, <2>3, <2>7, <2>9
    <3> QED BY <1>5, <2>1, <2>6, <2>9, <3>1
  <2> QED BY <2>8, <2>9
<1> QED BY <1>3, <1>4, <1>5

\* peekNext(): never asked at the end of the file.
LEMMA Peeks ==
  ASSUME TokensFit, buffered = <<>>, cur.k # "eof", PeekNext, UNCHANGED <<corner, buffered>>
  PROVE  TokensFit' /\ la' # <<>> /\ cur' = cur
<1>1. /\ corner \in Corners /\ lexed \in Nat /\ cur \in Token
      /\ pending \in Seq(Token) /\ buffered' = <<>> /\ <<>> \in Seq(Token) /\ corner' \in Corners
      /\ la = <<>> /\ cur' = cur
  BY DEF TokensFit, PeekNext
<1>2. /\ Ahead = AheadOf(<<>>, cur, <<>>, pending) /\ Row(Ahead, lexed)
      /\ Ahead' = AheadOf(<<>>, cur, la', pending')
  BY <1>1, AheadForm DEF TokensFit, Ahead, AheadOf
<1>3. CASE pending # <<>>
  <2>1. la' = <<Last(pending)>> /\ pending' = Front(pending) /\ lexed' = lexed
    BY <1>3 DEF PeekNext
  <2>2. Last(pending) \in Token /\ Front(pending) \in Seq(Token)
    BY <1>1, <1>3, ReverseLast
  <2>3. Ahead' = Ahead
    BY <1>1, <1>2, <1>3, <2>1, PushedPeeked
  <2>4. la' \in Seq(Token) /\ AtMostOne(la') /\ la' # <<>>
    BY <2>1, <2>2, OneOrNone
  <2> QED BY <1>1, <1>2, <2>1, <2>2, <2>3, <2>4 DEF TokensFit
<1>4. CASE pending = <<>>
  <2>1. PICK tok \in Lexed : la' = <<tok>> /\ Count(tok) /\ pending' = pending
    BY <1>4 DEF PeekNext
  <2>2. Delivered(tok, lexed, lexed')
    BY <1>1, <2>1, Deliveries
  <2>3. tok \in Token /\ lexed' \in Nat
    BY <1>1, <2>2 DEF Delivered
  <2>4. la' \in Seq(Token) /\ AtMostOne(la') /\ la' # <<>>
    BY <2>1, <2>3, OneOrNone
  <2>5. Ahead = <<cur>> /\ Ahead' = Append(Ahead, tok)
    BY <1>1, <1>2, <1>4, <2>1, <2>3, NewLast
  <2>6. Ahead[Len(Ahead)].k # "eof"
    BY <2>5
  <2>7. Row(Append(Ahead, tok), lexed')
    BY <1>2, <2>2, <2>6, RowMore
  <2> QED BY <1>1, <1>4, <2>1, <2>3, <2>4, <2>5, <2>7 DEF TokensFit
<1> QED BY <1>3, <1>4

\* The pipeline test looks past one token more: the row grows at most at its end.
LEMMA LooksPast ==
  ASSUME TokensFit, Advance, buffered' = Append(buffered, cur), corner' = corner,
         la # <<>> \/ cur.k # "eof"
  PROVE  TokensFit' /\ First' = First /\ la' = <<>> /\ buffered' # <<>>
<1>1. /\ corner \in Corners /\ lexed \in Nat /\ cur \in Token /\ la \in Seq(Token) /\ AtMostOne(la)
      /\ pending \in Seq(Token) /\ buffered \in Seq(Token) /\ <<>> \in Seq(Token) /\ corner' \in Corners
  BY DEF TokensFit
<1>2. /\ Ahead = AheadOf(buffered, cur, la, pending) /\ Row(Ahead, lexed)
      /\ Ahead' = AheadOf(Append(buffered, cur), cur', la', pending')
  BY AheadForm DEF TokensFit, Ahead, AheadOf
<1>3. buffered' \in Seq(Token) /\ buffered' # <<>>
  BY <1>1
<1>4. First' = First
  <2>1. CASE buffered = <<>>
    BY <1>1, <2>1 DEF First
  <2>2. CASE buffered # <<>>
    <3>1. 1 \in 1..Len(buffered)
      BY <1>1, <2>2, EmptySeq
    <3>2. Append(buffered, cur)[1] = buffered[1]
      BY <1>1, <3>1
    <3> QED BY <1>3, <2>2, <3>2 DEF First
  <2> QED BY <2>1, <2>2
<1>5. CASE la # <<>>
  <2>1. cur' = la[1] /\ la' = <<>> /\ UNCHANGED <<pending, lexed>>
    BY <1>5 DEF Advance
  <2>2. la[1] \in Token /\ la = <<la[1]>>
    BY <1>1, <1>5, Only
  <2>3. Ahead' = Ahead
    <3> DEFINE t == la[1]
    <3>1. t \in Token /\ la = <<t>> /\ cur' = t
      BY <2>1, <2>2
    <3> HIDE DEF t
    <3>2. AheadOf(Append(buffered, cur), t, <<>>, pending) = AheadOf(buffered, cur, <<t>>, pending)
      BY <1>1, <3>1, LookedPast
    <3> QED BY <1>2, <2>1, <3>1, <3>2
  <2>4. cur' \in Token /\ la' \in Seq(Token) /\ la' = <<>> /\ AtMostOne(la') /\ pending' \in Seq(Token)
    BY <1>1, <2>1, <2>2, OneOrNone
  <2>5. corner' \in Corners /\ lexed' \in Nat /\ buffered' \in Seq(Token) /\ Row(Ahead', lexed')
    BY <1>1, <1>2, <1>3, <2>1, <2>3
  <2>6. TokensFit'
    BY <2>4, <2>5 DEF TokensFit
  <2> QED BY <1>3, <1>4, <2>4, <2>6
<1>6. CASE la = <<>> /\ pending # <<>>
  <2>1. cur' = Last(pending) /\ pending' = Front(pending) /\ UNCHANGED <<la, lexed>>
    BY <1>6 DEF Advance
  <2>2. /\ AheadOf(Append(buffered, cur), Last(pending), <<>>, Front(pending))
             = AheadOf(buffered, cur, <<>>, pending)
        /\ Last(pending) \in Token /\ Front(pending) \in Seq(Token)
    BY <1>1, <1>6, PushedPast
  <2>3. Ahead' = Ahead
    BY <1>2, <1>6, <2>1, <2>2
  <2> QED BY <1>1, <1>2, <1>3, <1>4, <1>6, <2>1, <2>2, <2>3 DEF TokensFit
<1>7. CASE la = <<>> /\ pending = <<>>
  <2>1. PICK tok \in Lexed : cur' = tok /\ Count(tok) /\ UNCHANGED <<la, pending>>
    BY <1>7 DEF Advance
  <2>2. Delivered(tok, lexed, lexed')
    BY <1>1, <2>1, Deliveries
  <2>3. tok \in Token /\ lexed' \in Nat
    BY <1>1, <2>2 DEF Delivered
  <2>4. Ahead' = Append(Ahead, tok)
    <3>1. AheadOf(Append(buffered, cur), tok, <<>>, <<>>) = AheadOf(buffered, cur, <<tok>>, <<>>)
      BY <1>1, <2>3, LookedPast
    <3>2. AheadOf(buffered, cur, <<tok>>, <<>>) = Append(AheadOf(buffered, cur, <<>>, <<>>), tok)
      BY <1>1, <2>3, NewLast
    <3> QED BY <1>2, <1>7, <2>1, <3>1, <3>2
  <2>5. Ahead[Len(Ahead)] = cur
    <3>1. AheadOf(buffered, cur, <<>>, <<>>)[Len(AheadOf(buffered, cur, <<>>, <<>>))] = cur
      BY <1>1, NewLast DEF Last
    <3> QED BY <1>2, <1>7, <3>1
  <2>6. Row(Append(Ahead, tok), lexed')
    BY <1>2, <1>7, <2>2, <2>5, RowMore
  <2> QED BY <1>1, <1>3, <1>4, <1>7, <2>1, <2>3, <2>4, <2>6 DEF TokensFit
<1> QED BY <1>5, <1>6, <1>7

\* ...and gives all of it back.
LEMMA GivesBack ==
  ASSUME TokensFit, buffered # <<>>, la = <<>>, corner' = corner, lexed' = lexed,
         cur' = buffered[1], la' = <<>>, buffered' = <<>>,
         pending' = pending \o <<cur>> \o Reverse(Tail(buffered))
  PROVE  TokensFit' /\ First' = First
<1>1. /\ corner \in Corners /\ lexed \in Nat /\ cur \in Token
      /\ pending \in Seq(Token) /\ buffered \in Seq(Token) /\ <<>> \in Seq(Token)
  BY DEF TokensFit
<1>2. /\ AheadOf(<<>>, buffered[1], <<>>, pending \o <<cur>> \o Reverse(Tail(buffered)))
           = AheadOf(buffered, cur, <<>>, pending)
      /\ pending \o <<cur>> \o Reverse(Tail(buffered)) \in Seq(Token)
      /\ buffered[1] \in Token
  BY <1>1, PushedBack
<1>3. Ahead' = Ahead /\ Row(Ahead, lexed)
  <2>1. Ahead = AheadOf(buffered, cur, <<>>, pending)
    BY AheadForm
  <2>2. Ahead' = AheadOf(<<>>, cur', <<>>, pending')
    BY DEF Ahead, AheadOf
  <2> QED BY <1>2, <2>1, <2>2 DEF TokensFit
<1> QED BY <1>1, <1>2, <1>3 DEF TokensFit, First

\* ">>" splits into two tokens: the second one is still in its place.
LEMMA Splits ==
  ASSUME TokensFit, buffered = <<>>, cur.k = ">>", cur' = [k |-> ">", n |-> cur.n + 1],
         UNCHANGED <<corner, la, pending, lexed, buffered>>
  PROVE  TokensFit'
<1>1. /\ corner \in Corners /\ lexed \in Nat /\ cur \in Token /\ la \in Seq(Token) /\ AtMostOne(la)
      /\ pending \in Seq(Token) /\ <<>> \in Seq(Token)
  BY DEF TokensFit
<1>2. cur.n \in Nat /\ cur' \in Token /\ cur'.k = ">" /\ cur'.n = cur.n + 1
  <2> DEFINE m == cur.n + 1
  <2>1. cur.n \in Nat /\ m \in Nat /\ ">" \in Kind
    <3>1. cur \in Token
      BY <1>1
    <3>2. cur.n \in Nat
      BY <3>1 DEF Token
    <3> QED BY <3>2 DEF Kind
  <2> HIDE DEF m
  <2>2. cur' = [k |-> ">", n |-> m]
    BY DEF m
  <2> QED BY <2>1, <2>2 DEF Token, m
<1> DEFINE x == AheadOf(<<>>, cur, la, pending)
           y == AheadOf(<<>>, cur', la, pending)
<1>3. x = Ahead /\ Row(x, lexed) /\ y = Ahead'
  BY AheadForm DEF TokensFit, Ahead, AheadOf
<1>4. x \in Seq(Token) /\ Len(x) = Len(y) /\ y \in Seq(Token)
  <2> DEFINE c == cur'
             v == AheadOf(<<>>, c, la, pending)
  <2>1. c \in Token /\ v = y
    BY <1>2
  <2> HIDE DEF c
  <2>2. x \in Seq(Token) /\ Len(x) = 1 + Len(la) + Len(pending)
    BY <1>1, AheadLen
  <2>3. v \in Seq(Token) /\ Len(v) = 1 + Len(la) + Len(pending)
    BY <1>1, <2>1, AheadLen
  <2> HIDE DEF x, y, v
  <2> QED BY <2>1, <2>2, <2>3
<1>5. x[1] = cur /\ y[1] = cur' /\ Tail(x) = Tail(y)
  <2> DEFINE r == Reverse(pending)
             w == Cat(la, r)
  <2>1. r \in Seq(Token) /\ None \in Seq(Token)
    BY <1>1, ReverseIs, Short
  <2>2. w \in Seq(Token)
    BY <1>1, <2>1, CatIs
  <2>3. AheadOf(None, cur, la, pending) = Cat(None, Cat(Sole(cur), w))
    BY <1>1, <2>1, Form
  <2>4. AheadOf(None, cur', la, pending) = Cat(None, Cat(Sole(cur'), w))
    BY <1>1, <1>2, <2>1, Form
  <2>5. Sole(cur) \in Seq(Token) /\ Sole(cur') \in Seq(Token)
    BY <1>1, <1>2, Short
  <2> HIDE DEF w
  <2>6. Cat(Sole(cur), w) \in Seq(Token) /\ Cat(Sole(cur'), w) \in Seq(Token)
    BY <2>2, <2>5, CatIs
  <2>7. Cat(None, Cat(Sole(cur), w)) = Cat(Sole(cur), w) /\ Cat(None, Cat(Sole(cur'), w)) = Cat(Sole(cur'), w)
    BY <2>6, CatNone
  <2>8. Tail(Cat(Sole(cur), w)) = w /\ Tail(Cat(Sole(cur'), w)) = w
    BY <1>1, <1>2, <2>2, Later
  <2>9. (<<cur>> \o w)[1] = cur /\ (<<cur'>> \o w)[1] = cur'
    BY <1>1, <1>2, <2>2, TailIs
  <2> QED BY <2>3, <2>4, <2>7, <2>8, <2>9 DEF None, Cat, Sole
<1> HIDE DEF x, y
<1>6. Len(x) \in Nat \ {0} /\ x # <<>> /\ y # <<>>
  <2>1. Len(x) \in Nat \ {0}
    BY <1>3, <1>4, EmptySeq DEF Row
  <2> QED BY <1>3, <1>4, <2>1 DEF Row
<1>7. \A i \in 2..Len(x) : y[i] = x[i]
  <2>1. /\ Len(Tail(x)) = Len(x) - 1 /\ \A i \in 1..Len(Tail(x)) : Tail(x)[i] = x[i + 1]
    BY <1>4, <1>6, HeadTailProperties
  <2>2. /\ Len(Tail(y)) = Len(y) - 1 /\ \A i \in 1..Len(Tail(y)) : Tail(y)[i] = y[i + 1]
    BY <1>4, <1>6, HeadTailProperties
  <2> TAKE i \in 2..Len(x)
  <2> DEFINE j == i - 1
  <2>3. j \in 1..(Len(x) - 1) /\ j + 1 = i
    BY <1>6
  <2> HIDE DEF j
  <2>4. x[j + 1] = y[j + 1]
    BY <1>4, <1>5, <2>1, <2>2, <2>3
  <2> QED BY <2>3, <2>4
<1>8. cur.n % 2 = 0
  <2>1. 1 \in 1..Len(x)
    BY <1>6
  <2> QED BY <1>3, <1>5, <2>1 DEF Row
<1>9. After(cur.n + 1) = After(cur.n)
  BY <1>2, <1>8, AfterIs
<1>10. ASSUME NEW i \in 1..(Len(y) - 1) PROVE y[i + 1].n = After(y[i].n) /\ y[i].k # "eof"
  <2>1. i + 1 \in 2..Len(x) /\ i \in 1..(Len(x) - 1)
    BY <1>4, <1>6
  <2>2. x[i + 1].n = After(x[i].n) /\ x[i].k # "eof"
    BY <1>3, <2>1 DEF Row
  <2>3. CASE i = 1
    BY <1>2, <1>5, <1>7, <1>9, <2>1, <2>2, <2>3
  <2>4. CASE i # 1
    <3>1. i \in 2..Len(x)
      BY <1>6, <2>1, <2>4
    <3> QED BY <1>7, <2>1, <2>2, <3>1
  <2> QED BY <2>3, <2>4
<1>11. IF y[Len(y)].k = "eof" THEN y[Len(y)].n = 2 * (lexed + 1)
       ELSE y[Len(y)].n \in {2 * lexed, 2 * lexed + 1}
  <2>1. IF x[Len(x)].k = "eof" THEN x[Len(x)].n = 2 * (lexed + 1)
        ELSE x[Len(x)].n \in {2 * lexed, 2 * lexed + 1}
    BY <1>3 DEF Row
  <2>2. CASE Len(x) = 1
    <3>1. cur.n \in {2 * lexed, 2 * lexed + 1}
      BY <1>5, <2>1, <2>2
    <3>2. cur.n = 2 * lexed
      BY <1>1, <1>2, <1>8, <3>1
    <3> QED BY <1>2, <1>4, <1>5, <2>2, <3>2
  <2>3. CASE Len(x) # 1
    <3>0. \A n \in Nat \ {0} : n # 1 => n \in 2..n
      OBVIOUS
    <3>1. Len(x) \in 2..Len(x)
      BY <1>6, <2>3, <3>0
    <3> QED BY <1>4, <1>7, <2>1, <3>1
  <2> QED BY <2>2, <2>3
<1>12. ASSUME NEW i \in 1..Len(y), y[i].k = ">>" PROVE y[i].n % 2 = 0
  <2>1. i # 1
    BY <1>2, <1>5, <1>12
  <2>2. i \in 2..Len(x) /\ i \in 1..Len(x)
    BY <1>4, <1>6, <2>1
  <2> QED BY <1>3, <1>7, <1>12, <2>2 DEF Row
<1>13. Row(y, lexed)
  BY <1>1, <1>4, <1>6, <1>10, <1>11, <1>12 DEF Row
<1> QED BY <1>1, <1>2, <1>3, <1>13 DEF TokensFit

(* ------------------------------ the plan -------------------------------- *)

\* q is p with the step in front replaced by the steps of s.
Replaces(q, s, p) ==
  /\ q \in Seq(Steps) /\ s \in Seq(Steps) /\ p \in Seq(Steps) /\ p # <<>>
  /\ Len(q) = Len(s) + Len(p) - 1
  /\ \A i \in 1..Len(s) : q[i] = s[i]
  /\ \A i \in 2..Len(p) : q[Len(s) + i - 1] = p[i]

\* Continue() replaces the front of a plan.
LEMMA ReplacedIs ==
  ASSUME NEW p \in Seq(Steps), p # <<>>, NEW s \in Seq(Steps)
  PROVE  Replaces(s \o Tail(p), s, p)
<1> DEFINE t == Tail(p)
           q == s \o t
<1>1. /\ t \in Seq(Steps) /\ Len(t) = Len(p) - 1 /\ \A i \in 1..Len(t) : t[i] = p[i + 1]
      /\ Len(p) \in Nat \ {0} /\ Len(s) \in Nat
  BY HeadTailProperties, EmptySeq, LenProperties
<1> HIDE DEF t
<1>2. /\ q \in Seq(Steps) /\ Len(q) = Len(s) + Len(t)
      /\ \A i \in 1..(Len(s) + Len(t)) : q[i] = IF i <= Len(s) THEN s[i] ELSE t[i - Len(s)]
  BY <1>1, ConcatProperties
<1> HIDE DEF q
<1>3. \A i \in 1..Len(s) : q[i] = s[i]
  BY <1>1, <1>2
<1>4. ASSUME NEW i \in 2..Len(p)
      PROVE  q[Len(s) + i - 1] = p[i]
  <2>1. /\ Len(s) + i - 1 \in 1..(Len(s) + Len(t)) /\ ~(Len(s) + i - 1 <= Len(s))
        /\ Len(s) + i - 1 - Len(s) = i - 1 /\ i - 1 \in 1..Len(t) /\ i - 1 + 1 = i
    BY <1>1
  <2>2. q[Len(s) + i - 1] = t[Len(s) + i - 1 - Len(s)]
    BY <1>2, <2>1
  <2>3. t[i - 1] = p[i - 1 + 1]
    BY <1>1, <2>1
  <2> QED BY <2>1, <2>2, <2>3
<1>5. Len(q) = Len(s) + Len(p) - 1
  BY <1>1, <1>2
<1>6. Replaces(q, s, p)
  BY <1>2, <1>3, <1>4, <1>5 DEF Replaces
<1> QED BY <1>6 DEF q, t

\* Where a step of the new plan comes from.
LEMMA Origin ==
  ASSUME NEW q, NEW s, NEW p, Replaces(q, s, p), NEW i \in 1..Len(q)
  PROVE  \/ i \in 1..Len(s) /\ q[i] = s[i]
         \/ \E j \in 2..Len(p) : i = Len(s) + j - 1 /\ q[i] = p[j]
<1>1. Len(s) \in Nat /\ Len(p) \in Nat /\ Len(q) = Len(s) + Len(p) - 1
  BY LenProperties DEF Replaces
<1>2. CASE i <= Len(s)
  BY <1>1, <1>2 DEF Replaces
<1>3. CASE ~(i <= Len(s))
  <2> DEFINE j == i - Len(s) + 1
  <2>1. j \in 2..Len(p) /\ i = Len(s) + j - 1
    BY <1>1, <1>3
  <2>2. q[Len(s) + j - 1] = p[j]
    BY <2>1 DEF Replaces
  <2> QED BY <2>1, <2>2
<1> QED BY <1>2, <1>3

\* How long a plan is after that.
LEMMA Lengths ==
  ASSUME NEW q, NEW s, NEW p, Replaces(q, s, p)
  PROVE  Len(s) \in Nat /\ Len(p) \in Nat \ {0} /\ Len(q) = Len(s) + Len(p) - 1
BY LenProperties, EmptySeq DEF Replaces

\* What stands before a step of a set still does, when the steps that replace the
\* front keep to it, and hold one that counts if the front was one.
LEMMA BehindReplaced ==
  ASSUME NEW q, NEW s, NEW p, Replaces(q, s, p), NEW U, NEW W,
         Behind(p, U, W), Behind(s, U, W),
         p[1] \in W => \E i \in 1..Len(s) : s[i] \in W
  PROVE  Behind(q, U, W)
<1>1. Len(s) \in Nat /\ Len(p) \in Nat \ {0} /\ Len(q) = Len(s) + Len(p) - 1
  BY Lengths
<1>2. SUFFICES ASSUME NEW i \in 1..Len(q), q[i] \in U
               PROVE  \E j \in 1..(i - 1) : q[j] \in W
  BY DEF Behind
<1>3. CASE i \in 1..Len(s) /\ q[i] = s[i]
  <2>1. PICK j \in 1..(i - 1) : s[j] \in W
    BY <1>2, <1>3 DEF Behind
  <2>2. j \in 1..Len(s)
    BY <1>1, <1>3, <2>1
  <2>3. q[j] = s[j]
    BY <2>2 DEF Replaces
  <2> QED BY <2>1, <2>3
<1>4. ASSUME NEW k \in 2..Len(p), i = Len(s) + k - 1, q[i] = p[k]
      PROVE  \E j \in 1..(i - 1) : q[j] \in W
  <2>1. k \in 1..Len(p) /\ p[k] \in U
    BY <1>1, <1>2, <1>4
  <2>2. PICK m \in 1..(k - 1) : p[m] \in W
    BY <2>1 DEF Behind
  <2>3. CASE m = 1
    <3>1. PICK j \in 1..Len(s) : s[j] \in W
      BY <2>2, <2>3
    <3>2. q[j] = s[j]
      BY <3>1 DEF Replaces
    <3>3. j \in 1..(i - 1)
      BY <1>1, <1>4, <3>1
    <3> QED BY <3>1, <3>2, <3>3
  <2>4. CASE m # 1
    <3>1. m \in 2..Len(p)
      BY <1>1, <1>4, <2>2, <2>4
    <3>2. q[Len(s) + m - 1] = p[m]
      BY <3>1 DEF Replaces
    <3>3. Len(s) + m - 1 \in 1..(i - 1)
      BY <1>1, <1>4, <2>2, <2>4
    <3> QED BY <2>2, <3>2, <3>3
  <2> QED BY <2>3, <2>4
<1> QED BY <1>3, <1>4, Origin

\* Tokens to be taken stay where they were looked at: nothing comes before them
\* but what the new steps put there.
LEMMA PlacedReplaced ==
  ASSUME NEW q, NEW s, NEW p, Replaces(q, s, p), Placed(p), Placed(s),
         Len(s) > 0 => p[1].op \notin {"judge", "error", "take"}
  PROVE  Placed(q)
<1>1. Len(s) \in Nat /\ Len(p) \in Nat \ {0} /\ Len(q) = Len(s) + Len(p) - 1
  BY Lengths
<1>2. SUFFICES ASSUME NEW i \in 1..Len(q)
               PROVE  /\ q[i].op \in {"scan", "split"} => i = 1
                      /\ q[i].op = "take" => i = 1 \/ (i = 2 /\ q[1].op \in {"judge", "error", "take"})
  BY DEF Placed
<1>3. CASE i \in 1..Len(s) /\ q[i] = s[i]
  <2>1. 1 \in 1..Len(s)
    BY <1>1, <1>3
  <2>2. q[1] = s[1]
    BY <2>1 DEF Replaces
  <2>3. /\ s[i].op \in {"scan", "split"} => i = 1
        /\ s[i].op = "take" => i = 1 \/ (i = 2 /\ s[1].op \in {"judge", "error", "take"})
    BY <1>3 DEF Placed
  <2> QED BY <1>3, <2>2, <2>3
<1>4. ASSUME NEW k \in 2..Len(p), i = Len(s) + k - 1, q[i] = p[k]
      PROVE  /\ q[i].op \in {"scan", "split"} => i = 1
             /\ q[i].op = "take" => i = 1 \/ (i = 2 /\ q[1].op \in {"judge", "error", "take"})
  <2>1. k \in 1..Len(p) /\ k # 1
    BY <1>1
  <2>2. /\ p[k].op \notin {"scan", "split"}
        /\ p[k].op = "take" => k = 2 /\ p[1].op \in {"judge", "error", "take"}
    BY <2>1 DEF Placed
  <2>3. p[k].op = "take" => i = 1
    BY <1>1, <1>4, <2>2
  <2> QED BY <1>4, <2>2, <2>3
<1> QED BY <1>3, <1>4, Origin

\* The loop over the declarations of a file, which ends with the file.
Top(s) == s.op = "loop" /\ s.arg = "TopLevel"

\* The loop over the file stays the last step until the plan is empty.
LEMMA LastReplaced ==
  ASSUME NEW q, NEW s, NEW p, Replaces(q, s, p), Top(p[Len(p)]),
         Top(p[1]) /\ s # <<>> => Top(s[Len(s)])
  PROVE  q # <<>> => Top(q[Len(q)])
<1>1. Len(s) \in Nat /\ Len(p) \in Nat \ {0} /\ Len(q) = Len(s) + Len(p) - 1 /\ s \in Seq(Steps)
      /\ q \in Seq(Steps)
  BY Lengths DEF Replaces
<1>2. CASE Len(p) = 1
  <2>1. Len(q) = Len(s) /\ Top(p[1])
    BY <1>1, <1>2
  <2>2. CASE Len(s) = 0
    BY <1>1, <2>1, <2>2, EmptySeq
  <2>3. CASE Len(s) > 0
    <3>1. Len(s) \in 1..Len(s) /\ s # <<>>
      BY <1>1, <2>3, EmptySeq
    <3>2. q[Len(s)] = s[Len(s)]
      BY <3>1 DEF Replaces
    <3> QED BY <2>1, <3>1, <3>2
  <2> QED BY <1>1, <2>2, <2>3
<1>3. CASE Len(p) > 1
  <2>1. Len(p) \in 2..Len(p)
    BY <1>1, <1>3
  <2>2. q[Len(s) + Len(p) - 1] = p[Len(p)]
    BY <2>1 DEF Replaces
  <2>3. Len(q) = Len(s) + Len(p) - 1
    BY <1>1
  <2>4. q[Len(q)] = p[Len(p)]
    BY <2>2, <2>3
  <2> QED BY <2>4
<1>4. Len(p) = 1 \/ Len(p) > 1
  <2>1. \A n \in Nat \ {0} : n = 1 \/ n > 1
    OBVIOUS
  <2>2. Len(p) \in Nat \ {0}
    BY Lengths
  <2> QED BY <2>1, <2>2, Zenon
<1> QED BY <1>2, <1>3, <1>4

\* The plan is not empty before its last loop ends.
LEMMA NotYetEmpty ==
  ASSUME NEW q, NEW s, NEW p, Replaces(q, s, p), Top(p[Len(p)]), ~Top(p[1])
  PROVE  q # <<>>
<1>1. Len(s) \in Nat /\ Len(p) \in Nat \ {0} /\ Len(q) = Len(s) + Len(p) - 1
  BY Lengths
<1>2. Len(p) # 1
  OBVIOUS
<1>3. Len(q) > 0
  BY <1>1, <1>2
<1> QED BY <1>3, EmptySeq

\* The braces a plan will take bring o open ones down to none.
Balanced(p, o) == \E h \in [0..Len(p) -> Int] : Levels(p, o, h)

\* A weight is a number.
LEMMA WeightIs ==
  ASSUME NEW s
  PROVE  Weight(s) \in Int
BY DEF Weight, Brace

\* The braces stay balanced when the front is done and balanced steps replace it.
LEMMA BalancedReplaced ==
  ASSUME NEW q, NEW s, NEW p, Replaces(q, s, p), NEW o \in Int,
         Balanced(p, o), Balanced(s, 0)
  PROVE  Balanced(q, o + Weight(p[1]))
<1> DEFINE ls == Len(s)
           lp == Len(p)
           lq == Len(q)
           w == Weight(p[1])
<1>1. ls \in Nat /\ lp \in Nat /\ lp >= 1 /\ lq = ls + lp - 1
  BY Lengths
<1>2. PICK h \in [0..lp -> Int] : Levels(p, o, h)
  BY DEF Balanced
<1>3. PICK g \in [0..ls -> Int] : Levels(s, 0, g)
  BY DEF Balanced
<1>4. /\ h[0] = o /\ h[lp] = 0 /\ \A i \in 1..lp : h[i] = h[i - 1] + Weight(p[i])
      /\ g[0] = 0 /\ g[ls] = 0 /\ \A i \in 1..ls : g[i] = g[i - 1] + Weight(s[i])
  BY <1>2, <1>3 DEF Levels
<1>5. /\ w \in Int /\ \A i \in 1..ls : q[i] = s[i]
      /\ \A i \in 2..lp : q[ls + i - 1] = p[i]
  BY WeightIs DEF Replaces
<1> HIDE DEF ls, lp, lq
<1>6. h[1] = o + w
  <2>1. 1 \in 1..lp /\ 1 - 1 = 0
    BY <1>1
  <2>2. h[1] = h[1 - 1] + Weight(p[1])
    BY <1>4, <2>1
  <2> QED BY <1>4, <2>1, <2>2
<1> HIDE DEF w
<1> DEFINE k == [i \in 0..lq |-> IF i <= ls THEN o + w + g[i] ELSE h[i - ls + 1]]
<1>7. \A i \in 0..ls : i \in 0..lq /\ k[i] = o + w + g[i] /\ g[i] \in Int
  BY <1>1, <1>3
<1>8. ASSUME NEW i \in 1..lp
      PROVE  ls + i - 1 \in 0..lq /\ k[ls + i - 1] = h[i] /\ h[i] \in Int
  <2>1. ls + i - 1 \in 0..lq /\ h[i] \in Int
    BY <1>1, <1>2
  <2>2. CASE i = 1
    <3>1. ls + i - 1 = ls /\ ls \in 0..ls
      BY <1>1, <2>2
    <3>2. k[ls] = o + w + g[ls]
      BY <1>7, <3>1
    <3>3. k[ls] = o + w
      BY <1>4, <1>5, <3>2
    <3> QED BY <1>6, <2>1, <2>2, <3>1, <3>3
  <2>3. CASE i # 1
    <3> DEFINE m == ls + i - 1
    <3>1. m \in 0..lq /\ ~(m <= ls) /\ m - ls + 1 = i
      BY <1>1, <2>3
    <3> HIDE DEF m
    <3>2. k[m] = h[m - ls + 1]
      BY <3>1
    <3> QED BY <2>1, <3>1, <3>2 DEF m
  <2> QED BY <2>2, <2>3
<1>9. ASSUME NEW i \in 0..lq
      PROVE  i \in 0..ls \/ \E j \in 1..lp : i = ls + j - 1
  <2>1. CASE i <= ls
    BY <1>1, <2>1
  <2>2. CASE ~(i <= ls)
    <3>1. i - ls + 1 \in 1..lp /\ i = ls + (i - ls + 1) - 1
      BY <1>1, <2>2
    <3> QED BY <3>1
  <2> QED BY <2>1, <2>2
<1>10. k \in [0..lq -> Int]
  <2>1. ASSUME NEW i \in 0..lq
        PROVE  k[i] \in Int
    <3>1. CASE i \in 0..ls
      BY <1>5, <1>7, <3>1
    <3>2. ASSUME NEW j \in 1..lp, i = ls + j - 1
          PROVE  k[i] \in Int
      BY <1>8, <3>2
    <3> QED BY <1>9, <3>1, <3>2
  <2> HIDE DEF k
  <2>2. k = [i \in 0..lq |-> k[i]]
    BY DEF k
  <2> QED BY <2>1, <2>2
<1> HIDE DEF k
<1>11. k[0] = o + w
  <2>1. 0 \in 0..ls
    BY <1>1
  <2>2. k[0] = o + w + g[0]
    BY <1>7, <2>1
  <2> QED BY <1>4, <1>5, <2>2
<1>12. k[lq] = 0
  <2>1. lp \in 1..lp /\ ls + lp - 1 = lq
    BY <1>1
  <2>2. k[ls + lp - 1] = h[lp]
    BY <1>8, <2>1
  <2> QED BY <1>4, <2>1, <2>2
<1>13. ASSUME NEW i \in 1..lq
       PROVE  k[i] = k[i - 1] + Weight(q[i])
  <2>1. CASE i \in 1..ls
    <3>1. i \in 0..ls /\ i - 1 \in 0..ls
      BY <1>1, <2>1
    <3>2. k[i] = o + w + g[i] /\ k[i - 1] = o + w + g[i - 1] /\ g[i - 1] \in Int
      BY <1>7, <3>1
    <3>3. g[i] = g[i - 1] + Weight(s[i]) /\ q[i] = s[i] /\ Weight(s[i]) \in Int
      BY <1>4, <1>5, <2>1, WeightIs
    <3> QED BY <1>5, <3>2, <3>3
  <2>2. CASE i \notin 1..ls
    <3> DEFINE j == i - ls + 1
    <3>1. j \in 2..lp /\ j \in 1..lp /\ j - 1 \in 1..lp /\ i = ls + j - 1 /\ i - 1 = ls + (j - 1) - 1
      BY <1>1, <2>2
    <3> HIDE DEF j
    <3>2. k[ls + j - 1] = h[j]
      BY <1>8, <3>1
    <3>3. k[ls + (j - 1) - 1] = h[j - 1]
      BY <1>8, <3>1
    <3>4. h[j] = h[j - 1] + Weight(p[j])
      BY <1>4, <3>1
    <3>5. q[ls + j - 1] = p[j]
      BY <1>5, <3>1
    <3> QED BY <3>1, <3>2, <3>3, <3>4, <3>5
  <2> QED BY <2>1, <2>2
<1>14. Levels(q, o + w, k)
  BY <1>11, <1>12, <1>13 DEF Levels, lq
<1> QED BY <1>10, <1>14 DEF Balanced, lq, w

-----------------------------------------------------------------------------
\* Steps whose weight, place and order need no thought.
Calm == {"judge", "skip", "while", "call", "leave", "loop", "stall"}

\* Calm steps take no braces.
LEMMA CalmIsBalanced ==
  ASSUME NEW s \in Seq(Steps), \A i \in 1..Len(s) : s[i].op \in Calm
  PROVE  Balanced(s, 0)
<1> DEFINE g == [i \in 0..Len(s) |-> 0]
<1>1. Len(s) \in Nat
  BY LenProperties
<1>2. \A i \in 1..Len(s) : Weight(s[i]) = 0
  BY DEF Weight, Calm
<1>3. g[0] = 0 /\ g[Len(s)] = 0
  BY <1>1
<1>4. \A i \in 1..Len(s) : g[i] = 0 /\ g[i - 1] = 0
  BY <1>1
<1>5. \A i \in 1..Len(s) : g[i] = g[i - 1] + Weight(s[i])
  BY <1>2, <1>4
<1>6. g \in [0..Len(s) -> Int]
  OBVIOUS
<1> HIDE DEF g
<1> QED BY <1>3, <1>5, <1>6 DEF Balanced, Levels

\* The steps of an operation that remember place n.
StepsAt(op, n) == {s \in Steps : s.op = op /\ s.n = n}

\* Steps that can take the place of the front of a plan, with the parser at place m.
Follows(s, m) ==
  /\ s \in Seq(Steps) /\ Placed(s) /\ Behind(s, Drops, Errors) /\ Balanced(s, 0)
  /\ \A i \in 1..Len(s) : s[i].op \in {"loop", "stall"} => s[i].n <= m
  /\ Behind(s, StepsAt("loop", m), StepsAt("stall", m))
  /\ Behind(s, StepsAt("stall", m), Yields)

\* Calm steps take and drop no token.
LEMMA CalmIsPlaced ==
  ASSUME NEW s \in Seq(Steps), \A i \in 1..Len(s) : s[i].op \in Calm
  PROVE  Placed(s) /\ Behind(s, Drops, Errors)
<1>1. \A i \in 1..Len(s) : s[i].op \notin {"scan", "split", "take"}
  BY DEF Calm
<1>2. \A i \in 1..Len(s) : s[i] \notin Drops
  BY DEF Calm, Drops
<1> QED BY <1>1, <1>2 DEF Placed, Behind

\* Where no loop has begun a round, none can begin one twice.
LEMMA NoRounds ==
  ASSUME NEW s \in Seq(Steps), NEW m \in Nat, m > 0,
         \A i \in 1..Len(s) : s[i].op # "stall" /\ (s[i].op = "loop" => s[i].n = 0)
  PROVE  /\ \A i \in 1..Len(s) : s[i].op \in {"loop", "stall"} => s[i].n <= m
         /\ Behind(s, StepsAt("loop", m), StepsAt("stall", m))
         /\ Behind(s, StepsAt("stall", m), Yields)
<1>1. \A i \in 1..Len(s) : s[i].op \in {"loop", "stall"} => s[i].n <= m
  OBVIOUS
<1>2. \A i \in 1..Len(s) : s[i] \notin StepsAt("loop", m) /\ s[i] \notin StepsAt("stall", m)
  BY DEF StepsAt
<1>3. Behind(s, StepsAt("loop", m), StepsAt("stall", m))
  BY <1>2 DEF Behind
<1>4. Behind(s, StepsAt("stall", m), Yields)
  BY <1>2 DEF Behind
<1> QED BY <1>1, <1>3, <1>4

\* Calm steps that remember no round can take the place of the front.
LEMMA CalmFollows ==
  ASSUME NEW s \in Seq(Steps), NEW m \in Nat, m > 0, \A i \in 1..Len(s) : s[i].op \in Calm,
         \A i \in 1..Len(s) : s[i].op # "stall" /\ (s[i].op = "loop" => s[i].n = 0)
  PROVE  Follows(s, m)
<1>1. Placed(s) /\ Behind(s, Drops, Errors)
  BY CalmIsPlaced
<1>2. Balanced(s, 0)
  BY CalmIsBalanced
<1>3. /\ \A i \in 1..Len(s) : s[i].op \in {"loop", "stall"} => s[i].n <= m
      /\ Behind(s, StepsAt("loop", m), StepsAt("stall", m))
      /\ Behind(s, StepsAt("stall", m), Yields)
  BY NoRounds
<1> QED BY <1>1, <1>2, <1>3 DEF Follows

\* So can no steps at all.
LEMMA NoneFollows ==
  ASSUME NEW m \in Nat, m > 0
  PROVE  Follows(<<>>, m)
<1>1. <<>> \in Seq(Steps) /\ Len(<<>>) = 0
  OBVIOUS
<1> DEFINE s == <<>>
<1>2. \A i \in 1..Len(s) : s[i].op \in Calm /\ s[i].op # "stall" /\ (s[i].op = "loop" => s[i].n = 0)
  BY <1>1
<1> HIDE DEF s
<1>3. s \in Seq(Steps) => Follows(s, m)
  BY <1>2, CalmFollows
<1> QED BY <1>1, <1>3 DEF s

\* One step as a sequence.
LEMMA SingleIs ==
  ASSUME NEW a \in Steps
  PROVE  <<a>> \in Seq(Steps) /\ Len(<<a>>) = 1 /\ <<a>>[1] = a
OBVIOUS

\* Two steps as a sequence.
LEMMA PairIs ==
  ASSUME NEW a \in Steps, NEW b \in Steps
  PROVE  <<a, b>> \in Seq(Steps) /\ Len(<<a, b>>) = 2 /\ <<a, b>>[1] = a /\ <<a, b>>[2] = b
OBVIOUS

\* Three steps as a sequence.
LEMMA TripleIs ==
  ASSUME NEW a \in Steps, NEW b \in Steps, NEW c \in Steps
  PROVE  /\ <<a, b, c>> \in Seq(Steps) /\ Len(<<a, b, c>>) = 3
         /\ <<a, b, c>>[1] = a /\ <<a, b, c>>[2] = b /\ <<a, b, c>>[3] = c
OBVIOUS

\* One calm step can take the place of the front.
LEMMA SingleFollows ==
  ASSUME NEW a \in Steps, NEW m \in Nat, m > 0, a.op \in Calm, a.op # "stall",
         a.op = "loop" => a.n = 0
  PROVE  Follows(<<a>>, m)
<1> DEFINE s == <<a>>
<1>1. s \in Seq(Steps) /\ Len(s) = 1 /\ s[1] = a
  BY SingleIs
<1> HIDE DEF s
<1>2. \A i \in 1..Len(s) : s[i] = a
  BY <1>1
<1>3. Follows(s, m)
  BY <1>1, <1>2, CalmFollows
<1> QED BY <1>3 DEF s

\* Two calm steps can.
LEMMA PairFollows ==
  ASSUME NEW a \in Steps, NEW b \in Steps, NEW m \in Nat, m > 0,
         a.op \in Calm, a.op \notin {"stall", "loop"}, b.op \in Calm, b.op \notin {"stall", "loop"}
  PROVE  Follows(<<a, b>>, m)
<1> DEFINE s == <<a, b>>
<1>1. s \in Seq(Steps) /\ Len(s) = 2 /\ s[1] = a /\ s[2] = b
  BY PairIs
<1> HIDE DEF s
<1>2. \A i \in 1..Len(s) : s[i].op \in Calm /\ s[i].op \notin {"stall", "loop"}
  BY <1>1
<1>3. Follows(s, m)
  BY <1>1, <1>2, CalmFollows
<1> QED BY <1>3 DEF s

\* A round: what it repeats, the stall check behind it, and the loop again.
LEMMA RoundFollows ==
  ASSUME NEW a \in Steps, NEW b \in Steps, NEW c \in Steps, NEW m \in Nat,
         a.op = "call", a \in Yields, b.op = "stall", b.n = m, c.op = "loop", c.n = m
  PROVE  Follows(<<a, b, c>>, m)
<1> DEFINE s == <<a, b, c>>
<1>1. s \in Seq(Steps) /\ Len(s) = 3 /\ s[1] = a /\ s[2] = b /\ s[3] = c
  BY TripleIs
<1> HIDE DEF s
<1>2. \A i \in 1..Len(s) : s[i].op \in Calm
  BY <1>1 DEF Calm
<1>3. Placed(s) /\ Behind(s, Drops, Errors)
  BY <1>1, <1>2, CalmIsPlaced
<1>4. Balanced(s, 0)
  BY <1>1, <1>2, CalmIsBalanced
<1>5. \A i \in 1..Len(s) : s[i].op \in {"loop", "stall"} => s[i].n <= m
  BY <1>1
<1>6. s[2] \in StepsAt("stall", m) /\ s[1] \notin StepsAt("loop", m) /\ s[2] \notin StepsAt("loop", m)
      /\ s[1] \notin StepsAt("stall", m)  /\ s[3] \notin StepsAt("stall", m) /\ s[1] \in Yields
  BY <1>1 DEF StepsAt
<1>7. Behind(s, StepsAt("loop", m), StepsAt("stall", m))
  <2>1. ASSUME NEW i \in 1..Len(s), s[i] \in StepsAt("loop", m)
        PROVE  2 \in 1..(i - 1)
    <3>1. i = 1 \/ i = 2 \/ i = 3
      BY <1>1
    <3> QED BY <1>6, <2>1, <3>1
  <2> QED BY <1>6, <2>1 DEF Behind
<1>8. Behind(s, StepsAt("stall", m), Yields)
  <2>1. ASSUME NEW i \in 1..Len(s), s[i] \in StepsAt("stall", m)
        PROVE  1 \in 1..(i - 1)
    <3>1. i = 1 \/ i = 2 \/ i = 3
      BY <1>1
    <3> QED BY <1>6, <2>1, <3>1
  <2> QED BY <1>6, <2>1 DEF Behind
<1>9. Follows(s, m)
  BY <1>1, <1>3, <1>4, <1>5, <1>7, <1>8 DEF Follows
<1> QED BY <1>9 DEF s

\* The body of an alternative that keeps to the table's rules can, anywhere.
LEMMA BodyFollows ==
  ASSUME NEW p, BodyFits(p), NEW m \in Nat, m > 0
  PROVE  Follows(p, m)
<1> DEFINE B == {s \in Steps : s.op \notin {"stall", "leave"} /\ (s.op = "loop" => s.n = 0)}
<1>1. p \in Seq(B) /\ Placed(p) /\ Behind(p, Drops, Errors)
  BY DEF BodyFits
<1>2. \A s \in B : s \in Steps /\ s.op # "stall" /\ (s.op = "loop" => s.n = 0)
  OBVIOUS
<1>3. PICK h \in [0..Len(p) -> 0..1] : Levels(p, 0, h)
  BY DEF BodyFits
<1> HIDE DEF B
<1>4. p \in Seq(Steps) /\ \A i \in 1..Len(p) : p[i] \in B
  BY <1>1, <1>2, ElementOfSeq, SeqDef
<1>5. \A i \in 1..Len(p) : p[i].op # "stall" /\ (p[i].op = "loop" => p[i].n = 0)
  BY <1>2, <1>4
<1>6. /\ \A i \in 1..Len(p) : p[i].op \in {"loop", "stall"} => p[i].n <= m
      /\ Behind(p, StepsAt("loop", m), StepsAt("stall", m))
      /\ Behind(p, StepsAt("stall", m), Yields)
  BY <1>4, <1>5, NoRounds
<1>7. h \in [0..Len(p) -> Int]
  BY <1>3
<1>8. Balanced(p, 0)
  BY <1>3, <1>7 DEF Balanced
<1> QED BY <1>1, <1>4, <1>6, <1>8 DEF Follows

(* ------------------------------ the invariant --------------------------- *)

\* The plan is made of the table's steps; its last step is the loop over the file.
PlanFits ==
  /\ plan \in Seq(Steps) /\ Placed(plan)
  /\ plan # <<>> => Top(plan[Len(plan)])
  /\ reports \in 0..MaxErrors

\* A loop that has begun a round here has its stall check before it.
MovesOn ==
  /\ First.n > 0
  /\ \A i \in 1..Len(plan) : plan[i].op \in {"loop", "stall"} => plan[i].n <= First.n
  /\ First.k # "eof" => Behind(plan, StepsAt("loop", First.n), StepsAt("stall", First.n))

\* Until an error is reported: what drops a token stands behind what reports one,
\* and a stall check that would find no progress behind what makes some.
Whole == reports = 0 =>
  /\ ~silent
  /\ plan = <<>> => cur.k = "eof"
  /\ Behind(plan, Drops, Errors)
  /\ Behind(plan, StepsAt("stall", First.n), Yields)

\* Until an error is reported or a name is odd, the plan closes what is open.
Level == open \in Int /\ (reports = 0 /\ ~odd => Balanced(plan, open))

\* The front of a plan that fits.
LEMMA PlanIs ==
  ASSUME PlanFits, plan # <<>>
  PROVE  plan \in Seq(Steps) /\ Len(plan) \in Nat /\ Len(plan) >= 1 /\ plan[1] \in Steps
BY LenProperties, EmptySeq, ElementOfSeq DEF PlanFits

\* PlanFits is kept when steps that can follow replace the front.
LEMMA KeepsPlan ==
  ASSUME PlanFits, NEW s, NEW m, Follows(s, m), Replaces(plan', s, plan),
         Len(s) > 0 => plan[1].op \notin {"judge", "error", "take"},
         Top(plan[1]) /\ s # <<>> => Top(s[Len(s)]),
         reports' \in 0..MaxErrors
  PROVE  PlanFits'
<1>1. plan' \in Seq(Steps) /\ plan # <<>> /\ Placed(s)
  BY DEF Replaces, Follows
<1>2. Placed(plan) /\ Top(plan[Len(plan)])
  BY <1>1 DEF PlanFits
<1>3. Placed(plan')
  BY <1>1, <1>2, PlacedReplaced
<1>4. plan' # <<>> => Top(plan'[Len(plan')])
  BY <1>2, LastReplaced
<1> QED BY <1>1, <1>3, <1>4 DEF PlanFits, Placed, Top

\* MovesOn is kept: a new round begins where the old one did only when its stall check
\* was still to come, and that one drops a token.
LEMMA KeepsMoving ==
  ASSUME PlanFits, MovesOn, First \in Token, First' \in Token, NEW s, Follows(s, First'.n),
         Replaces(plan', s, plan), First' = First \/ First'.n > First.n,
         plan[1].op = "stall" /\ plan[1].n = First.n /\ First.k # "eof" => First'.n > First.n
  PROVE  MovesOn'
<1> DEFINE m == First.n
           n == First'.n
<1>1. m \in Nat /\ n \in Nat /\ (n = m \/ n > m) /\ m > 0
  BY DEF Token, MovesOn
<1>2. plan # <<>> /\ Len(s) \in Nat /\ Len(plan) \in Nat \ {0}
  BY Lengths DEF Replaces
<1>3. ASSUME NEW i \in 1..Len(plan'), plan'[i].op \in {"loop", "stall"}
      PROVE  plan'[i].n <= n
  <2>1. CASE i \in 1..Len(s) /\ plan'[i] = s[i]
    BY <1>3, <2>1 DEF Follows
  <2>2. ASSUME NEW j \in 2..Len(plan), plan'[i] = plan[j]
        PROVE  plan'[i].n <= n
    <3>1. j \in 1..Len(plan) /\ plan[j] \in Steps
      BY <1>2, ElementOfSeq DEF Replaces
    <3>2. plan[j].n <= m /\ plan[j].n \in Nat
      BY <1>3, <2>2, <3>1 DEF MovesOn, Steps
    <3> HIDE DEF m, n
    <3> QED BY <1>1, <2>2, <3>2
  <2> QED BY <2>1, <2>2, Origin
<1>4. ASSUME First'.k # "eof"
      PROVE  Behind(plan', StepsAt("loop", n), StepsAt("stall", n))
  <2>1. Behind(s, StepsAt("loop", n), StepsAt("stall", n))
    BY DEF Follows
  <2>2. CASE First' = First /\ ~(n > m)
    <3>1. Behind(plan, StepsAt("loop", n), StepsAt("stall", n))
      BY <1>4, <2>2 DEF MovesOn
    <3>2. plan[1] \notin StepsAt("stall", n)
      BY <1>4, <2>2 DEF StepsAt
    <3> QED BY <2>1, <3>1, <3>2, BehindReplaced
  <2>3. CASE n > m
    <3>1. ASSUME NEW i \in 1..Len(plan)
          PROVE  plan[i] \notin StepsAt("loop", n) /\ plan[i] \notin StepsAt("stall", n)
      <4>1. plan[i] \in Steps
        BY ElementOfSeq DEF Replaces
      <4>2. plan[i].op \in {"loop", "stall"} => plan[i].n <= m /\ plan[i].n \in Nat
        BY <4>1 DEF MovesOn, Steps
      <4> HIDE DEF m, n
      <4>3. plan[i].op \in {"loop", "stall"} => plan[i].n # n
        BY <1>1, <2>3, <4>2
      <4> QED BY <4>3 DEF StepsAt
    <3>2. Behind(plan, StepsAt("loop", n), StepsAt("stall", n))
      BY <3>1 DEF Behind
    <3>3. plan[1] \notin StepsAt("stall", n)
      BY <1>2, <3>1
    <3> QED BY <2>1, <3>2, <3>3, BehindReplaced
  <2> QED BY <1>1, <2>2, <2>3
<1> HIDE DEF m
<1>5. n > 0
  BY <1>1
<1> QED BY <1>3, <1>4, <1>5 DEF MovesOn, StepsAt, Behind

\* Whole is kept: an error step leaves the plan only with a report, a step that yields only
\* when the parser has moved on or another one takes its place.
LEMMA KeepsWhole ==
  ASSUME PlanFits, MovesOn, Whole, First \in Token, First' \in Token, NEW s,
         Follows(s, First'.n), Replaces(plan', s, plan), First' = First \/ First'.n > First.n,
         reports' = 0 => reports = 0 /\ silent' = silent /\ plan[1] \notin Errors,
         reports' = 0 /\ plan' = <<>> => cur'.k = "eof",
         reports' = 0 /\ plan[1] \in Yields =>
           First'.n > First.n \/ \E i \in 1..Len(s) : s[i] \in Yields
  PROVE  Whole'
<1> DEFINE m == First.n
           n == First'.n
<1>1. m \in Nat /\ n \in Nat /\ (n = m \/ n > m)
  BY DEF Token
<1>2. plan # <<>> /\ Len(s) \in Nat /\ Len(plan) \in Nat \ {0}
  BY Lengths DEF Replaces
<1>3. SUFFICES ASSUME reports' = 0
               PROVE  /\ ~silent' /\ (plan' = <<>> => cur'.k = "eof")
                      /\ Behind(plan', Drops, Errors)
                      /\ Behind(plan', StepsAt("stall", n), Yields)
  BY DEF Whole, Behind, StepsAt
<1>4. reports = 0 /\ silent' = silent /\ ~silent /\ plan[1] \notin Errors
  BY <1>3 DEF Whole
<1>5. Behind(plan', Drops, Errors)
  <2>1. Behind(plan, Drops, Errors) /\ Behind(s, Drops, Errors)
    BY <1>4 DEF Whole, Follows
  <2> QED BY <1>4, <2>1, BehindReplaced
<1>6. Behind(plan', StepsAt("stall", n), Yields)
  <2>1. Behind(s, StepsAt("stall", n), Yields)
    BY DEF Follows
  <2>2. CASE First' = First /\ ~(n > m)
    <3>1. Behind(plan, StepsAt("stall", n), Yields)
      BY <1>4, <2>2 DEF Whole
    <3>2. plan[1] \in Yields => \E i \in 1..Len(s) : s[i] \in Yields
      BY <1>3, <2>2
    <3> QED BY <2>1, <3>1, <3>2, BehindReplaced
  <2>3. CASE n > m
    <3>1. ASSUME NEW i \in 1..Len(plan)
          PROVE  plan[i] \notin StepsAt("stall", n)
      <4>1. plan[i] \in Steps
        BY ElementOfSeq DEF Replaces
      <4>2. plan[i].op \in {"loop", "stall"} => plan[i].n <= m /\ plan[i].n \in Nat
        BY <4>1 DEF MovesOn, Steps
      <4> HIDE DEF m, n
      <4>3. plan[i].op \in {"loop", "stall"} => plan[i].n # n
        BY <1>1, <2>3, <4>2
      <4> QED BY <4>3 DEF StepsAt
    <3>2. ASSUME NEW i \in 1..Len(plan'), plan'[i] \in StepsAt("stall", n)
          PROVE  \E j \in 1..(i - 1) : plan'[j] \in Yields
      <4>1. i \in 1..Len(s) /\ plan'[i] = s[i]
        <5>1. ASSUME NEW j \in 2..Len(plan), plan'[i] = plan[j]
              PROVE  FALSE
          <6>1. j \in 1..Len(plan)
            BY <1>2
          <6> QED BY <3>1, <3>2, <5>1, <6>1
        <5> QED BY <5>1, Origin
      <4>2. PICK j \in 1..(i - 1) : s[j] \in Yields
        BY <2>1, <3>2, <4>1 DEF Behind
      <4>3. j \in 1..Len(s)
        BY <1>2, <4>1
      <4>4. plan'[j] = s[j]
        BY <4>3 DEF Replaces
      <4> QED BY <4>2, <4>4
    <3> QED BY <3>2 DEF Behind
  <2> QED BY <1>1, <2>2, <2>3
<1> QED BY <1>3, <1>4, <1>5, <1>6

\* Level is kept when the braces kept are those of the step that is done.
LEMMA KeepsLevel ==
  ASSUME Level, NEW s, NEW m, Follows(s, m), Replaces(plan', s, plan), open' \in Int,
         reports' = 0 /\ ~odd' => reports = 0 /\ ~odd /\ open' = open + Weight(plan[1])
  PROVE  Level'
<1>1. SUFFICES ASSUME reports' = 0, ~odd'
               PROVE  Balanced(plan', open')
  BY DEF Level, Balanced, Levels
<1>2. Balanced(plan, open) /\ open \in Int /\ open' = open + Weight(plan[1]) /\ Balanced(s, 0)
  BY <1>1 DEF Level, Follows
<1>3. Balanced(plan', open + Weight(plan[1]))
  BY <1>2, BalancedReplaced
<1> QED BY <1>2, <1>3

\* What the step in front relies on.
HeadKnown ==
  /\ At("scan") /\ buffered = <<>> => la # <<>>
  /\ buffered # <<>> => At("scan") /\ la = <<>>
  /\ At("split") => cur.k = ">>"
  /\ At("take") => cur.k \notin Bad
  /\ Len(plan) >= 2 /\ plan[2].op = "take" =>
       IF At("take") THEN la # <<>> /\ la[1].k \notin Bad ELSE cur.k \notin Bad

\* What the first steps of s rely on, before the tokens c and l.
Seen(s, c, l) ==
  /\ Len(s) >= 1 /\ s[1].op = "scan" => l # <<>>
  /\ Len(s) >= 1 /\ s[1].op = "split" => c.k = ">>"
  /\ Len(s) >= 1 /\ s[1].op = "take" => c.k \notin Bad
  /\ Len(s) >= 2 /\ s[2].op = "take" =>
       IF s[1].op = "take" THEN l # <<>> /\ l[1].k \notin Bad ELSE c.k \notin Bad

\* HeadKnown is kept when what the new front looks at has been looked at.
LEMMA KeepsHead ==
  ASSUME PlanFits, NEW s, Replaces(plan', s, plan), buffered' = <<>>, Seen(s, cur', la'),
         Len(s) > 0 => plan[1].op \notin {"judge", "error", "take"},
         /\ plan[1].op \in {"judge", "error", "take"} /\ Len(plan) >= 2 /\ plan[2].op = "take"
         => cur'.k \notin Bad
  PROVE  HeadKnown'
<1>1. /\ Len(s) \in Nat /\ Len(plan) \in Nat /\ Len(plan) >= 1
      /\ Len(plan') = Len(s) + Len(plan) - 1 /\ plan' \in Seq(Steps)
  BY Lengths DEF Replaces
<1>2. \A i \in 2..Len(plan) : /\ plan[i].op \notin {"scan", "split"}
                              /\ plan[i].op = "take" => i = 2 /\ plan[1].op \in {"judge", "error", "take"}
  <2>1. \A i \in 2..Len(plan) : i \in 1..Len(plan) /\ i # 1
    BY <1>1
  <2> QED BY <2>1 DEF PlanFits, Placed
<1>3. \A i \in 2..Len(plan) : plan'[Len(s) + i - 1] = plan[i]
  BY DEF Replaces
<1>4. \A i \in 1..Len(s) : plan'[i] = s[i]
  BY DEF Replaces
<1>5. (plan # <<>>)' => Len(plan') >= 1
  BY <1>1, EmptySeq
<1>6. CASE Len(s) = 0
  <2>1. Len(plan') >= 1 => 2 \in 2..Len(plan) /\ plan'[1] = plan[2]
    <3>1. Len(plan') >= 1 => 2 \in 2..Len(plan) /\ Len(s) + 2 - 1 = 1
      BY <1>1, <1>6
    <3> QED BY <1>3, <3>1
  <2>2. Len(plan') >= 2 => 3 \in 2..Len(plan) /\ plan'[2] = plan[3]
    <3>1. Len(plan') >= 2 => 3 \in 2..Len(plan) /\ Len(s) + 3 - 1 = 2
      BY <1>1, <1>6
    <3> QED BY <1>3, <3>1
  <2>3. Len(plan') >= 1 => plan'[1].op \notin {"scan", "split"} /\ (plan'[1].op = "take" => cur'.k \notin Bad)
    <3>1. 2 \in 2..Len(plan) => Len(plan) >= 2
      BY <1>1
    <3> QED BY <1>2, <2>1, <3>1
  <2>4. Len(plan') >= 2 => plan'[2].op # "take"
    BY <1>2, <2>2
  <2> QED BY <1>5, <2>3, <2>4 DEF HeadKnown, At
<1>7. CASE Len(s) = 1
  <2>1. 1 \in 1..Len(s) /\ plan'[1] = s[1]
    BY <1>1, <1>4, <1>7
  <2>2. Len(plan') >= 2 => plan'[2].op # "take"
    <3>1. Len(plan') >= 2 => 2 \in 2..Len(plan) /\ Len(s) + 2 - 1 = 2
      BY <1>1, <1>7
    <3>2. Len(plan') >= 2 => plan'[2] = plan[2]
      BY <1>3, <3>1
    <3> QED BY <1>2, <1>7, <3>1, <3>2
  <2>3. Len(s) >= 1
    BY <1>7
  <2> QED BY <2>1, <2>2, <2>3 DEF HeadKnown, At, Seen
<1>8. CASE Len(s) >= 2
  <2>1. 1 \in 1..Len(s) /\ plan'[1] = s[1] /\ 2 \in 1..Len(s) /\ plan'[2] = s[2] /\ Len(s) >= 1
    BY <1>1, <1>4, <1>8
  <2>2. plan' # <<>>
    BY <1>1, <1>8
  <2> QED BY <1>8, <2>1, <2>2 DEF HeadKnown, At, Seen
<1>9. Len(s) = 0 \/ Len(s) = 1 \/ Len(s) >= 2
  <2>1. \A n \in Nat : n = 0 \/ n = 1 \/ n >= 2
    OBVIOUS
  <2> QED BY <1>1, <2>1, Zenon
<1> QED BY <1>6, <1>7, <1>8, <1>9

\* What holds of the parser at each step.
ParserInv == TokensFit /\ PlanFits /\ HeadKnown /\ MovesOn /\ Whole /\ Level

\* What a step that replaces the front by the steps of s has to see to.
LEMMA Kept ==
  ASSUME ParserInv, TokensFit', NEW s, Replaces(plan', s, plan), Follows(s, First'.n),
         buffered' = <<>>, Seen(s, cur', la'),
         First' = First \/ First'.n > First.n,
         Len(s) > 0 => plan[1].op \notin {"judge", "error", "take"},
         /\ plan[1].op \in {"judge", "error", "take"} /\ Len(plan) >= 2 /\ plan[2].op = "take"
         => cur'.k \notin Bad,
         Top(plan[1]) => /\ s # <<>> => Top(s[Len(s)])
                         /\ reports' = 0 /\ plan' = <<>> => cur'.k = "eof",
         plan[1].op = "stall" /\ plan[1].n = First.n /\ First.k # "eof" => First'.n > First.n,
         reports' \in 0..MaxErrors, open' \in Int,
         reports' = 0 => reports = 0 /\ silent' = silent /\ plan[1].op # "error",
         reports' = 0 /\ ~odd' => ~odd /\ open' = open + Weight(plan[1]),
         reports' = 0 /\ plan[1] \in Yields =>
           First'.n > First.n \/ \E i \in 1..Len(s) : s[i] \in Yields
  PROVE  ParserInv'
<1>1. PlanFits /\ MovesOn /\ Whole /\ Level /\ TokensFit
  BY DEF ParserInv
<1>2. First \in Token /\ First' \in Token
  <2>1. First \in Token
    BY <1>1, RowFirst
  <2>2. First' \in Token
    BY DEF TokensFit, First
  <2> QED BY <2>1, <2>2
<1>3. PlanFits'
  BY <1>1, KeepsPlan
<1>4. HeadKnown'
  BY <1>1, KeepsHead
<1>5. MovesOn'
  BY <1>1, <1>2, KeepsMoving
<1>6. Whole'
  <2>1. plan # <<>> /\ Top(plan[Len(plan)])
    BY <1>1 DEF Replaces, PlanFits
  <2>2. reports' = 0 /\ plan' = <<>> => cur'.k = "eof"
    BY <2>1, NotYetEmpty
  <2>3. reports' = 0 => plan[1] \notin Errors
    BY DEF Errors
  <2> QED BY <1>1, <1>2, <2>2, <2>3, KeepsWhole
<1>7. Level'
  BY <1>1, KeepsLevel
<1> QED BY <1>3, <1>4, <1>5, <1>6, <1>7 DEF ParserInv

\* Before a step that is not the pipeline test no token is looked past.
LEMMA AtFront ==
  ASSUME ParserInv, NEW op, op # "scan", At(op)
  PROVE  /\ plan # <<>> /\ plan \in Seq(Steps) /\ plan[1] \in Steps /\ plan[1].op = op
         /\ buffered = <<>> /\ First = cur /\ cur \in Token /\ cur.n > 0
         /\ reports \in 0..MaxErrors /\ open \in Int
<1>1. plan # <<>> /\ plan[1].op = op
  BY DEF At
<1>2. plan \in Seq(Steps) /\ plan[1] \in Steps
  BY <1>1, PlanIs DEF ParserInv
<1>3. buffered = <<>>
  BY <1>1 DEF ParserInv, HeadKnown, At
<1>4. First = cur
  BY <1>3 DEF First
<1>5. cur \in Token /\ cur.n > 0
  BY <1>4 DEF ParserInv, TokensFit, MovesOn
<1> QED BY <1>1, <1>2, <1>3, <1>4, <1>5 DEF ParserInv, PlanFits, Level

\* Continue() as the replacement of the front.
LEMMA ContinueIs ==
  ASSUME NEW s \in Seq(Steps), plan \in Seq(Steps), plan # <<>>, Continue(s)
  PROVE  Replaces(plan', s, plan)
BY ReplacedIs DEF Continue

\* Facts about no steps at all.
LEMMA NoSteps == <<>> \in Seq(Steps) /\ Len(<<>>) = 0 /\ ~(Len(<<>>) > 0) /\ ~(Len(<<>>) >= 1)
OBVIOUS

\* A report leaves reports within its limit and not at zero.
LEMMA Reported ==
  ASSUME reports \in 0..MaxErrors, NEW t \in 1..2, Diagnose(t)
  PROVE  reports' \in 0..MaxErrors /\ reports' # 0
BY ParserAssumption DEF Diagnose, LowerOf

\* The tokens where nothing is consumed.
LEMMA Stayed ==
  ASSUME ParserInv, UNCHANGED <<corner, buffered>>, Stay
  PROVE  /\ TokensFit' /\ First' = First /\ UNCHANGED <<cur, la, buffered, silent, open>>
BY DEF ParserInv, Stay, tokens, TokensFit, Ahead, First, Row

\* A step in front that consumes nothing gives way to the steps of s.
LEMMA KeptStay ==
  ASSUME ParserInv, NEW op, op \notin {"scan", "take"}, At(op),
         Stay, UNCHANGED <<corner, buffered>>, odd' = odd,
         NEW s \in Seq(Steps), Continue(s), Follows(s, cur.n), Seen(s, cur, la),
         Len(s) > 0 => op \notin {"judge", "error"},
         op = "loop" /\ Top(plan[1]) => /\ s # <<>> => Top(s[Len(s)])
                                        /\ reports' = 0 /\ s = <<>> => cur.k = "eof",
         op = "stall" => plan[1].n # cur.n,
         reports' \in 0..MaxErrors,
         reports' = 0 => reports = 0 /\ op \notin {"expect", "value", "error"},
         reports' = 0 /\ op \in {"call", "guard"} /\ plan[1].arg \in Yielding =>
           \E i \in 1..Len(s) : s[i] \in Yields
  PROVE  ParserInv'
<1>1. /\ plan # <<>> /\ plan \in Seq(Steps) /\ plan[1] \in Steps /\ plan[1].op = op
      /\ buffered = <<>> /\ First = cur /\ cur \in Token /\ open \in Int
  BY AtFront
<1>2. /\ TokensFit' /\ First' = First /\ UNCHANGED <<cur, la, buffered, silent, open>>
  BY Stayed
<1>3. Replaces(plan', s, plan)
  BY <1>1, ContinueIs
<1>4. /\ Follows(s, First'.n) /\ buffered' = <<>> /\ Seen(s, cur', la')
  BY <1>1, <1>2
<1>5. Len(s) > 0 => plan[1].op \notin {"judge", "error", "take"}
  BY <1>1
<1>6. /\ plan[1].op \in {"judge", "error", "take"} /\ Len(plan) >= 2 /\ plan[2].op = "take"
      => cur'.k \notin Bad
  BY <1>1, <1>2 DEF ParserInv, HeadKnown, At
<1>7. Top(plan[1]) => /\ s # <<>> => Top(s[Len(s)])
                      /\ reports' = 0 /\ plan' = <<>> => cur'.k = "eof"
  <2>1. s # <<>> => plan' # <<>>
    <3>1. Len(plan') = Len(s) + Len(plan) - 1 /\ Len(s) \in Nat /\ Len(plan) \in Nat \ {0}
      BY <1>3, Lengths
    <3>2. s # <<>> => Len(plan') # 0
      BY <3>1, EmptySeq
    <3> QED BY <3>2
  <2>2. Top(plan[1]) => op = "loop"
    BY <1>1 DEF Top
  <2> QED BY <1>1, <1>2, <2>1, <2>2
<1>8. plan[1].op = "stall" /\ plan[1].n = First.n /\ First.k # "eof" => First'.n > First.n
  BY <1>1
<1>9. reports' = 0 => reports = 0 /\ silent' = silent /\ plan[1].op # "error"
  BY <1>1, <1>2
<1>10. open' \in Int
  BY <1>1, <1>2
<1>11. reports' = 0 /\ ~odd' => ~odd /\ open' = open + Weight(plan[1])
  <2>1. plan[1].op # "expect" => Weight(plan[1]) = 0
    BY DEF Weight
  <2> QED BY <1>1, <1>2, <2>1
<1>12. reports' = 0 /\ plan[1] \in Yields => First'.n > First.n \/ \E i \in 1..Len(s) : s[i] \in Yields
  BY <1>1 DEF Yields
<1>13. First' = First \/ First'.n > First.n
  BY <1>2
<1> QED BY <1>2, <1>3, <1>4, <1>5, <1>6, <1>7, <1>8, <1>9, <1>10, <1>11, <1>12, <1>13, Kept

\* A step in front that consumes a token gives way to the steps of s.
LEMMA Taken ==
  ASSUME ParserInv, NEW op, op # "scan", At(op), Advance, UNCHANGED <<corner, buffered>>
  PROVE  /\ TokensFit' /\ buffered' = <<>> /\ First' = cur' /\ la' = <<>>
         /\ la # <<>> => cur' = la[1]
         /\ cur.k = "eof" => cur' = cur
         /\ cur.k # "eof" => cur'.n > cur.n
         /\ cur' \in Token /\ cur'.n \in Nat /\ cur'.n > 0
<1>1. buffered = <<>> /\ cur \in Token /\ cur.n > 0 /\ TokensFit
  BY AtFront DEF ParserInv
<1>2. TokensFit' /\ la' = <<>> /\ (la # <<>> => cur' = la[1])
  BY <1>1, Advances
<1>3. IF cur.k = "eof" THEN cur' = cur ELSE cur'.n > cur.n
  BY <1>1, Advances
<1>4. buffered' = <<>> /\ First' = cur' /\ cur' \in Token
  BY <1>1, <1>2 DEF TokensFit, First
<1>5. cur'.n \in Nat /\ cur.n \in Nat
  BY <1>1, <1>4 DEF Token
<1>6. cur'.n > 0
  BY <1>1, <1>3, <1>5
<1> QED BY <1>2, <1>3, <1>4, <1>5, <1>6

\* A step in front that consumes a token by advance() gives way to the steps of s.
LEMMA KeptTake ==
  ASSUME ParserInv, NEW op, op \notin {"scan", "loop", "judge", "error"}, At(op),
         Advance, UNCHANGED <<corner, buffered, reports>>,
         NEW s \in Seq(Steps), Continue(s), Follows(s, cur'.n), Seen(s, cur', la'),
         Len(s) > 0 => op # "take",
         op = "stall" => plan[1].n = cur.n,
         op \in {"expect", "value", "take"} \/ (op \in {"call", "guard"} /\ plan[1].arg \in Yielding) =>
           cur.k # "eof",
         open' \in Int, reports = 0 => silent' = silent,
         reports = 0 /\ ~odd' => ~odd /\ open' = open + Weight(plan[1])
  PROVE  ParserInv'
<1>1. /\ plan # <<>> /\ plan \in Seq(Steps) /\ plan[1] \in Steps /\ plan[1].op = op
      /\ buffered = <<>> /\ First = cur /\ cur \in Token /\ reports \in 0..MaxErrors
  BY AtFront
<1>2. /\ TokensFit' /\ buffered' = <<>> /\ First' = cur'
      /\ la # <<>> => cur' = la[1]
      /\ cur.k = "eof" => cur' = cur
      /\ cur.k # "eof" => cur'.n > cur.n
  BY Taken
<1>3. Replaces(plan', s, plan)
  BY <1>1, ContinueIs
<1>4. Follows(s, First'.n)
  BY <1>2
<1>5. Len(s) > 0 => plan[1].op \notin {"judge", "error", "take"}
  BY <1>1
<1>6. /\ plan[1].op \in {"judge", "error", "take"} /\ Len(plan) >= 2 /\ plan[2].op = "take"
      => cur'.k \notin Bad
  <2>1. CASE op = "take"
    BY <1>1, <1>2, <2>1 DEF ParserInv, HeadKnown, At
  <2> QED BY <1>1, <2>1
<1>7. Top(plan[1]) => /\ s # <<>> => Top(s[Len(s)])
                      /\ reports' = 0 /\ plan' = <<>> => cur'.k = "eof"
  BY <1>1 DEF Top
<1>8. plan[1].op = "stall" /\ plan[1].n = First.n /\ First.k # "eof" => First'.n > First.n
  BY <1>1, <1>2
<1>9. reports' = 0 => reports = 0 /\ silent' = silent /\ plan[1].op # "error"
  BY <1>1
<1>10. reports' = 0 /\ ~odd' => ~odd /\ open' = open + Weight(plan[1])
  OBVIOUS
<1>11. reports' = 0 /\ plan[1] \in Yields => First'.n > First.n \/ \E i \in 1..Len(s) : s[i] \in Yields
  BY <1>1, <1>2 DEF Yields
<1>12. First' = First \/ First'.n > First.n
  BY <1>1, <1>2
<1>13. reports' \in 0..MaxErrors
  BY <1>1
<1> QED BY <1>2, <1>3, <1>4, <1>5, <1>6, <1>7, <1>8, <1>9, <1>10, <1>11, <1>12, <1>13, Kept

\* The plan stays, when what is seen is still seen.
LEMMA KeptPlan ==
  ASSUME ParserInv, TokensFit', plan' = plan, reports' = reports, plan # <<>>, HeadKnown',
         open' \in Int, First' = First \/ First'.n > First.n,
         reports = 0 => First' = First /\ UNCHANGED <<silent, open, odd>>
  PROVE  ParserInv'
<1>1. PlanFits /\ MovesOn /\ Whole /\ Level /\ First \in Token
  BY RowFirst DEF ParserInv
<1>2. First' \in Token
  BY DEF TokensFit, First, HeadKnown, At
<1>3. PlanFits'
  BY <1>1 DEF PlanFits, Placed
<1>4. MovesOn'
  <2>1. CASE First' = First
    BY <1>1, <2>1 DEF MovesOn, StepsAt, Behind
  <2>2. CASE First'.n > First.n
    <3> DEFINE m == First.n
               n == First'.n
    <3>1. m \in Nat /\ n \in Nat /\ n > m /\ m > 0
      BY <1>1, <1>2, <2>2 DEF Token, MovesOn
    <3>2. ASSUME NEW i \in 1..Len(plan), plan[i].op \in {"loop", "stall"}
          PROVE  plan[i].n <= n /\ plan[i].n # n
      <4>1. plan[i] \in Steps
        BY <1>1, ElementOfSeq DEF PlanFits
      <4>2. plan[i].n <= m /\ plan[i].n \in Nat
        BY <1>1, <3>2, <4>1 DEF MovesOn, Steps
      <4> HIDE DEF m, n
      <4> QED BY <3>1, <4>2
    <3> HIDE DEF m, n
    <3>3. Behind(plan, StepsAt("loop", n), StepsAt("stall", n))
      BY <3>2 DEF Behind, StepsAt
    <3>4. n > 0
      BY <3>1
    <3> QED BY <3>2, <3>3, <3>4 DEF MovesOn, Behind, StepsAt, n
  <2> QED BY <2>1, <2>2
<1>5. Whole'
  BY <1>1 DEF Whole, Behind, StepsAt
<1>6. Level'
  BY <1>1 DEF Level, Balanced, Levels
<1> QED BY <1>3, <1>4, <1>5, <1>6 DEF ParserInv

(* ------------------------------- the actions ---------------------------- *)

\* The empty sequence of steps, as a new beginning of a plan.
LEMMA NoneNew ==
  ASSUME NEW m \in Nat, m > 0, NEW c, NEW l
  PROVE  /\ <<>> \in Seq(Steps) /\ Follows(<<>>, m) /\ Seen(<<>>, c, l) /\ ~(Len(<<>>) > 0)
BY NoneFollows, NoSteps DEF Seen

\* One step that is none of those that look at a token.
LEMMA SingleNew ==
  ASSUME NEW a \in Steps, NEW m \in Nat, m > 0, a.op \in Calm, a.op # "stall",
         a.op = "loop" => a.n = 0, NEW c, NEW l
  PROVE  /\ <<a>> \in Seq(Steps) /\ Follows(<<a>>, m) /\ Seen(<<a>>, c, l)
         /\ <<a>> # <<>> /\ <<a>>[Len(<<a>>)] = a
<1> DEFINE s == <<a>>
<1>1. s \in Seq(Steps) /\ Len(s) = 1 /\ s[1] = a
  BY SingleIs
<1>2. Follows(s, m)
  BY SingleFollows
<1>4. s # <<>>
  OBVIOUS
<1> HIDE DEF s
<1>3. Seen(s, c, l)
  BY <1>1 DEF Seen, Calm
<1>5. s[Len(s)] = a
  BY <1>1
<1>6. s \in Seq(Steps) /\ Follows(s, m) /\ Seen(s, c, l) /\ s # <<>> /\ s[Len(s)] = a
  BY <1>1, <1>2, <1>3, <1>4, <1>5 DEF s
<1> QED BY <1>6 DEF s

\* What a class accepts is neither the end of the file nor a brace, but for the
\* braces themselves.
LEMMA ClassIs ==
  ASSUME NEW a, NEW k \in Class(a), a # "eof"
  PROVE  k # "eof" /\ Brace(k) = Brace(a)
<1>1. CASE a = "id"
  BY <1>1 DEF Class, Ident, Hint, Brace
<1>2. CASE a = "ns"
  BY <1>2 DEF Class, Ident, Hint, Brace
<1>3. CASE a = "alias"
  BY <1>3 DEF Class, Ident, Hint, StdType, Scalar, Generic, Composite, Brace
<1>4. CASE a = "mark"
  BY <1>4 DEF Class, Brace
<1>5. CASE a = "type"
  BY <1>5 DEF Class, Brace
<1>6. CASE a \notin {"id", "ns", "alias", "mark", "type"}
  BY <1>6 DEF Class
<1> QED BY <1>1, <1>2, <1>3, <1>4, <1>5, <1>6

\* Only braces count as braces.
LEMMA BraceIs ==
  ASSUME NEW k
  PROVE  Brace(k) \in Int /\ (k \notin Bad => Brace(k) = 0)
<1>1. Brace(k) \in Int
  BY DEF Brace
<1>2. k \notin Bad => Brace(k) = 0
  BY DEF Brace, Bad
<1> QED BY <1>1, <1>2

\* expect() and match() on the token they ask for: its brace is the step's weight.
LEMMA KeptAccept ==
  ASSUME ParserInv, Accept
  PROVE  ParserInv'
<1> DEFINE op == plan[1].op
<1>1. /\ op \in {"expect", "match"} /\ At(op) /\ cur.k \in Class(plan[1].arg)
      /\ Advance /\ open' = open + Brace(cur.k) /\ silent' = silent
      /\ Continue(<<>>) /\ UNCHANGED <<corner, buffered, reports>> /\ odd' = odd
  BY DEF Accept, Keep, At, arg
<1>2. plan[1] \in Steps /\ cur \in Token /\ open \in Int
  BY <1>1, AtFront
<1>3. plan[1].arg # "eof" /\ (op = "match" => plan[1].arg \notin Bad)
  BY <1>1, <1>2 DEF Steps, Bad
<1>4. cur.k # "eof" /\ Brace(cur.k) = Brace(plan[1].arg)
  BY <1>1, <1>3, ClassIs
<1>5. Brace(cur.k) = Weight(plan[1])
  BY <1>1, <1>3, <1>4, BraceIs DEF Weight
<1>6. cur'.n \in Nat /\ cur'.n > 0
  BY <1>1, Taken
<1>7. open' \in Int /\ open' = open + Weight(plan[1])
  BY <1>1, <1>2, <1>5, BraceIs
<1> HIDE DEF op
<1>8. /\ <<>> \in Seq(Steps) /\ Follows(<<>>, cur'.n) /\ Seen(<<>>, cur', la') /\ ~(Len(<<>>) > 0)
  BY <1>6, NoneNew
<1> QED BY <1>1, <1>4, <1>7, <1>8, KeptTake

\* expect() without its token reports; match() passes, and asks for no brace.
LEMMA KeptRefuse ==
  ASSUME ParserInv, Refuse
  PROVE  ParserInv'
<1> DEFINE op == plan[1].op
<1>1. /\ op \in {"expect", "match"} /\ At(op)
      /\ IF op = "expect" THEN Diagnose(1) ELSE reports' = reports
      /\ Continue(<<>>) /\ Stay /\ UNCHANGED <<corner, buffered>> /\ odd' = odd
  BY DEF Refuse, At
<1>2. cur \in Token /\ cur.n > 0 /\ reports \in 0..MaxErrors
  BY <1>1, AtFront
<1>3. cur.n \in Nat
  BY <1>2 DEF Token
<1> HIDE DEF op
<1>4. reports' \in 0..MaxErrors /\ (op = "expect" => reports' # 0) /\ (op = "match" => reports' = reports)
  BY <1>1, <1>2, Reported
<1>5. /\ <<>> \in Seq(Steps) /\ Follows(<<>>, cur.n) /\ Seen(<<>>, cur, la) /\ ~(Len(<<>>) > 0)
  BY <1>2, <1>3, NoneNew
<1> QED BY <1>1, <1>4, <1>5, KeptStay

\* A value is taken and judged, or reported.
LEMMA KeptValue ==
  ASSUME ParserInv, Value
  PROVE  ParserInv'
<1> DEFINE op == plan[1].op
<1>1. op \in {"value"} /\ At(op) /\ UNCHANGED <<corner, buffered>> /\ odd' = odd
  BY DEF Value, At
<1>2. plan[1] \in Steps /\ cur \in Token /\ cur.n > 0 /\ open \in Int
      /\ reports \in 0..MaxErrors
  BY <1>1, AtFront
<1>3. plan[1].arg \notin Bad
  BY <1>1, <1>2 DEF Steps
<1>6. Weight(plan[1]) = 0 /\ Brace(plan[1].arg) = 0
  BY <1>1, <1>3, BraceIs DEF Weight
<1> HIDE DEF op
<1>4. CASE cur.k \in Class(arg)
  <2>1. /\ Advance /\ open' = open + Brace(cur.k) /\ silent' = silent /\ Continue(<<J>>)
        /\ reports' = reports
    BY <1>4 DEF Value, Keep
  <2>2. cur.k # "eof" /\ Brace(cur.k) = Brace(plan[1].arg)
    BY <1>3, <1>4, ClassIs DEF arg, Bad
  <2>3. open' \in Int /\ open' = open + Weight(plan[1])
    BY <1>2, <1>6, <2>1, <2>2
  <2>4. cur'.n \in Nat /\ cur'.n > 0
    BY <1>1, <2>1, Taken
  <2>5. J \in Steps /\ J.op = "judge"
    BY DEF J, Step, Since, Steps, Ops, Args
  <2>6. <<J>> \in Seq(Steps) /\ Follows(<<J>>, cur'.n) /\ Seen(<<J>>, cur', la')
    BY <2>4, <2>5, SingleNew DEF Calm
  <2> DEFINE s == <<J>>
  <2>7. s \in Seq(Steps) /\ Follows(s, cur'.n) /\ Seen(s, cur', la') /\ Continue(s)
    BY <2>1, <2>6
  <2> HIDE DEF s
  <2> QED BY <1>1, <2>1, <2>2, <2>3, <2>7, KeptTake
<1>5. CASE cur.k \notin Class(arg)
  <2>1. Stay /\ Continue(<<>>) /\ Diagnose(2)
    BY <1>5 DEF Value
  <2>2. reports' \in 0..MaxErrors /\ reports' # 0
    BY <1>2, <2>1, Reported
  <2>3. cur.n \in Nat
    BY <1>2 DEF Token
  <2>4. /\ <<>> \in Seq(Steps) /\ Follows(<<>>, cur.n) /\ Seen(<<>>, cur, la) /\ ~(Len(<<>>) > 0)
    BY <1>2, <2>3, NoneNew
  <2> QED BY <1>1, <2>1, <2>2, <2>4, KeptStay
<1> QED BY <1>4, <1>5

\* An error step always reports; a judgement may.
LEMMA KeptJudge ==
  ASSUME ParserInv, Judge
  PROVE  ParserInv'
<1> DEFINE op == plan[1].op
<1>1. /\ op \in {"error", "judge"} /\ At(op)
      /\ Diagnose(1) \/ (op = "judge" /\ reports' = reports)
      /\ Continue(<<>>) /\ Stay /\ UNCHANGED <<corner, buffered>> /\ odd' = odd
  BY DEF Judge, At
<1>2. cur \in Token /\ cur.n > 0 /\ reports \in 0..MaxErrors
  BY <1>1, AtFront
<1>3. cur.n \in Nat
  BY <1>2 DEF Token
<1> HIDE DEF op
<1>4. reports' \in 0..MaxErrors /\ (reports' = 0 => reports = 0 /\ op = "judge")
  BY <1>1, <1>2, Reported
<1>5. /\ <<>> \in Seq(Steps) /\ Follows(<<>>, cur.n) /\ Seen(<<>>, cur, la) /\ ~(Len(<<>>) > 0)
  BY <1>2, <1>3, NoneNew
<1> QED BY <1>1, <1>4, <1>5, KeptStay

\* A step that only drops tokens is never in front before an error is reported.
LEMMA NoDrop ==
  ASSUME ParserInv, plan # <<>>, plan[1].op \in {"drop", "sync"}
  PROVE  reports # 0
<1>1. plan[1] \in Steps /\ 1 \in 1..Len(plan) /\ 1 - 1 = 0
  BY PlanIs DEF ParserInv
<1>2. plan[1] \in Drops
  BY <1>1 DEF Drops
<1>3. reports = 0 => \E j \in 1..(1 - 1) : plan[j] \in Errors
  BY <1>1, <1>2 DEF ParserInv, Whole, Behind
<1> QED BY <1>1, <1>3

\* A token taken was looked at and is no brace; one dropped is behind an error.
LEMMA KeptTakeToken ==
  ASSUME ParserInv, TakeToken
  PROVE  ParserInv'
<1> DEFINE op == plan[1].op
<1>1. /\ op \in {"take", "drop", "argument"} /\ At(op) /\ Advance
      /\ Continue(<<>>) /\ UNCHANGED <<corner, buffered, reports>> /\ odd' = odd
      /\ op = "take" => open' = open + Brace(cur.k) /\ silent' = silent
      /\ op = "drop" => open' = open
      /\ op = "argument" => open' = open /\ silent' = silent
  BY DEF TakeToken, Keep, Drop, Pass, At
<1>2. plan # <<>> /\ plan[1] \in Steps /\ cur \in Token /\ open \in Int
  BY <1>1, AtFront
<1>3. op = "take" => cur.k \notin Bad
  BY <1>1 DEF ParserInv, HeadKnown
<1>4. op = "drop" => reports # 0
  BY <1>2, NoDrop
<1>5. Weight(plan[1]) = 0
  BY <1>1 DEF Weight
<1>6. cur'.n \in Nat /\ cur'.n > 0
  BY <1>1, Taken
<1> HIDE DEF op
<1>7. open' \in Int /\ open' = open + Weight(plan[1])
  BY <1>1, <1>2, <1>3, <1>5, BraceIs
<1>8. op = "take" => cur.k # "eof"
  BY <1>3 DEF Bad
<1>9. reports = 0 => silent' = silent
  BY <1>1, <1>4
<1>10. /\ <<>> \in Seq(Steps) /\ Follows(<<>>, cur'.n) /\ Seen(<<>>, cur', la') /\ ~(Len(<<>>) > 0)
  BY <1>6, NoneNew
<1> QED BY <1>1, <1>7, <1>8, <1>9, <1>10, KeptTake

\* The first token of a name: a brace or the end there makes the name odd.
LEMMA KeptTakeName ==
  ASSUME ParserInv, TakeName
  PROVE  ParserInv'
<1> DEFINE op == plan[1].op
<1>1. /\ op \in {"name"} /\ At(op) /\ Advance /\ open' = open + Brace(cur.k) /\ silent' = silent
      /\ odd' = (odd \/ cur.k \notin NameWords \cup {"void", "import"} \cup StdType)
      /\ Continue(<<>>) /\ UNCHANGED <<corner, buffered, reports>>
  BY DEF TakeName, Keep, At
<1>2. cur \in Token /\ open \in Int
  BY <1>1, AtFront
<1>3. Weight(plan[1]) = 0
  BY <1>1 DEF Weight
<1> HIDE DEF op
<1>4. cur'.n \in Nat /\ cur'.n > 0
  BY <1>1, Taken
<1>5. ~odd' => ~odd /\ Brace(cur.k) = 0
  BY <1>1 DEF NameWords, Ident, Hint, StdType, Scalar, Generic, Composite, Brace
<1>6. open' \in Int /\ (~odd' => ~odd /\ open' = open + Weight(plan[1]))
  BY <1>1, <1>2, <1>3, <1>5, BraceIs
<1>7. /\ <<>> \in Seq(Steps) /\ Follows(<<>>, cur'.n) /\ Seen(<<>>, cur', la') /\ ~(Len(<<>>) > 0)
  BY <1>4, NoneNew
<1> QED BY <1>1, <1>6, <1>7, KeptTake

\* A function of the parser always finds an alternative: the last one has no test.
LEMMA AlternativeIs ==
  ASSUME NEW f \in Nonterminals
  PROVE  LET i == Alternative(f)
             alt == Grammar[f][i] IN
         /\ i \in DOMAIN Grammar[f] /\ Fits(alt)
         /\ alt.look /\ la # <<>> => la[1].k \in alt.next
<1> DEFINE g == Grammar[f]
           passed(i) == g[i].look /\ la # <<>> /\ la[1].k \notin g[i].next
           K == {i \in DOMAIN g : Fits(g[i]) /\ ~passed(i)}
<1>1. g \in Seq(Range(g)) /\ g # <<>> /\ Last(g).else /\ ~Last(g).look
  BY GrammarAssumption
<1> HIDE DEF g
<1>2. Len(g) \in Nat /\ DOMAIN g = 1..Len(g) /\ Len(g) >= 1 /\ Last(g) = g[Len(g)]
  BY <1>1, LenProperties, EmptySeq DEF Last
<1>3. Len(g) \in K
  <2>1. Len(g) \in DOMAIN g
    BY <1>2
  <2>2. g[Len(g)].else /\ ~g[Len(g)].look
    BY <1>1, <1>2
  <2> QED BY <2>1, <2>2 DEF Fits
<1>4. K \subseteq Nat
  BY <1>2
<1>5. PICK i \in K : \A j \in K : i <= j
  <2> HIDE DEF K
  <2> QED BY <1>3, <1>4, Least
<1>6. /\ i \in DOMAIN g /\ Fits(g[i])
      /\ g[i].look /\ la # <<>> => la[1].k \in g[i].next
      /\ \A j \in 1..(i - 1) : Fits(g[j]) => g[j].look /\ la # <<>> /\ la[1].k \notin g[j].next
  <2>1. ASSUME NEW j \in 1..(i - 1), Fits(g[j])
        PROVE  passed(j)
    <3>1. j \in DOMAIN g /\ ~(i <= j)
      BY <1>2
    <3> QED BY <1>5, <2>1, <3>1
  <2> QED BY <1>5, <2>1
<1> DEFINE Best(h) ==
  /\ Fits(g[h])
  /\ g[h].look /\ la # <<>> => la[1].k \in g[h].next
  /\ \A j \in 1..(h - 1) : Fits(g[j]) => g[j].look /\ la # <<>> /\ la[1].k \notin g[j].next
<1>7. Alternative(f) = CHOOSE h \in DOMAIN g : Best(h)
  BY DEF Alternative, g
<1>8. \E h \in DOMAIN g : Best(h)
  BY <1>6
<1>9. Alternative(f) \in DOMAIN g /\ Best(Alternative(f))
  <2> HIDE DEF Best
  <2> QED BY <1>7, <1>8, Zenon
<1> QED BY <1>9 DEF g

\* A call asks for the second token, or gives way to a body of the table.
LEMMA KeptCall ==
  ASSUME ParserInv, Call
  PROVE  ParserInv'
<1> DEFINE op == plan[1].op
           f == plan[1].arg
           i == Alternative(f)
           alt == Grammar[f][i]
           s == alt.body
<1>1. op \in {"call"} /\ At(op) /\ UNCHANGED <<corner, buffered, reports>> /\ odd' = odd
  BY DEF Call, At
<1>2. /\ plan # <<>> /\ plan \in Seq(Steps) /\ plan[1] \in Steps /\ buffered = <<>> /\ First = cur
      /\ cur \in Token /\ cur.n > 0 /\ reports \in 0..MaxErrors /\ open \in Int
  BY <1>1, AtFront
<1>3. f \in Nonterminals
  BY <1>1, <1>2 DEF Steps
<1>4. i \in DOMAIN Grammar[f] /\ Fits(alt) /\ (alt.look /\ la # <<>> => la[1].k \in alt.next)
  BY <1>3, AlternativeIs
<1>5. BodyFits(s) /\ HeadFits(alt)
      /\ (f \in Yielding => \E j \in DOMAIN s : s[j] \in Yields)
  BY <1>3, <1>4, GrammarAssumption
<1>6. IF alt.look /\ la = <<>> THEN PeekNext /\ UNCHANGED <<plan, silent, open>>
      ELSE Continue(s) /\ Stay
  BY DEF Call, arg
<1>7. cur.n \in Nat
  BY <1>2 DEF Token
<1> HIDE DEF op, f, i, alt
<1>8. CASE alt.look /\ la = <<>>
  <2>1. PeekNext /\ UNCHANGED <<plan, silent, open>>
    BY <1>6, <1>8
  <2>2. cur.k # "eof"
    BY <1>4, <1>5, <1>8 DEF HeadFits, Fits
  <2>3. TokensFit' /\ la' # <<>> /\ cur' = cur
    BY <1>1, <1>2, <2>1, <2>2, Peeks DEF ParserInv
  <2>4. First' = First /\ buffered' = <<>>
    BY <1>1, <1>2, <2>3 DEF First
  <2>5. HeadKnown'
    <3>1. plan' = plan /\ plan[1].op = "call"
      BY <1>1, <2>1 DEF op
    <3>2. Len(plan) >= 2 => plan[2].op # "take"
      <4>1. Len(plan) >= 2 => 2 \in 1..Len(plan)
        BY <1>2, LenProperties
      <4> QED BY <3>1, <4>1 DEF ParserInv, PlanFits, Placed
    <3> QED BY <2>4, <3>1, <3>2 DEF HeadKnown, At
  <2> QED BY <1>1, <1>2, <2>1, <2>3, <2>4, <2>5, KeptPlan
<1>9. CASE ~(alt.look /\ la = <<>>)
  <2>1. Continue(s) /\ Stay
    BY <1>6, <1>9
  <2>2. Follows(s, cur.n)
    BY <1>2, <1>5, <1>7, BodyFollows
  <2>3. s \in Seq(Steps) /\ Len(s) \in Nat /\ DOMAIN s = 1..Len(s)
    BY <2>2, LenProperties DEF Follows
  <2>4. /\ Len(s) >= 1 /\ s[1].op = "take" => cur.k \notin Bad
        /\ Len(s) >= 1 /\ s[1].op = "scan" => la # <<>>
        /\ Len(s) >= 1 /\ s[1].op = "split" => cur.k = ">>"
    BY <1>4, <1>5, <1>9 DEF HeadFits, Fits
  <2>5. Len(s) >= 2 /\ s[2].op = "take" =>
          IF s[1].op = "take" THEN la # <<>> /\ la[1].k \notin Bad ELSE cur.k \notin Bad
    <3>1. Len(s) >= 2 => Len(s) >= 1
      BY <2>3
    <3> QED BY <1>4, <1>5, <1>9, <3>1 DEF HeadFits, Fits
  <2>6. Seen(s, cur, la)
    BY <2>4, <2>5 DEF Seen
  <2>7. f \in Yielding => \E j \in 1..Len(s) : s[j] \in Yields
    BY <1>5, <2>3
  <2> HIDE DEF s
  <2>8. plan[1].arg \in Yielding => \E j \in 1..Len(s) : s[j] \in Yields
    BY <2>7 DEF f
  <2> QED BY <1>1, <1>2, <2>1, <2>2, <2>3, <2>6, <2>8, KeptStay
<1> QED BY <1>8, <1>9

\* A guarded call goes one level deeper, or reports.
LEMMA KeptGuard ==
  ASSUME ParserInv, Guard
  PROVE  ParserInv'
<1> DEFINE op == plan[1].op
           f == plan[1].arg
           a == N(f)
           b == Step("leave", "")
           s == <<a, b>>
<1>1. op \in {"guard"} /\ At(op) /\ UNCHANGED <<corner, buffered>> /\ odd' = odd /\ Stay
  BY DEF Guard, At
<1>2. /\ plan[1] \in Steps /\ cur \in Token /\ cur.n > 0 /\ reports \in 0..MaxErrors
  BY <1>1, AtFront
<1>3. f \in Nonterminals /\ f \in Args
  BY <1>1, <1>2 DEF Steps
<1>4. cur.n \in Nat
  BY <1>2 DEF Token
<1>5. \/ Continue(s) /\ reports' = reports
      \/ Continue(<<>>) /\ Diagnose(1)
  BY DEF Guard, arg
<1>6. /\ a \in Steps /\ a.op = "call" /\ a.arg = f
      /\ b \in Steps /\ b.op = "leave"
  BY <1>3 DEF N, Step, Since, Steps, Ops, Args
<1> HIDE DEF op, f, a, b
<1>7. CASE Continue(s) /\ reports' = reports
  <2>1. Follows(s, cur.n)
    BY <1>2, <1>4, <1>6, PairFollows DEF Calm
  <2>2. s \in Seq(Steps) /\ Len(s) = 2 /\ s[1] = a /\ s[2] = b
    BY <1>6, PairIs
  <2> HIDE DEF s
  <2>3. Seen(s, cur, la)
    BY <1>6, <2>2 DEF Seen
  <2>4. f \in Yielding => s[1] \in Yields /\ 1 \in 1..Len(s)
    BY <1>6, <2>2 DEF Yields
  <2>5. plan[1].arg \in Yielding => \E j \in 1..Len(s) : s[j] \in Yields
    BY <2>4 DEF f
  <2> QED BY <1>1, <1>2, <1>7, <2>1, <2>2, <2>3, <2>5, KeptStay
<1>8. CASE Continue(<<>>) /\ Diagnose(1)
  <2>1. reports' \in 0..MaxErrors /\ reports' # 0
    BY <1>2, <1>8, Reported
  <2>2. /\ <<>> \in Seq(Steps) /\ Follows(<<>>, cur.n) /\ Seen(<<>>, cur, la) /\ ~(Len(<<>>) > 0)
    BY <1>2, <1>4, NoneNew
  <2> QED BY <1>1, <1>8, <2>1, <2>2, KeptStay
<1> QED BY <1>5, <1>7, <1>8

\* And comes back.
LEMMA KeptLeave ==
  ASSUME ParserInv, Leave
  PROVE  ParserInv'
<1> DEFINE op == plan[1].op
<1>1. /\ op \in {"leave"} /\ At(op) /\ Continue(<<>>) /\ Stay
      /\ UNCHANGED <<corner, buffered>> /\ odd' = odd /\ reports' = reports
  BY DEF Leave, At
<1>2. cur \in Token /\ cur.n > 0 /\ reports \in 0..MaxErrors
  BY <1>1, AtFront
<1>3. cur.n \in Nat
  BY <1>2 DEF Token
<1> HIDE DEF op
<1>4. /\ <<>> \in Seq(Steps) /\ Follows(<<>>, cur.n) /\ Seen(<<>>, cur, la) /\ ~(Len(<<>>) > 0)
  BY <1>2, <1>3, NoneNew
<1> QED BY <1>1, <1>2, <1>4, KeptStay

\* The end of the file stops every loop.
LEMMA StopsAtEnd ==
  ASSUME NEW f
  PROVE  "eof" \in StopAt(f)
BY DEF StopAt

\* A loop ends, or begins a round where its last one did not begin.
LEMMA KeptRound ==
  ASSUME ParserInv, Round
  PROVE  ParserInv'
<1> DEFINE op == plan[1].op
           f == plan[1].arg
           a == N(f)
           b == Since("stall", "", cur.n)
           c == Since("loop", f, cur.n)
           w == While(f)
           s == <<a, b, c>>
           r == <<a, w>>
<1>1. op \in {"loop", "while"} /\ At(op) /\ UNCHANGED <<corner, buffered>> /\ odd' = odd /\ Stay
      /\ reports' = reports
  BY DEF Round, At
<1>2. /\ plan[1] \in Steps /\ cur \in Token /\ cur.n > 0 /\ reports \in 0..MaxErrors
  BY <1>1, AtFront
<1>3. f \in Nonterminals /\ f \in Args /\ (op = "loop" => f \in Yielding)
  <2>1. Yielding \subseteq Nonterminals
    BY GrammarAssumption
  <2> QED BY <1>1, <1>2, <2>1 DEF Steps
<1>4. cur.n \in Nat
  BY <1>2 DEF Token
<1>5. \/ RoundsEnd /\ Continue(<<>>)
      \/ op = "loop" /\ Continue(s)
      \/ op = "while" /\ Continue(r)
  BY DEF Round, arg, At
<1>6. /\ a \in Steps /\ a.op = "call" /\ a.arg = f
      /\ w \in Steps /\ w.op = "while"
      /\ b \in Steps /\ b.op = "stall" /\ b.n = cur.n
      /\ op = "loop" => c \in Steps /\ c.op = "loop" /\ c.n = cur.n
  BY <1>3, <1>4 DEF N, While, Step, Since, Steps, Ops, Args
<1>7. RoundsEnd /\ reports = 0 /\ Top(plan[1]) => cur.k = "eof"
  BY ParserAssumption DEF RoundsEnd, LimitReached, StopAt, Top, arg
<1> HIDE DEF op, f, a, b, c, w
<1>8. CASE RoundsEnd /\ Continue(<<>>)
  <2>1. /\ <<>> \in Seq(Steps) /\ Follows(<<>>, cur.n) /\ Seen(<<>>, cur, la) /\ ~(Len(<<>>) > 0)
    BY <1>2, <1>4, NoneNew
  <2> QED BY <1>1, <1>2, <1>7, <1>8, <2>1, KeptStay
<1>9. CASE op = "loop" /\ Continue(s)
  <2>1. a \in Yields
    BY <1>3, <1>6, <1>9 DEF Yields
  <2>2. Follows(s, cur.n)
    BY <1>4, <1>6, <1>9, <2>1, RoundFollows
  <2>3. s \in Seq(Steps) /\ Len(s) = 3 /\ s[1] = a /\ s[2] = b /\ s[3] = c
    BY <1>6, <1>9, TripleIs
  <2>4. s # <<>>
    OBVIOUS
  <2>5. Top(plan[1]) => Top(c)
    BY <1>6, <1>9 DEF Top, c, f, Since
  <2> HIDE DEF s
  <2>6. Seen(s, cur, la)
    BY <1>6, <2>3 DEF Seen
  <2>7. s # <<>> /\ (Top(plan[1]) => Top(s[Len(s)]))
    BY <2>3, <2>4, <2>5
  <2> QED BY <1>1, <1>2, <1>9, <2>2, <2>3, <2>6, <2>7, KeptStay
<1>10. CASE op = "while" /\ Continue(r)
  <2>1. Follows(r, cur.n)
    BY <1>2, <1>4, <1>6, PairFollows DEF Calm
  <2>2. r \in Seq(Steps) /\ Len(r) = 2 /\ r[1] = a /\ r[2] = w
    BY <1>6, PairIs
  <2> HIDE DEF r
  <2>3. Seen(r, cur, la)
    BY <1>6, <2>2 DEF Seen
  <2>4. ~Top(plan[1])
    BY <1>10 DEF Top, op
  <2> QED BY <1>1, <1>2, <1>10, <2>1, <2>2, <2>3, <2>4, KeptStay
<1> QED BY <1>5, <1>8, <1>9, <1>10

\* The stall check drops a token where the round moved nothing, after an error only.
LEMMA KeptStall ==
  ASSUME ParserInv, Stall
  PROVE  ParserInv'
<1> DEFINE op == plan[1].op
<1>1. /\ op \in {"stall"} /\ At(op) /\ Continue(<<>>)
      /\ UNCHANGED <<corner, buffered, reports>> /\ odd' = odd
      /\ IF cur.n = plan[1].n THEN Drop ELSE Stay
  BY DEF Stall, At
<1>2. /\ plan # <<>> /\ plan[1] \in Steps /\ cur \in Token /\ cur.n > 0 /\ First = cur
      /\ reports \in 0..MaxErrors /\ open \in Int
  BY <1>1, AtFront
<1>3. cur.n \in Nat /\ Weight(plan[1]) = 0 /\ ~Top(plan[1])
  BY <1>1, <1>2 DEF Token, Weight, Top
<1>4. CASE cur.n # plan[1].n
  <2>1. Stay
    BY <1>1, <1>4
  <2> HIDE DEF op
  <2>2. /\ <<>> \in Seq(Steps) /\ Follows(<<>>, cur.n) /\ Seen(<<>>, cur, la) /\ ~(Len(<<>>) > 0)
    BY <1>2, <1>3, NoneNew
  <2> QED BY <1>1, <1>2, <1>3, <1>4, <2>1, <2>2, KeptStay
<1>5. CASE cur.n = plan[1].n
  <2>1. Advance /\ open' = open /\ (reports # 0 => silent' = (silent \/ FALSE))
    BY <1>1, <1>5 DEF Drop
  <2>2. reports # 0
    <3>1. 1 \in 1..Len(plan) /\ 1 - 1 = 0
      BY <1>2, PlanIs DEF ParserInv
    <3>2. plan[1] \in StepsAt("stall", First.n)
      BY <1>1, <1>2, <1>5 DEF StepsAt
    <3>3. reports = 0 => \E j \in 1..(1 - 1) : plan[j] \in Yields
      BY <3>1, <3>2 DEF ParserInv, Whole, Behind
    <3> QED BY <3>1, <3>3
  <2>3. cur'.n \in Nat /\ cur'.n > 0
    BY <1>1, <2>1, Taken
  <2> HIDE DEF op
  <2>4. /\ <<>> \in Seq(Steps) /\ Follows(<<>>, cur'.n) /\ Seen(<<>>, cur', la') /\ ~(Len(<<>>) > 0)
    BY <2>3, NoneNew
  <2>5. open' \in Int /\ open' = open + Weight(plan[1])
    BY <1>2, <1>3, <2>1
  <2> QED BY <1>1, <1>2, <1>5, <2>1, <2>2, <2>4, <2>5, KeptTake
<1> QED BY <1>4, <1>5

\* synchronize() drops tokens, after an error only.
LEMMA KeptSynchronize ==
  ASSUME ParserInv, Synchronize
  PROVE  ParserInv'
<1> DEFINE op == plan[1].op
<1>1. /\ op \in {"sync"} /\ At(op) /\ UNCHANGED <<corner, buffered, reports>> /\ odd' = odd
      /\ \/ Continue(<<>>) /\ Stay
         \/ cur.k # "eof" /\ Drop /\ (Continue(<<>>) \/ plan' = plan)
  BY DEF Synchronize, At
<1>2. /\ plan # <<>> /\ plan \in Seq(Steps) /\ plan[1] \in Steps /\ cur \in Token /\ cur.n > 0
      /\ First = cur /\ buffered = <<>> /\ reports \in 0..MaxErrors /\ open \in Int
  BY <1>1, AtFront
<1>3. cur.n \in Nat /\ Weight(plan[1]) = 0 /\ ~Top(plan[1])
  BY <1>1, <1>2 DEF Token, Weight, Top
<1>4. reports # 0
  BY <1>1, <1>2, NoDrop
<1>5. CASE Continue(<<>>) /\ Stay
  <2> HIDE DEF op
  <2>1. /\ <<>> \in Seq(Steps) /\ Follows(<<>>, cur.n) /\ Seen(<<>>, cur, la) /\ ~(Len(<<>>) > 0)
    BY <1>2, <1>3, NoneNew
  <2> QED BY <1>1, <1>2, <1>3, <1>5, <2>1, KeptStay
<1>6. CASE cur.k # "eof" /\ Drop
  <2>1. Advance /\ open' = open
    BY <1>6 DEF Drop
  <2>2. /\ TokensFit' /\ buffered' = <<>> /\ First' = cur' /\ cur'.n > cur.n
        /\ cur'.n \in Nat /\ cur'.n > 0
    BY <1>1, <1>6, <2>1, Taken
  <2>3. open' \in Int /\ open' = open + Weight(plan[1])
    BY <1>2, <1>3, <2>1
  <2>4. CASE Continue(<<>>)
    <3> HIDE DEF op
    <3>1. /\ <<>> \in Seq(Steps) /\ Follows(<<>>, cur'.n) /\ Seen(<<>>, cur', la') /\ ~(Len(<<>>) > 0)
      BY <2>2, NoneNew
    <3> QED BY <1>1, <1>2, <1>4, <2>1, <2>3, <2>4, <3>1, KeptTake
  <2>5. CASE plan' = plan
    <3>1. Len(plan) >= 2 => plan[2].op # "take"
      <4>1. Len(plan) >= 2 => 2 \in 1..Len(plan)
        BY <1>2, LenProperties
      <4> QED BY <1>1, <4>1 DEF ParserInv, PlanFits, Placed
    <3>2. HeadKnown'
      BY <1>1, <2>2, <2>5, <3>1 DEF HeadKnown, At
    <3> QED BY <1>1, <1>2, <1>4, <2>2, <2>3, <2>5, <3>2, KeptPlan
  <2> QED BY <1>1, <1>6, <2>4, <2>5, <1>5
<1> QED BY <1>1, <1>5, <1>6

\* A skipped body begins behind a report, or is kept as raw text.
LEMMA KeptSkipBody ==
  ASSUME ParserInv, SkipBody
  PROVE  ParserInv'
<1> DEFINE op == plan[1].op
           d == plan[1].n + Brace(cur.k)
           a == Skip(d)
<1>1. /\ op \in {"skip"} /\ At(op) /\ UNCHANGED <<corner, buffered, reports>> /\ odd' = odd
      /\ \/ Continue(<<>>) /\ Stay
         \/ plan[1].n # 0 /\ Continue(<<a>>) /\ Advance /\ open' = open /\ silent' = silent
  BY DEF SkipBody, At, Pass
<1>2. /\ plan[1] \in Steps /\ cur \in Token /\ cur.n > 0 /\ reports \in 0..MaxErrors /\ open \in Int
  BY <1>1, AtFront
<1>3. cur.n \in Nat /\ Weight(plan[1]) = 0
  BY <1>1, <1>2 DEF Token, Weight
<1>4. plan[1].n # 0 => d \in Nat
  <2>1. plan[1].n \in Nat
    BY <1>2 DEF Steps
  <2>2. Brace(cur.k) \in {-1, 0, 1}
    BY DEF Brace
  <2> QED BY <2>1, <2>2
<1> HIDE DEF op, d
<1>5. plan[1].n # 0 => a \in Steps /\ a.op = "skip"
  BY <1>4 DEF Skip, Since, Steps, Ops, Args
<1> HIDE DEF a
<1>6. CASE Continue(<<>>) /\ Stay
  <2>1. /\ <<>> \in Seq(Steps) /\ Follows(<<>>, cur.n) /\ Seen(<<>>, cur, la) /\ ~(Len(<<>>) > 0)
    BY <1>2, <1>3, NoneNew
  <2> QED BY <1>1, <1>2, <1>6, <2>1, KeptStay
<1>7. CASE plan[1].n # 0 /\ Continue(<<a>>) /\ Advance /\ open' = open /\ silent' = silent
  <2>1. cur'.n \in Nat /\ cur'.n > 0
    BY <1>1, <1>7, Taken
  <2>2. <<a>> \in Seq(Steps) /\ Follows(<<a>>, cur'.n) /\ Seen(<<a>>, cur', la')
    BY <1>5, <1>7, <2>1, SingleNew DEF Calm
  <2>3. open' \in Int /\ open' = open + Weight(plan[1])
    BY <1>2, <1>3, <1>7
  <2> QED BY <1>1, <1>2, <1>7, <2>2, <2>3, KeptTake
<1> QED BY <1>1, <1>6, <1>7

\* The second half of ">>" takes its place: the parser has moved on by half a token.
LEMMA KeptSplit ==
  ASSUME ParserInv, Split
  PROVE  ParserInv'
<1> DEFINE op == plan[1].op
<1>1. /\ op \in {"split"} /\ At(op) /\ cur' = [k |-> ">", n |-> cur.n + 1] /\ Continue(<<>>)
      /\ UNCHANGED <<corner, la, pending, lexed, buffered, reports, silent, open, odd>>
  BY DEF Split, At
<1>2. /\ plan # <<>> /\ plan \in Seq(Steps) /\ plan[1] \in Steps /\ cur \in Token /\ cur.n > 0
      /\ First = cur /\ buffered = <<>> /\ reports \in 0..MaxErrors /\ open \in Int
  BY <1>1, AtFront
<1>3. cur.k = ">>"
  BY <1>1 DEF ParserInv, HeadKnown
<1>4. TokensFit'
  BY <1>1, <1>2, <1>3, Splits DEF ParserInv
<1>5. cur.n \in Nat /\ Weight(plan[1]) = 0 /\ ~Top(plan[1])
  BY <1>1, <1>2 DEF Token, Weight, Top
<1>6. cur'.n = cur.n + 1 /\ First' = cur' /\ buffered' = <<>>
  BY <1>1, <1>2 DEF First
<1> DEFINE m == cur'.n
<1>7. First'.n > First.n /\ m \in Nat /\ m > 0
  BY <1>2, <1>5, <1>6
<1> HIDE DEF op, m
<1>8. /\ <<>> \in Seq(Steps) /\ Follows(<<>>, m) /\ Seen(<<>>, cur', la') /\ ~(Len(<<>>) > 0)
  BY <1>7, NoneNew
<1>9. Follows(<<>>, First'.n)
  BY <1>6, <1>8 DEF m
<1>10. Replaces(plan', <<>>, plan)
  BY <1>1, <1>2, <1>8, ContinueIs
<1>11. plan[1].op \notin {"judge", "error", "take"}
  BY <1>1 DEF op
<1>12. open' \in Int /\ open' = open + Weight(plan[1])
  BY <1>1, <1>2, <1>5
<1> QED BY <1>1, <1>2, <1>4, <1>5, <1>6, <1>7, <1>8, <1>9, <1>10, <1>11, <1>12, Kept

\* The pipeline test looks past one token more.
LEMMA KeptScanning ==
  ASSUME ParserInv, Scanning
  PROVE  ParserInv'
<1>1. /\ plan # <<>> /\ plan[1].op = "scan" /\ InName /\ buffered' = Append(buffered, cur) /\ Advance
      /\ corner' = corner /\ plan' = plan /\ reports' = reports /\ UNCHANGED <<silent, open, odd>>
  BY DEF Scanning, At
<1>2. la # <<>> \/ cur.k # "eof"
  <2>1. CASE buffered = <<>>
    BY <1>1, <2>1 DEF ParserInv, HeadKnown, At
  <2>2. CASE buffered # <<>>
    BY <1>1, <2>2 DEF InName, Ident, Hint
  <2> QED BY <2>1, <2>2
<1>3. TokensFit' /\ First' = First /\ la' = <<>> /\ buffered' # <<>>
  BY <1>1, <1>2, LooksPast DEF ParserInv
<1>4. HeadKnown'
  <2>1. Len(plan) >= 2 => plan[2].op # "take"
    <3>1. Len(plan) >= 2 => 2 \in 1..Len(plan)
      BY LenProperties DEF ParserInv, PlanFits
    <3> QED BY <1>1, <3>1 DEF ParserInv, PlanFits, Placed
  <2> QED BY <1>1, <1>3, <2>1 DEF HeadKnown, At
<1>5. open' \in Int
  BY <1>1 DEF ParserInv, Level
<1> QED BY <1>1, <1>3, <1>4, <1>5, KeptPlan

\* And gives all of them back: the first token is where it was.
LEMMA KeptRestore ==
  ASSUME ParserInv, Restore
  PROVE  ParserInv'
<1> DEFINE op == plan[1].op
           a == IF cur.k = "->" THEN While("Edge") ELSE Loop("Operation")
           s == <<a>>
<1>1. /\ plan # <<>> /\ op = "scan" /\ ~InName /\ cur' = buffered[1] /\ la' = <<>> /\ buffered' = <<>>
      /\ pending' = pending \o <<cur>> \o Reverse(Tail(buffered)) /\ Continue(s)
      /\ UNCHANGED <<corner, lexed, reports, silent, open, odd>>
  BY DEF Restore, At
<1>2. buffered # <<>>
  <2>1. buffered = <<>> => Len(buffered) % 2 = 0
    BY NoSteps
  <2> QED BY <1>1, <2>1 DEF InName
<1>3. la = <<>>
  BY <1>2 DEF ParserInv, HeadKnown
<1>4. TokensFit' /\ First' = First
  BY <1>1, <1>2, <1>3, GivesBack DEF ParserInv
<1>5. First'.n \in Nat /\ First'.n > 0 /\ First \in Token /\ open \in Int /\ reports \in 0..MaxErrors
      /\ plan \in Seq(Steps) /\ plan[1] \in Steps
  BY <1>1, <1>4, RowFirst, PlanIs DEF ParserInv, MovesOn, Token, Level, PlanFits
<1>6. a \in Steps /\ a.op \in {"while", "loop"} /\ a.n = 0
  <2>1. "Edge" \in Nonterminals /\ "Operation" \in Yielding
    BY GrammarAssumption DEF Yielding
  <2> QED BY <2>1 DEF While, Loop, Step, Since, Steps, Ops, Args
<1>7. Weight(plan[1]) = 0 /\ ~Top(plan[1]) /\ plan[1] \notin Yields
  BY <1>1, <1>5 DEF Weight, Top, Yields
<1>8. plan[1].op \notin {"judge", "error", "take", "stall"}
  BY <1>1
<1> HIDE DEF op, a
<1>9. s \in Seq(Steps) /\ Follows(s, First'.n) /\ Seen(s, cur', la')
  BY <1>5, <1>6, SingleNew DEF Calm
<1> HIDE DEF s
<1>10. Replaces(plan', s, plan)
  BY <1>1, <1>5, <1>9, ContinueIs
<1>11. open' \in Int /\ open' = open + Weight(plan[1])
  BY <1>1, <1>5, <1>7
<1>12. reports' \in 0..MaxErrors
  BY <1>1, <1>5
<1>13. reports' = 0 => reports = 0 /\ silent' = silent /\ plan[1].op # "error"
  BY <1>1, <1>8
<1> QED BY <1>1, <1>4, <1>7, <1>8, <1>9, <1>10, <1>11, <1>12, <1>13, Kept

\* The parser starts at the first token with the loop over the file.
LEMMA ParserStarts ==
  ASSUME ParserInit
  PROVE  ParserInv
<1> DEFINE c == corner
<1>1. /\ corner \in Corners /\ plan = <<Loop("TopLevel")>> /\ lexed = 1 /\ open = 0
      /\ la = <<>> /\ pending = <<>> /\ buffered = <<>> /\ reports = 0 /\ silent = FALSE /\ odd = FALSE
  BY DEF ParserInit
<1>2. PICK k \in IF corner.prefix = <<>> THEN corner.kinds ELSE {corner.prefix[1]} :
        cur = [k |-> k, n |-> 2]
  BY DEF ParserInit, Tok
<1>3. corner.prefix \in Seq(STRING) /\ corner.kinds \subseteq STRING
      /\ "eof" \notin corner.kinds \cup Range(corner.prefix)
  BY <1>1, ParserAssumption
<1>4. k \in Kind /\ k # "eof"
  <2>1. CASE corner.prefix = <<>>
    BY <1>2, <1>3, <2>1 DEF Kind
  <2>2. CASE corner.prefix # <<>>
    <3>1. k = corner.prefix[1] /\ 1 \in 1..Len(corner.prefix) /\ DOMAIN corner.prefix = 1..Len(corner.prefix)
      BY <1>2, <1>3, <2>2, LenProperties, EmptySeq
    <3>2. corner.prefix[1] \in STRING /\ corner.prefix[1] \in Range(corner.prefix)
      BY <1>3, <3>1, ElementOfSeq DEF Range
    <3> QED BY <1>3, <3>1, <3>2 DEF Kind
  <2> QED BY <2>1, <2>2
<1>5. cur \in Token /\ cur.k = k /\ cur.n = 2
  BY <1>2, <1>4 DEF Token
<1>6. TokensFit
  <2>1. Delivered(cur, 0, 1)
    BY <1>4, <1>5 DEF Delivered
  <2>2. Row(<<cur>>, 1)
    BY <2>1, RowOne
  <2>3. Ahead = <<cur>>
    <3>1. None \in Seq(Token) /\ Len(None) = 0
      BY DEF None
    <3>2. Reverse(None) = None
      <4>1. Reverse(None) \in Seq(Token) /\ Len(Reverse(None)) = 0
        BY <3>1, ReverseIs
      <4> QED BY <4>1, EmptySeq DEF None
    <3>3. AheadOf(None, cur, None, None) = Cat(None, Cat(Sole(cur), Cat(None, None)))
      BY <1>5, <3>1, <3>2, Form
    <3>4. Sole(cur) \in Seq(Token)
      BY <1>5 DEF Sole
    <3>5. AheadOf(None, cur, None, None) = Sole(cur)
      BY <3>1, <3>3, <3>4, CatNone
    <3> QED BY <1>1, <3>5 DEF Ahead, AheadOf, None, Sole
  <2>4. <<>> \in Seq(Token) /\ AtMostOne(<<>>)
    BY OneOrNone
  <2> QED BY <1>1, <1>5, <2>2, <2>3, <2>4 DEF TokensFit
<1> DEFINE a == Loop("TopLevel")
<1>7. a \in Steps /\ a.op = "loop" /\ a.arg = "TopLevel" /\ a.n = 0
  BY DEF Loop, Step, Since, Steps, Ops, Args, Yielding
<1>8. plan = <<a>>
  BY <1>1
<1> HIDE DEF a
<1>9. plan \in Seq(Steps) /\ Len(plan) = 1 /\ plan[1] = a /\ plan # <<>>
  BY <1>7, <1>8, SingleIs
<1>10. First = cur /\ First.n = 2
  BY <1>1, <1>5 DEF First
<1>11. \A i \in 1..Len(plan) : plan[i] = a
  BY <1>9
<1>12. Follows(plan, 2)
  BY <1>7, <1>8, SingleFollows DEF Calm
<1>13. PlanFits
  BY <1>1, <1>7, <1>9, <1>12, ParserAssumption DEF PlanFits, Follows, Top
<1>14. HeadKnown
  BY <1>1, <1>7, <1>9 DEF HeadKnown, At
<1>15. MovesOn
  BY <1>7, <1>10, <1>11, <1>12 DEF MovesOn, Follows
<1>16. Whole
  BY <1>1, <1>9, <1>10, <1>12 DEF Whole, Follows
<1>17. Level
  BY <1>1, <1>12 DEF Level, Follows
<1> QED BY <1>6, <1>13, <1>14, <1>15, <1>16, <1>17 DEF ParserInv

\* Every step of the parser keeps what holds, one lemma per action.
LEMMA ParserKeeps ==
  ASSUME ParserInv, [ParserNext]_parserVars
  PROVE  ParserInv'
<1>1. CASE UNCHANGED parserVars
  BY <1>1 DEF parserVars, tokens, ParserInv, TokensFit, PlanFits, HeadKnown, MovesOn, Whole, Level,
              Ahead, First, Row, Placed, Behind, StepsAt, Balanced, Levels, At
<1>2. CASE ParserNext
  BY <1>2, KeptAccept, KeptRefuse, KeptValue, KeptJudge, KeptTakeToken, KeptTakeName, KeptCall,
     KeptGuard, KeptLeave, KeptRound, KeptStall, KeptSynchronize, KeptSkipBody, KeptSplit,
     KeptScanning, KeptRestore DEF ParserNext
<1> QED BY <1>1, <1>2

\* The parser keeps its tokens in a row and its plan in order, for corners of any kind and
\* any length, any error limit and any limit of the recursion (Parser.cpp:88-150, 345-393,
\* 866-892).
THEOREM ParserInvariant == ParserSpec => []ParserInv
<1>1. ParserInit => ParserInv
  BY ParserStarts
<1>2. ParserInv /\ [ParserNext]_parserVars => ParserInv'
  BY ParserKeeps
<1> QED BY <1>1, <1>2, PTL DEF ParserSpec

-----------------------------------------------------------------------------
\* No token is lost, repeated or reordered by looking ahead, splitting ">>" or pushing back
\* what the pipeline test looked past (Parser.cpp:88-113, 866-892).
THEOREM TokensStayInOrder == ParserSpec => []TokensInOrder
<1>1. ParserInv => TokensInOrder
  <2> SUFFICES ASSUME ParserInv PROVE TokensInOrder
    OBVIOUS
  <2>1. Row(Ahead, lexed)
    BY DEF ParserInv, TokensFit
  <2>2. Last(Ahead).n \in {2 * lexed, 2 * lexed + 1, NextPlace}
    BY <2>1 DEF Row, Last, NextPlace
  <2> QED BY <2>1, <2>2 DEF Row, TokensInOrder
<1> QED BY <1>1, ParserInvariant, PTL

\* What is accepted without a report was read to the end, nothing was dropped on the way and
\* every brace was closed, unless one was taken for a name (Parser.cpp:115-150, 345-393).
THEOREM AcceptedIsAlwaysWhole == ParserSpec => []AcceptedIsWhole
<1>1. ParserInv => AcceptedIsWhole
  <2> SUFFICES ASSUME ParserInv, plan = <<>>, reports = 0
               PROVE  cur.k = "eof" /\ ~silent /\ (odd \/ open = 0)
    BY DEF AcceptedIsWhole, Parsed
  <2>1. cur.k = "eof" /\ ~silent
    BY DEF ParserInv, Whole
  <2>2. ASSUME ~odd PROVE open = 0
    <3>1. Balanced(plan, open)
      BY <2>2 DEF ParserInv, Level
    <3>2. PICK h \in [0..Len(plan) -> Int] : Levels(plan, open, h)
      BY <3>1 DEF Balanced
    <3>3. Len(plan) = 0
      BY NoSteps
    <3> QED BY <3>2, <3>3 DEF Levels
  <2> QED BY <2>1, <2>2
<1> QED BY <1>1, ParserInvariant, PTL

\* No loop with stall detection begins a round where its last one began, whatever the table
\* repeats consumes (Parser.cpp:374-393).
THEOREM RoundsAlwaysMoveOn == ParserSpec => []RoundsMoveOn
<1>1. ParserInv => RoundsMoveOn
  <2> SUFFICES ASSUME ParserInv, At("loop"), ~RoundsEnd, plan[1].n = cur.n
               PROVE  FALSE
    BY DEF RoundsMoveOn
  <2> DEFINE op == plan[1].op
  <2>1. op \in {"loop"} /\ At(op)
    BY DEF At
  <2>2. plan # <<>> /\ plan \in Seq(Steps) /\ plan[1] \in Steps /\ First = cur
    BY <2>1, AtFront
  <2>3. cur.k # "eof"
    BY StopsAtEnd DEF RoundsEnd
  <2>4. 1 \in 1..Len(plan) /\ 1 - 1 = 0
    BY <2>2, PlanIs DEF ParserInv
  <2>5. plan[1] \in StepsAt("loop", First.n)
    BY <2>1, <2>2 DEF StepsAt
  <2>6. \E j \in 1..(1 - 1) : plan[j] \in StepsAt("stall", First.n)
    BY <2>2, <2>3, <2>4, <2>5 DEF ParserInv, MovesOn, Behind
  <2> QED BY <2>4, <2>6
<1> QED BY <1>1, ParserInvariant, PTL

\* All three: the parser takes the tokens as they come, keeps what it accepts as a whole and
\* does not stay at one place (Parser.cpp:88-150, 345-393, 866-892).
THEOREM ParserIsAlwaysSound == ParserSpec => []ParserIsSound
BY TokensStayInOrder, AcceptedIsAlwaysWhole, RoundsAlwaysMoveOn, PTL DEF ParserIsSound
=============================================================================
