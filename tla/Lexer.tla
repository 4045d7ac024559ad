------------------------------- MODULE Lexer -------------------------------
(***************************************************************************)
(* The lexer (lib/Lexer/Lexer.cpp): it cuts a text into tokens, skipping   *)
(* white space and comments and reporting what is neither.  A character    *)
(* is its class: "a" a letter or _, "0" a digit, "n" a newline, "s" other  *)
(* white space, "?" one no token begins with; of the operators some of     *)
(* each shape are kept.  Keywords, and the words the lenient mode maps to  *)
(* them, are identifiers here: which word is which keyword is data.        *)
(***************************************************************************)
EXTENDS Naturals, Sequences, FiniteSets

CONSTANT MaxText      \* bound: characters of a text

VARIABLES
  text,     \* source_
  lpos,     \* pos_
  lexemes,  \* the tokens so far: [kind, from, to], both ends included
  trivia,   \* positions skipped as white space or comment (history)
  wrong     \* positions of reported text (history)

lexerVars == <<text, lpos, lexemes, trivia, wrong>>

Letters == {"a"}
Digits == {"0"}
Blank == {"s", "n"}
Chars == Letters \cup Digits \cup Blank \cup {"\"", "/", "*", ".", "-", "<", "=", ">", "?"}
\* Operators of two characters, and of one.
Pairs == {<<"-", ">">>, <<"=", "=">>, <<"=", ">">>, <<"<", "<">>, <<"<", "=">>,
          <<">", ">">>, <<">", "=">>}
Singles == {"/", "*", ".", "-", "<", "=", ">"}

LexerInit ==
  /\ text \in UNION {[1..n -> Chars] : n \in 1..MaxText}
  /\ lpos = 1 /\ lexemes = <<>> /\ trivia = {} /\ wrong = {}

AtEnd(i) == i > Len(text)
Char(i) == IF AtEnd(i) THEN "end" ELSE text[i]
\* The first position from i on whose character is not in the set.
RunEnd(i, set) ==
  CHOOSE j \in i..(Len(text) + 1) :
    Char(j) \notin set /\ \A k \in i..(j - 1) : Char(k) \in set

Emit(kind, to) ==
  /\ lexemes' = Append(lexemes, [kind |-> kind, from |-> lpos, to |-> to])
  /\ lpos' = to + 1
  /\ UNCHANGED <<text, trivia>>
\* Reports the text from the current position up to the one before next; the
\* parser gets an error token for it.
Reject(next) ==
  /\ wrong' = wrong \cup lpos..(next - 1)
  /\ Emit("error", next - 1)
Ignore(next) ==
  /\ trivia' = trivia \cup lpos..(next - 1)
  /\ lpos' = next
  /\ UNCHANGED <<text, lexemes, wrong>>

LineComment == Char(lpos) = "/" /\ Char(lpos + 1) = "/"
BlockComment == Char(lpos) = "/" /\ Char(lpos + 1) = "*"

SkipWhitespace ==
  \/ Char(lpos) \in Blank /\ Ignore(lpos + 1)
  \/ LineComment /\ Ignore(RunEnd(lpos + 2, Chars \ {"n"}))

\* A block comment ends at the first "*/" behind its opening; one that does not
\* end is reported, and no token stands for it.
SkipBlockComment ==
  /\ BlockComment
  /\ LET ends == {i \in (lpos + 2)..Len(text) : Char(i) = "*" /\ Char(i + 1) = "/"} IN
     IF ends = {}
     THEN wrong' = wrong \cup lpos..Len(text) /\ lpos' = Len(text) + 1
          /\ UNCHANGED <<text, lexemes, trivia>>
     ELSE Ignore((CHOOSE i \in ends : \A j \in ends : i <= j) + 2)

ScanIdentifier ==
  /\ Char(lpos) \in Letters
  /\ Emit("id", RunEnd(lpos, Letters \cup Digits) - 1) /\ UNCHANGED wrong

ScanInteger ==
  /\ Char(lpos) \in Digits
  /\ Emit("int", RunEnd(lpos, Digits) - 1) /\ UNCHANGED wrong

\* A string ends on its line; otherwise what was read of it is reported, and
\* scanning goes on at the end of the line.
ScanString ==
  /\ Char(lpos) = "\""
  /\ LET stop == RunEnd(lpos + 1, Chars \ {"\"", "n"}) IN
     IF Char(stop) = "\"" THEN Emit("str", stop) /\ UNCHANGED wrong ELSE Reject(stop)

\* Mutant: two dots are taken before the third is seen.
MutScanOperator ==
  /\ ~LineComment /\ ~BlockComment
  /\ LET two == <<Char(lpos), Char(lpos + 1)>> IN
     \/ two \in Pairs \cup {<<".", ".">>} /\ Emit("op", lpos + 1)
     \/ two \notin Pairs \cup {<<".", ".">>} /\ Char(lpos) \in Singles /\ Emit("op", lpos)
  /\ UNCHANGED wrong

\* "Multi-character operators (longest match first)": pairs, then "..." or
\* "..", then single characters.
ScanOperator ==
  /\ ~LineComment /\ ~BlockComment
  /\ LET two == <<Char(lpos), Char(lpos + 1)>> IN
     \/ two \in Pairs /\ Emit("op", lpos + 1)
     \/ two = <<".", ".">> /\ Emit("op", IF Char(lpos + 2) = "." THEN lpos + 2 ELSE lpos + 1)
     \/ two \notin Pairs \cup {<<".", ".">>} /\ Char(lpos) \in Singles /\ Emit("op", lpos)
  /\ UNCHANGED wrong

Unexpected == Char(lpos) = "?" /\ Reject(lpos + 1)

LexerNext ==
  /\ ~AtEnd(lpos)
  /\ \/ SkipWhitespace \/ SkipBlockComment \/ ScanIdentifier \/ ScanInteger
     \/ ScanString \/ ScanOperator \/ Unexpected

LexerSpec == LexerInit /\ [][LexerNext]_lexerVars
Scanned == AtEnd(lpos)

-----------------------------------------------------------------------------
Span(x) == x.from..x.to
Operator(s) == s \in Pairs \/ s \in {<<".", ".">>, <<".", ".", ".">>, <<"/", "/">>, <<"/", "*">>}

\* Every character of a text is in one token, or was skipped as white space or
\* comment, or was reported; and each token is as long as it can be: no word,
\* number or operator goes on behind its end (Lexer.cpp:292, "longest match
\* first").
TextIsTiled ==
  Scanned =>
    LET tokens == {Span(lexemes[i]) : i \in {j \in DOMAIN lexemes : lexemes[j].kind # "error"}} IN
    /\ \A p \in DOMAIN text :
         Cardinality({s \in tokens \cup {trivia, wrong} : p \in s}) = 1
    /\ \A i \in DOMAIN lexemes :
         LET x == lexemes[i] IN
         CASE x.kind = "id" -> Char(x.to + 1) \notin Letters \cup Digits
           [] x.kind = "int" -> Char(x.to + 1) \notin Digits
           [] x.kind = "str" -> "n" \notin {text[p] : p \in Span(x)}
           [] x.kind = "op" ->
                ~Operator(Append(SubSeq(text, x.from, x.to), Char(x.to + 1)))
           [] OTHER -> Span(x) \subseteq wrong
=============================================================================
