------------------------------- MODULE Parser -------------------------------
(***************************************************************************)
(* The parser at work (lib/Parser/Parser.cpp): how its functions consume   *)
(* the tokens of any input, also of one that is wrong, report what they do *)
(* not expect, and resynchronize.  Module ParserGrammar says what each     *)
(* function expects; plan is what is left to do, the calls of the stack    *)
(* unfolded.  The lexer is asked for a token when the parser needs one and *)
(* may answer with any: the inputs are all sequences over the kinds of a   *)
(* corner of the language, behind a prefix that leads there.               *)
(***************************************************************************)
EXTENDS ParserGrammar

CONSTANTS
  Corners,      \* the corners of the language, each [prefix, kinds]
  MaxTokens,    \* bound: tokens behind the prefix
  MaxErrors,    \* DiagnosticEngine::kMaxErrors
  MaxDepth      \* Parser::kMaxRecursionDepth

ASSUME ParserAssumption ==
  /\ \A c \in Corners : /\ c.prefix \in Seq(STRING) /\ c.kinds \subseteq STRING
                         /\ "eof" \notin c.kinds \cup Range(c.prefix)
  /\ MaxTokens \in Nat /\ MaxErrors \in Nat \ {0} /\ MaxDepth \in Nat

VARIABLES
  corner,       \* the inputs: [prefix, kinds]
  plan,         \* the steps left to do
  cur,          \* current_: [k, n], a kind and a place
  la,           \* lookahead_: at most one token
  pending,      \* pendingTokens_, the next one last
  buffered,     \* the tokens of the name the pipeline test looks past
  lexed,        \* tokens the lexer has delivered
  reports,      \* errors reported, up to MaxErrors
  silent,       \* a token was dropped before any error was reported (history)
  open,         \* braces that are open, of the tokens the parser kept (history)
  odd           \* a name began with a token that is no name (history)

tokens == <<cur, la, pending, lexed>>
parserVars == <<corner, plan, tokens, buffered, reports, silent, open, odd>>

(* -------------------------------- inputs -------------------------------- *)
Corner(prefix, kinds) == [prefix |-> prefix, kinds |-> kinds]

(* --------------------------- token management --------------------------- *)
Tok(k, n) == [k |-> k, n |-> n]
\* Places are even; the second half of a split ">>" lies between two.
NextPlace == 2 * (lexed + 1)

\* What the lexer may deliver: the prefix, then any kind, a few closing braces
\* behind them, and the end for good.
Closers == 2
Chosen == lexed - Len(corner.prefix)
Lexed ==
  {Tok(k, NextPlace) : k \in
     IF cur.k = "eof" \/ Chosen = MaxTokens + Closers THEN {"eof"}
     ELSE IF Chosen < 0 THEN {corner.prefix[lexed + 1]}
     ELSE {"}", "eof"} \cup (IF Chosen < MaxTokens THEN corner.kinds ELSE {})}
Count(tok) == lexed' = IF tok.k = "eof" THEN lexed ELSE lexed + 1

\* Parser::advance(): the lookahead, else a token pushed back, else a new one.
Advance ==
  IF la # <<>> THEN cur' = la[1] /\ la' = <<>> /\ UNCHANGED <<pending, lexed>>
  ELSE IF pending # <<>>
  THEN cur' = Last(pending) /\ pending' = Front(pending) /\ UNCHANGED <<la, lexed>>
  ELSE \E tok \in Lexed : cur' = tok /\ Count(tok) /\ UNCHANGED <<la, pending>>

\* Parser::peekNext().
PeekNext ==
  /\ la = <<>>
  /\ IF pending # <<>>
     THEN la' = <<Last(pending)>> /\ pending' = Front(pending) /\ UNCHANGED lexed
     ELSE \E tok \in Lexed : la' = <<tok>> /\ Count(tok) /\ UNCHANGED pending
  /\ UNCHANGED cur

(* ------------------------------- the machine ---------------------------- *)
LowerOf(a, b) == IF a < b THEN a ELSE b
Diagnose(times) == reports' = LowerOf(reports + times, MaxErrors)
LimitReached == reports = MaxErrors

ParserInit ==
  /\ corner \in Corners
  /\ cur \in {Tok(k, 2) : k \in IF corner.prefix = <<>> THEN corner.kinds
                                 ELSE {corner.prefix[1]}}
  /\ plan = <<Loop("TopLevel")>>
  /\ la = <<>> /\ pending = <<>> /\ buffered = <<>> /\ lexed = 1
  /\ reports = 0 /\ silent = FALSE /\ open = 0 /\ odd = FALSE

At(op) == plan # <<>> /\ plan[1].op = op
arg == plan[1].arg
Continue(steps) == plan' = steps \o Tail(plan)
Keep == Advance /\ open' = open + Brace(cur.k) /\ UNCHANGED silent
Drop == Advance /\ silent' = (silent \/ reports = 0) /\ UNCHANGED open
Pass == Advance /\ UNCHANGED <<silent, open>>
Stay == UNCHANGED <<tokens, silent, open>>

\* check(kind) holds: expect() and match() consume the token.
Accept ==
  /\ At("expect") \/ At("match")
  /\ cur.k \in Class(arg)
  /\ Keep /\ Continue(<<>>)
  /\ UNCHANGED <<corner, buffered, reports, odd>>

\* Otherwise expect() reports and consumes nothing, match() passes.
Refuse ==
  /\ At("expect") \/ At("match")
  /\ cur.k \notin Class(arg)
  /\ IF At("expect") THEN Diagnose(1) ELSE UNCHANGED reports
  /\ Continue(<<>>) /\ Stay
  /\ UNCHANGED <<corner, buffered, odd>>

\* expect(), and a second report when the text does not convert: a number out
\* of range, an unknown level; without the token it never does.
Value ==
  /\ At("value")
  /\ IF cur.k \in Class(arg) THEN Keep /\ Continue(<<J>>) /\ UNCHANGED reports
     ELSE Stay /\ Continue(<<>>) /\ Diagnose(2)
  /\ UNCHANGED <<corner, buffered, odd>>

Judge ==
  /\ At("error") \/ At("judge")
  /\ Diagnose(1) \/ (At("judge") /\ UNCHANGED reports)
  /\ Continue(<<>>) /\ Stay
  /\ UNCHANGED <<corner, buffered, odd>>

TakeToken ==
  /\ \/ At("take") /\ Keep
     \/ At("drop") /\ Drop
     \/ At("argument") /\ Pass
  /\ Continue(<<>>)
  /\ UNCHANGED <<corner, buffered, reports, odd>>

\* parseQualifiedName() takes its first token untested; most callers have looked
\* at it, and take it themselves.
TakeName ==
  /\ At("name")
  /\ Keep /\ odd' = (odd \/ cur.k \notin NameWords \cup {"void", "import"} \cup StdType)
  /\ Continue(<<>>)
  /\ UNCHANGED <<corner, buffered, reports>>

\* The first alternative whose lookahead fits; the second token is asked for
\* only when the first one fits.
Fits(alt) == alt.else \/ cur.k \in alt.on
Alternative(f) == CHOOSE i \in DOMAIN Grammar[f] :
  /\ Fits(Grammar[f][i])
  /\ Grammar[f][i].look /\ la # <<>> => la[1].k \in Grammar[f][i].next
  /\ \A j \in 1..(i - 1) :
       Fits(Grammar[f][j]) => Grammar[f][j].look /\ la # <<>> /\ la[1].k \notin Grammar[f][j].next

Call ==
  /\ At("call")
  /\ LET alt == Grammar[arg][Alternative(arg)] IN
       IF alt.look /\ la = <<>>
       THEN PeekNext /\ UNCHANGED <<plan, silent, open>>
       ELSE Continue(alt.body) /\ Stay
  /\ UNCHANGED <<corner, buffered, reports, odd>>

\* RecursionGuard: beyond the limit the function reports and returns at once.
Depth == Cardinality({i \in DOMAIN plan : plan[i].op = "leave"})
Guard ==
  /\ At("guard")
  /\ IF Depth < MaxDepth THEN Continue(<<N(arg), Step("leave", "")>>) /\ UNCHANGED reports
     ELSE Continue(<<>>) /\ Diagnose(1)
  /\ Stay
  /\ UNCHANGED <<corner, buffered, odd>>
Leave ==
  /\ At("leave")
  /\ Continue(<<>>) /\ Stay
  /\ UNCHANGED <<corner, buffered, reports, odd>>

\* A loop begins a round, or ends at its stop set or at the error limit; only
\* the one over the arguments of a call ignores the limit.  Its step remembers
\* the place where its last round began (history).
RoundsEnd == cur.k \in StopAt(arg) \/ (LimitReached /\ arg # "Argument")
Round ==
  /\ \/ (At("loop") \/ At("while")) /\ RoundsEnd /\ Continue(<<>>)
     \/ At("loop") /\ ~RoundsEnd /\ Continue(<<N(arg), Since("stall", "", cur.n), Since("loop", arg, cur.n)>>)
     \/ At("while") /\ ~RoundsEnd /\ Continue(<<N(arg), While(arg)>>)
  /\ Stay
  /\ UNCHANGED <<corner, buffered, reports, odd>>

\* Stall detection: a round that consumed nothing drops a token.
Stall ==
  /\ At("stall")
  /\ IF cur.n = plan[1].n THEN Drop ELSE Stay
  /\ Continue(<<>>)
  /\ UNCHANGED <<corner, buffered, reports, odd>>

\* synchronize(): behind the next ";", or before a token that begins or ends
\* something.  Its forced step is dead code: both returns come before it.
Synchronize ==
  /\ At("sync")
  /\ IF cur.k = "eof" \/ cur.k \in Anchors
     THEN Continue(<<>>) /\ Stay
     ELSE Drop /\ IF cur.k = ";" THEN Continue(<<>>) ELSE UNCHANGED plan
  /\ UNCHANGED <<corner, buffered, reports, odd>>

\* A prohibited body, or one kept as raw text, is passed over to its brace.
SkipBody ==
  /\ At("skip")
  /\ IF plan[1].n = 0 \/ cur.k = "eof" THEN Continue(<<>>) /\ Stay
     ELSE Pass /\ Continue(<<Skip(plan[1].n + Brace(cur.k))>>)
  /\ UNCHANGED <<corner, buffered, reports, odd>>

\* ">>" closes two levels: its second half becomes the current token.
Split ==
  /\ At("split")
  /\ cur' = [k |-> ">", n |-> cur.n + 1]
  /\ Continue(<<>>)
  /\ UNCHANGED <<corner, la, pending, lexed, buffered, reports, silent, open, odd>>

\* The pipeline test runs past a qualified name, one token at a time...
InName ==
  IF Len(buffered) % 2 = 0 THEN buffered = <<>> \/ cur.k \in Ident ELSE cur.k = "::"
Scanning ==
  /\ At("scan") /\ InName
  /\ buffered' = Append(buffered, cur)
  /\ Advance
  /\ UNCHANGED <<corner, plan, reports, silent, open, odd>>

\* Mutant: the token after the name is not pushed back.
MutRestore ==
  /\ At("scan") /\ ~InName
  /\ cur' = buffered[1] /\ la' = <<>>
  /\ pending' = pending \o Reverse(Tail(buffered))
  /\ buffered' = <<>>
  /\ Continue(<<IF cur.k = "->" THEN While("Edge") ELSE Loop("Operation")>>)
  /\ UNCHANGED <<corner, lexed, reports, silent, open, odd>>

\* ...and pushes all of it back, the token behind the name first.
Restore ==
  /\ At("scan") /\ ~InName
  /\ cur' = buffered[1] /\ la' = <<>>
  /\ pending' = pending \o <<cur>> \o Reverse(Tail(buffered))
  /\ buffered' = <<>>
  /\ Continue(<<IF cur.k = "->" THEN While("Edge") ELSE Loop("Operation")>>)
  /\ UNCHANGED <<corner, lexed, reports, silent, open, odd>>

ParserNext ==
  \/ Accept \/ Refuse \/ Value \/ Judge \/ TakeToken \/ TakeName \/ Call \/ Guard \/ Leave
  \/ Round \/ Stall \/ Synchronize \/ SkipBody \/ Split \/ Scanning \/ Restore

Parsed == plan = <<>>
ParserSpec == ParserInit /\ [][ParserNext]_parserVars
FairParserSpec == ParserSpec /\ WF_parserVars(ParserNext)

-----------------------------------------------------------------------------
\* The tokens from the current one on, those looked past included.
Ahead == buffered \o <<cur>> \o la \o Reverse(pending)
After(n) == IF n % 2 = 1 THEN n + 1 ELSE n + 2

\* The parser never loses, repeats or reorders a token, however much it looks
\* ahead, splits and pushes back (Parser.cpp:88-113, 866-892).
TokensInOrder ==
  /\ \A i \in 1..(Len(Ahead) - 1) : Ahead[i + 1].n = After(Ahead[i].n)
  /\ Last(Ahead).n \in {2 * lexed, 2 * lexed + 1, NextPlace}

\* What the parser accepts without a report it has read to the end: nothing was
\* dropped while resynchronizing or stalling, and every brace it opened is
\* closed, unless one was taken for a name (Parser.cpp:115-150, 345-393).
AcceptedIsWhole ==
  Parsed /\ reports = 0 => cur.k = "eof" /\ ~silent /\ (odd \/ open = 0)

\* No loop with a stall check begins a round where its last round began: "a
\* recovery path that reports an error without consuming a token would re-report
\* the same diagnostic until the engine's 100-error cap" (Parser.cpp:374-377).
\* The loop over the edges of a pipeline `continue`s past its check, and does.
RoundsMoveOn == At("loop") /\ ~RoundsEnd => plan[1].n # cur.n

\* The parser takes the tokens as they come, keeps what it accepts as a whole and
\* does not stay at one place (Parser.cpp:88-150, 345-393, 866-892).
ParserIsSound == TokensInOrder /\ AcceptedIsWhole /\ RoundsMoveOn
=============================================================================
