------------------------------- MODULE MCSema -------------------------------
(***************************************************************************)
(* The front end for TLC, each pass on all of its own small inputs: the    *)
(* lexer, the parser, the ordering of pipelines, the propagation of        *)
(* priorities and the matching of structs.  A behaviour runs one of them;  *)
(* the state of the others is kept at Idle values.                         *)
(***************************************************************************)
EXTENDS PipelineDag, PriorityAnalysis, SmartStructMatcher, Parser, Lexer

OneNamespace == {<<"app", "f">>, <<"app", "g">>, <<"app", "h">>}
TwoNamespaces == {<<"app", "f">>, <<"app", "g">>, <<"app", "io", "h">>}
OnePipeline == {<<"app", "f">>}
NestedPipeline == {<<"app", "io", "h">>}

\* What the parser meets: corners of the language, behind what leads there.
InSection == <<"namespace", "id", "{", "vis", ":">>
EachCorner ==
  { Corner(<<>>, {"import", "using", "internal", "namespace", "id", "/", "{", "}", ";", ",",
                  "::", "vis"}),
    Corner(<<>>, {"std", "::", "import", "(", "str", ",", "id", ")", ";", "="}),
    Corner(<<"namespace", "id", "{">>, {"vis", ":", "fn", "handler", "lifetime", "id", "=",
                                        "..", "priority", "}"}),
    Corner(InSection, {"void", "id", "(", ")", ",", ";", "=", "->", "const", "bool"}),
    Corner(InSection \o <<"id", "(", ")", "->">>,
           {"cardinality", "access", "(", "int", "k", "tiled", ",", ")", "..", ";"}),
    Corner(InSection \o <<"id", "(", ")", "->", "(", ")">>,
           {"with", "returns", "(", "id", ",", ")", ";", "_"}),
    Corner(InSection \o <<"fn", "id", "{">>,
           {"id", "::", "->", ";", "}", "void", "stage", "(", ")"}),
    Corner(InSection \o <<"flow", "id", "{", "id">>, {"::", "id", "->", ";", "}", "fn"}),
    Corner(InSection \o <<"fn", "id", "{">>,
           {"stage", "<", ">", "-", "int", "id", "=", ";", "!", "op"}),
    Corner(InSection \o <<"using", "id", "=">>,
           {"id", "optional", "record", "<", ">", ">>", ",", ":", ";", "int", ".."}),
    Corner(InSection, {"comptime", "static", "if", "fn", "(", "id", ")", "{", "}", "else"}),
    Corner(InSection \o <<"template", "<">>,
           {"typename", "...", "id", "template", "<", ">", "class", ",", ":", "="}),
    Corner(InSection \o <<"template", "<", "typename", "id">>,
           {"=", ",", ">", "type", "fn", "void", "id", "(", "{"}),
    Corner(InSection \o <<"type", "self">>, {"<", ">", ":", "public", "id", "{", "}", "vis"}),
    Corner(InSection \o <<"type", "self", "{", "vis", ":">>,
           {"self", "~", "(", ")", ";", "{", "}", "explicit", "static", "virtual", "="}),
    Corner(InSection, {"constraint", "adapt", "for", "id", "{", "}", "=", ";", "("}),
    Corner(InSection, {"instantiate", "fn", "operator", "op", "id", "<", ">", ">>", ";"}),
    Corner(InSection \o <<"fn", "operator", "op">>, {"(", ")", "->", "id", "=", "::", ";"}),
    Corner(InSection \o <<"typefn", "id", "(">>,
           {"typename", "id", ",", ")", "->", "{", "match", "=>"}),
    Corner(InSection \o <<"typefn", "id", "(", ")", "->", "typename", "{", "match", "id", "{">>,
           {"_", "id", "=>", ","}),
    Corner(<<"debug", "id", "{">>,
           {"view", "from", "id", "[", "int", "..", "]", ";", "summary", "}"}),
    Corner(InSection \o <<"void", "id", "(", ")", "=">>, {"id", "::", "bool", "{", "}", ";"}),
    Corner(<<"debug", "id", "{">>,
           {"inactive", "mode", "id", "render", "method", "=", "{", "}", ";"}) }

dagIdle ==
  /\ source = <<>> /\ target = <<>> /\ dagPc = "idle"
  /\ inDeg = <<>> /\ queue = {} /\ order = <<>> /\ stage = <<>> /\ todo = {}
  /\ errors = {} /\ published = FALSE
priorityIdle ==
  /\ declared = <<>> /\ calls = <<>> /\ priorityPc = "idle"
  /\ eff = <<>> /\ worklist = {}
matchIdle == fields = <<>> /\ params = <<>> /\ ti = 0 /\ matches = {} /\ failed = {}

lexerIdle == text = <<>> /\ lpos = 0 /\ lexemes = <<>> /\ trivia = {} /\ wrong = {}
parserIdle ==
  /\ corner = Corner(<<>>, {}) /\ cur = Tok("eof", 0) /\ plan = <<Step("idle", "")>>
  /\ la = <<>> /\ pending = <<>> /\ buffered = <<>> /\ lexed = 0
  /\ reports = 0 /\ silent = FALSE /\ open = 0 /\ odd = FALSE

Init ==
  \/ DagInit /\ priorityIdle /\ matchIdle /\ lexerIdle /\ parserIdle
  \/ dagIdle /\ PriorityInit /\ matchIdle /\ lexerIdle /\ parserIdle
  \/ dagIdle /\ priorityIdle /\ MatchInit /\ lexerIdle /\ parserIdle
  \/ dagIdle /\ priorityIdle /\ matchIdle /\ LexerInit /\ parserIdle
  \/ dagIdle /\ priorityIdle /\ matchIdle /\ lexerIdle /\ ParserInit

Next ==
  \/ DagNext /\ UNCHANGED <<priorityVars, matchVars, lexerVars, parserVars>>
  \/ PriorityNext /\ UNCHANGED <<dagVars, matchVars, lexerVars, parserVars>>
  \/ MatchNext /\ UNCHANGED <<dagVars, priorityVars, lexerVars, parserVars>>
  \/ lpos # 0 /\ LexerNext /\ UNCHANGED <<dagVars, priorityVars, matchVars, parserVars>>
  \/ ParserNext /\ UNCHANGED <<dagVars, priorityVars, matchVars, lexerVars>>

vars == <<dagVars, priorityVars, matchVars, lexerVars, parserVars>>
Spec == Init /\ [][Next]_vars
FairSpec == Spec /\ WF_vars(Next)

-----------------------------------------------------------------------------
\* Every pass ends: the lexer and the parser on any input, the sort on graphs
\* with cycles and the propagation on recursive calls, whose worklist grows
\* while it is consumed.
PassesEnd ==
  <>(dagPc = "done" \/ priorityPc = "done" \/ Matched \/ Parsed \/ (lpos # 0 /\ Scanned))
=============================================================================
