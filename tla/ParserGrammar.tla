--------------------------- MODULE ParserGrammar ---------------------------
(***************************************************************************)
(* What each function of the parser (lib/Parser/Parser.cpp) expects, as a  *)
(* table: a nonterminal has a list of alternatives, the first whose        *)
(* lookahead fits is taken, and its body is the sequence of steps the      *)
(* function makes on the tokens.  Module Parser runs the table.  Tokens    *)
(* are reduced to their kind, and to the word where the parser compares    *)
(* it; the operators of an expression are one level of precedence; what    *)
(* the tree stores is left out.                                            *)
(***************************************************************************)
EXTENDS Integers, SequencesExt

(* --------------------------------- steps -------------------------------- *)
Since(op, arg, n) == [op |-> op, arg |-> arg, n |-> n]
Step(op, arg) == Since(op, arg, 0)
E(k) == Step("expect", k)      \* consumes a token of class k, or reports
M(k) == Step("match", k)       \* consumes it when it is there
V(k) == Step("value", k)       \* consumes it and judges its text
N(f) == Step("call", f)        \* parses nonterminal f
G(f) == Step("guard", f)       \* the same, counting the recursion
Loop(f) == Step("loop", f)     \* repeats f until its stop set, with stall detection
While(f) == Step("while", f)   \* the same without stall detection
Skip(d) == Since("skip", "", d)   \* drops tokens to the closing brace
T == Step("take", "")          \* advance() over a token that was looked at
D == Step("drop", "")          \* advance() over a token that was reported
A == Step("argument", "")      \* advance() over a token whose text is not parsed
Name == Step("name", "")       \* advance() over the first token of a name, whatever it is
X == Step("error", "")         \* reports
J == Step("judge", "")         \* reports, if what was read is not acceptable
S == Step("sync", "")          \* synchronize()
Scan == Step("scan", "")       \* looks past a qualified name for "->"

(* ----------------------------- classes of kinds ------------------------- *)
Hint == {"cardinality", "access"}
Ident == {"id", "std", "lifetime", "debug", "returns", "self", "view", "summary",
          "inactive", "render", "from", "method", "mode", "k", "tiled", "_"} \cup Hint
Visibility == {"vis", "public", "internal"}
Scalar == {"bool"}
Generic == {"optional"}
Composite == {"record"}
StdType == Scalar \cup Generic \cup Composite
NameWords == Ident \cup {"typename"}
TypeStart == {"void", "const", "own"} \cup NameWords \cup StdType
BinaryOp == {"op", "<", ">", "-", "*", "/"}
Overloadable == BinaryOp \cup {">>", "&", "~", "!", "=>"}

\* The kinds expect(), match() and check() accept under a name.
Class(k) ==
  CASE k = "id" -> Ident
    [] k = "ns" -> Ident \cup {"internal"}
    [] k = "alias" -> Ident \cup StdType
    [] k = "mark" -> {"&", "*"}
    [] k = "type" -> {"type", "class"}
    [] OTHER -> {k}

(* ----------------------------- alternatives ----------------------------- *)
On(on, body) == [on |-> on, else |-> FALSE, look |-> FALSE, next |-> {}, body |-> body]
OnNext(on, next, body) == [On(on, body) EXCEPT !.look = TRUE, !.next = next]
Else(body) == [On({}, body) EXCEPT !.else = TRUE]
One(body) == <<Else(body)>>
Opt(on, body) == <<On(on, body), Else(<<>>)>>
\* do { f } while (match(","))
List(f, rest) == <<Else(<<N(f), N(rest)>>)>>
More(f) == Opt({","}, <<T, N(f)>>)

(* ------------------------------ declarations ---------------------------- *)
parseTopLevelDecl ==
  [TopLevel |-> <<
     On({"import"}, <<N("Import")>>),
     OnNext({"std"}, {"::"}, <<N("StdImport")>>),
     On({"using"}, <<N("Alias")>>),
     OnNext({"internal"}, {"namespace"}, <<T, N("Namespace")>>),
     On({"namespace"}, <<N("Namespace")>>),
     OnNext({"debug"}, Ident, <<T, N("Debug")>>),
     Else(<<X, D, S>>)>>]

parseImport ==
  [Import |-> One(<<E("import"), E("id"), N("ImportPath"), N("Selection"), E(";")>>),
   ImportPath |-> Opt({"/"}, <<T, E("id"), N("ImportPath")>>),
   Selection |-> Opt({"{"}, <<E("{"), N("Symbols"), E("}")>>),
   Symbols |-> One(<<E("id"), N("MoreSymbols")>>),
   MoreSymbols |-> More("Symbols")]

parseTypeAliasAsDataDecl ==
  [Alias |-> One(<<E("using"), E("alias"), E("="), G("Type"), E(";")>>)]

parseNamespaceDecl ==
  [Namespace |-> One(<<E("namespace"), E("ns"), N("Path"), E("{"), Loop("NsItem"), E("}")>>),
   Path |-> Opt({"::"}, <<T, E("ns"), N("Path")>>),
   NsItem |-> <<
     OnNext({"lifetime"}, Ident, <<T, N("Lifetime")>>),
     On({"fn"}, <<N("FnLogic")>>),
     On({"handler"}, <<N("Handler")>>),
     On({"flow"}, <<N("Flow")>>),
     On(Visibility, <<T, N("Section")>>),
     Else(<<X, D, S>>)>>]

\* The "continue" after a priority skips the stall check, which could not fire.
parseVisibilitySection ==
  [Section |-> One(<<E(":"), Loop("SectionItem")>>),
   SectionItem |-> <<On({"priority"}, <<T, N("Priority")>>), Else(<<N("Member")>>)>>]

parsePriorityLevel ==
  [Priority |-> One(<<E("("), V("id"), E(")"), E(":")>>)]

collectModifiers ==
  [Member |-> <<
     On({"comptime"}, <<T, N("ComptimeMember")>>),
     On({"static", "explicit", "external"}, <<T, N("Member")>>),
     Else(<<N("Declaration")>>)>>,
   ComptimeMember |-> <<
     On({"comptime", "static", "explicit", "external"}, <<T, N("ComptimeMember")>>),
     On({"if"}, <<T, N("ComptimeIf")>>),
     On({"fn"}, <<T, N("ComptimeFn")>>),
     Else(<<N("Declaration")>>)>>]

comptimeMember ==
  [ComptimeIf |-> One(<<E("("), G("Expr"), E(")"), E("{"), Loop("Member"), E("}"),
                        N("ElseBody")>>),
   ElseBody |-> Opt({"else"}, <<T, E("{"), Loop("Member"), E("}")>>),
   ComptimeFn |-> One(<<E("id"), E("("), Loop("LooseParam"), E(")"), E("->"), G("Type"),
                        E("{"), G("Expr"), E("}")>>),
   LooseParam |-> One(<<G("Type"), E("id"), N("Separator")>>),
   Separator |-> <<On({")"}, <<>>), Else(<<E(",")>>)>>]

parseMemberDecl ==
  [Declaration |-> <<
     OnNext({"fn"}, {"operator"}, <<N("Operator")>>),
     On({"fn"}, <<N("FnLogic")>>),
     On({"handler"}, <<N("Handler")>>),
     On({"flow"}, <<N("Flow")>>),
     OnNext({"std"}, {"::"}, <<N("StdImport")>>),
     On({"using"}, <<N("Alias")>>),
     OnNext({"internal"}, {"namespace"}, <<T, N("Namespace")>>),
     On({"namespace"}, <<N("Namespace")>>),
     On({"template"}, <<N("Template")>>),
     On({"type", "class"}, <<N("TypeDecl")>>),
     On({"constraint"}, <<N("Constraint")>>),
     On({"adapt"}, <<N("Adapt")>>),
     On({"instantiate"}, <<N("Instantiate")>>),
     On({"typefn"}, <<N("TypeFn")>>),
     OnNext({"lifetime"}, Ident, <<T, N("Lifetime")>>),
     On({"void", "const", "own"} \cup StdType, <<N("CppFn")>>),
     OnNext(Ident, {"(", "."}, <<N("RustFn")>>),
     On(Ident, <<N("CppFn")>>),
     Else(<<X, S>>)>>]       \* "virtual" is refused the same way

(* ------------------------------- functions ------------------------------ *)
parseFnLogicBlock ==
  [FnLogic |-> One(<<E("fn"), N("FuncName"), E("{"), N("FnBody"), E("}")>>),
   FnBody |-> <<
     OnNext(Ident, {"->"}, <<While("Edge")>>),
     OnNext(Ident, {"::"}, <<Scan>>),
     Else(<<Loop("Operation")>>)>>]

parseHandlerDecl ==
  [Handler |-> One(<<E("handler"), N("FuncName"), N("Params"), J, E("->"), G("Type"), E(";")>>)]

parseFlowDecl ==
  [Flow |-> One(<<E("flow"), N("FuncName"), E("{"), While("Edge"), E("}")>>)]

parseLifetimeAsDataDecl ==
  [Lifetime |-> One(<<E("id"), E("="), N("FuncName"), N("Range"), E(";")>>),
   Range |-> Opt({".."}, <<T, N("RangeEnd")>>),
   RangeEnd |-> Opt(Ident, <<N("FuncName")>>)]

\* The arguments of a call are skipped: the tree has no place for them.
parseOperationDecl ==
  [Operation |-> <<On({"stage"}, <<T, E("<"), N("StageNumber"), E(">"), N("Call")>>),
                   Else(<<N("Call")>>)>>,
   StageNumber |-> <<On({"-"}, <<X, T, M("int")>>), On({"int"}, <<T, J>>), Else(<<X>>)>>,
   Call |-> <<
     OnNext(Ident, {"="}, <<T, T, G("Expr"), E(";")>>),
     Else(<<E("id"), N("Names"), E("("), While("Argument"), E(")"), N("Binding"), E(";")>>)>>,
   Argument |-> One(<<A>>)]

parseStdImportAsDataDecl ==
  [StdImport |-> One(<<E("id"), E("::"), E("import"), E("("), E("str"), N("ImportType"),
                       E(")"), E(";")>>),
   ImportType |-> Opt({","}, <<T, Name, N("QRest")>>)]

\* Only parseBinaryExpr() counts the recursion.
parseBinaryExpr ==
  [Expr |-> One(<<N("Unary"), N("ExprRest")>>),
   ExprRest |-> Opt(BinaryOp, <<T, G("Unary"), N("ExprRest")>>)]

parseUnaryExpr ==
  [Unary |-> <<On({"!", "-"}, <<T, N("Unary")>>), Else(<<N("Primary")>>)>>]

parsePrimaryExpr ==
  [Primary |-> <<
     On({"("}, <<T, G("Expr"), E(")")>>),
     On({"int", "str"}, <<T>>),
     On(Ident, <<N("FuncName"), N("CallArgs")>>),
     Else(<<X>>)>>,
   CallArgs |-> Opt({"("}, <<T, N("ArgsOpt"), E(")")>>),
   ArgsOpt |-> <<On({")"}, <<>>), Else(<<N("Args")>>)>>,
   Args |-> List("ExprArg", "MoreArgs"),
   ExprArg |-> One(<<G("Expr")>>),
   MoreArgs |-> More("Args")]

parseFnDeclCppStyle ==
  [CppFn |-> One(<<G("Type"), N("FuncName"), N("Params"), M("const"), N("Bound"),
                   N("ArrowHints"), E(";")>>),
   Params |-> One(<<E("("), N("ParamsOpt"), E(")")>>),
   ParamsOpt |-> <<On({")"}, <<>>), Else(<<N("ParamList")>>)>>,
   ParamList |-> List("Param", "MoreParams"),
   Param |-> One(<<G("Type"), E("id")>>),
   MoreParams |-> More("ParamList"),
   Bound |-> Opt({"="}, <<T, Name, N("QRest")>>),
   ArrowHints |-> <<OnNext({"->"}, Hint, <<T, N("Hints")>>), Else(<<>>)>>]

parseFnDeclRustStyle ==
  [RustFn |-> One(<<N("FuncName"), N("Params"), M("const"), E("->"), N("Result"),
                    N("CommaHints"), N("With"), N("Bound"), E(";")>>),
   Result |-> <<On(Hint, <<N("Hints")>>),
                On({"("}, <<N("Params")>>),     \* parseMultiReturnParams(): the same list
                Else(<<G("Type")>>)>>,
   CommaHints |-> <<OnNext({","}, Hint, <<T, N("Hints")>>), Else(<<>>)>>]

parseUsedReturnsClause ==
  [With |-> Opt({"with"}, <<J, T, N("Returns"), J>>),
   Returns |-> <<On({"returns"}, <<T, E("("), N("UsedOpt"), E(")"), J>>), Else(<<X>>)>>,
   UsedOpt |-> <<On({")"}, <<>>), Else(<<N("Used")>>)>>,
   Used |-> <<On(Ident, <<T, J, N("MoreUsed")>>), Else(<<X>>)>>,
   MoreUsed |-> More("Used")]

\* "cardinality(min..max)" with its k and M suffixes, or "access(tiled, size)".
parseHints ==
  [Hints |-> <<
     On({"cardinality"}, <<T, E("("), V("int"), M("k"), N("Maximum"), E(")"), N("MoreHints")>>),
     On({"access"}, <<T, E("("), N("Pattern"), E(")"), N("MoreHints")>>),
     Else(<<>>)>>,
   Maximum |-> Opt({".."}, <<T, N("MaximumValue")>>),
   MaximumValue |-> Opt({"int"}, <<V("int"), M("k")>>),
   Pattern |-> <<On({"tiled"}, <<T, N("TileSize")>>), Else(<<V("id")>>)>>,
   TileSize |-> Opt({","}, <<T, V("int")>>),
   MoreHints |-> <<OnNext({","}, Hint, <<T, N("Hints")>>), Else(<<>>)>>]

parseReturnBinding ==
  [Binding |-> Opt({"->"}, <<T, N("Targets")>>),
   Targets |-> <<On({"("}, <<T, N("TargetsOpt"), E(")")>>), Else(<<E("id")>>)>>,
   TargetsOpt |-> <<On({")"}, <<>>), Else(<<N("Symbols")>>)>>]

\* Neither "continue" reaches the stall check at the end of the loop.
parsePipelineEdges ==
  [Edge |-> <<On({"stage"}, <<X, S>>),
              Else(<<E("id"), N("Names"), E("->"), N("EdgeTarget")>>)>>,
   EdgeTarget |-> <<
     On({"void"}, <<T, E(";")>>),
     On(Ident, <<T, N("Names"), E(";")>>),
     Else(<<X, S>>)>>]

(* --------------------------------- names -------------------------------- *)
parseQualifiedName ==
  [QRest |-> Opt({"::"}, <<T, N("QPart"), N("QRest")>>),
   QPart |-> <<On({"void", "import"} \cup StdType, <<T>>), Else(<<E("id")>>)>>,
   FuncName |-> One(<<E("id"), N("Dots")>>),
   Dots |-> <<OnNext({"."}, Ident, <<T, T, N("Dots")>>), Else(<<>>)>>,
   Names |-> <<OnNext({"::"}, Ident, <<T, T, N("Names")>>), Else(<<>>)>>]

(* --------------------------------- types -------------------------------- *)
parseType ==
  [Type |-> One(<<M("const"), M("own"), N("TypeName")>>),
   TypeName |-> <<
     On({"void"} \cup Scalar, <<T, N("Suffix")>>),
     On(Composite, <<T, N("Fields"), N("Suffix")>>),
     On(Generic, <<T, N("TypeArgs"), N("Suffix")>>),
     On(NameWords, <<T, N("QRest"), N("TypeArgs"), N("Suffix")>>),
     Else(<<X>>)>>,
   TypeArgs |-> Opt({"<"}, <<T, N("TypeArgsOpt")>>),
   TypeArgsOpt |-> <<On({">"}, <<T>>), Else(<<N("TypeArgList"), N("CloseAngle")>>)>>,
   TypeArgList |-> List("TypeArg", "MoreTypeArgs"),
   TypeArg |-> <<On({"int"}, <<T, J>>), On({".."}, <<G("Type")>>),
                 Else(<<G("Type"), N("ArgRange")>>)>>,
   ArgRange |-> Opt({".."}, <<T, M("id")>>),
   MoreTypeArgs |-> More("TypeArgList"),
   Suffix |-> One(<<M("mark"), M("...")>>)]

consumeCloseAngle ==
  [CloseAngle |-> <<On({">"}, <<T>>), On({">>"}, <<Step("split", "")>>), Else(<<X>>)>>]

parseRecordFields ==
  [Fields |-> <<On({"<"}, <<T, N("FieldsOpt")>>), Else(<<X>>)>>,
   FieldsOpt |-> <<On({">"}, <<T>>), Else(<<N("FieldList"), N("CloseAngle")>>)>>,
   FieldList |-> List("Field", "MoreFields"),
   Field |-> One(<<E("id"), E(":"), G("Type")>>),
   MoreFields |-> More("FieldList")]

(* ------------------------------- templates ------------------------------ *)
parseTemplateParamList ==
  [TemplateParams |-> One(<<E("<"), N("TemplateOpt")>>),
   TemplateOpt |-> <<On({">"}, <<T>>), Else(<<N("TemplateParam")>>)>>,
   TemplateParam |-> <<
     On({"typename"}, <<T, M("..."), E("id"), N("Bounds"), N("Default"), N("MoreTemplate")>>),
     On(TypeStart, <<G("Type"), E("id"), N("Literal"), N("MoreTemplate")>>),
     On({"template"}, <<T, E("<"), N("Inner"), E(">"), E("class"), E("id"), N("MoreTemplate")>>),
     Else(<<X, S, E(">")>>)>>,
   MoreTemplate |-> <<On({","}, <<T, N("TemplateParam")>>), Else(<<E(">")>>)>>,
   Bounds |-> Opt({":"}, <<T, G("Type")>>),
   Default |-> Opt({"="}, <<T, G("Type")>>),
   Literal |-> Opt({"="}, <<T, V("int")>>),
   Inner |-> List("InnerParam", "MoreInner"),
   InnerParam |-> Opt({"typename"}, <<T, M("id")>>),
   MoreInner |-> More("Inner")]

parseTemplateDecl ==
  [Template |-> One(<<E("template"), N("TemplateParams"), N("Templated")>>),
   Templated |-> <<
     On({"type", "class"}, <<N("TypeDecl")>>),
     On({"fn"}, <<N("FnLogic")>>),
     On({"void", "const"}, <<N("CppFn")>>),
     OnNext(Ident, {"(", "."}, <<N("RustFn")>>),
     On(Ident, <<N("CppFn")>>),
     Else(<<X, S>>)>>]

(* ------------------------------ type bodies ----------------------------- *)
parseTypeDecl ==
  [TypeDecl |-> One(<<E("type"), E("id"), N("SpecArgs"), N("Base")>>),
   SpecArgs |-> Opt({"<"}, <<T, Loop("SpecArg"), E(">")>>),
   SpecArg |-> One(<<G("Type"), N("SpecComma")>>),
   SpecComma |-> <<On({">"}, <<>>), Else(<<E(",")>>)>>,
   Base |-> <<On({":"}, <<T, N("BaseType")>>), Else(<<N("TypeBody")>>)>>,
   BaseType |-> <<On({"public"}, <<T, G("Type"), N("TypeBody")>>), Else(<<X, S>>)>>,
   TypeBody |-> One(<<E("{"), Loop("TypeSection"), E("}")>>),
   TypeSection |-> <<On(Visibility, <<T, E(":"), Loop("TypeItem")>>), Else(<<X, S>>)>>,
   TypeItem |-> <<On({"priority"}, <<T, N("Priority")>>), Else(<<N("TypeMember")>>)>>]

parseSpecialMember ==
  [TypeMember |-> <<
     On({"external", "comptime"}, <<T, N("TypeMember")>>),
     On({"type", "class", "template"}, <<N("Member")>>),
     On({"~"}, <<T, V("id"), E("("), E(")"), E(";")>>),
     On({"explicit"}, <<T, V("id"), N("Params"), N("NoBody")>>),
     On({"static"}, <<T, N("PlainMember")>>),
     Else(<<N("PlainMember")>>)>>,
   NoBody |-> <<On({"{"}, <<X, D, Skip(1)>>), Else(<<E(";")>>)>>]

parseTypeMember ==
  [PlainMember |-> <<
     OnNext({"fn"}, {"operator"}, <<N("Operator")>>),
     OnNext({"self"}, {"("}, <<J, T, N("Params"), N("NoBody")>>),
     On({"using"}, <<N("Alias")>>),
     On(TypeStart, <<G("Type"), N("MemberName")>>),
     Else(<<X, S>>)>>,
   MemberName |-> <<On(Ident, <<T, N("MemberRest")>>), Else(<<X, S>>)>>,
   MemberRest |-> <<
     On({"("}, <<N("Params"), M("const"), N("NoBody")>>),
     On({"="}, <<X, S>>),
     Else(<<E(";")>>)>>]

parseOperatorDecl ==
  [Operator |-> One(<<E("fn"), E("operator"), N("Symbol"), N("Params"), E("->"), G("Type"),
                      N("Bound"), E(";")>>),
   Symbol |-> <<On(Overloadable, <<T>>), Else(<<X>>)>>]

parseConstraintAsTypeDecl ==
  [Constraint |-> One(<<E("constraint"), E("id"), N("Parent"), E("{"), Loop("Requirement"),
                        E("}")>>),
   Parent |-> Opt({":"}, <<T, E("id")>>),
   Requirement |-> One(<<G("Type"), E("id"), N("LooseParams"), E(";")>>),
   LooseParams |-> Opt({"("}, <<T, Loop("LooseParam"), E(")")>>)]

parseAdaptAsTypeDecl ==
  [Adapt |-> One(<<E("adapt"), E("id"), E("for"), G("Type"), E("{"), Loop("Mapping"), E("}")>>),
   Mapping |-> One(<<E("id"), E("="), E("id"), E(";")>>)]

parseInstantiateAsDataDecl ==
  [Instantiate |-> One(<<E("instantiate"), G("Type"), E(";")>>)]

parseTypeFnAsTypeDecl ==
  [TypeFn |-> One(<<E("typefn"), E("id"), E("("), Loop("FnTypeParam"), E(")"), E("->"),
                    E("typename"), E("{"), N("Match"), E("}")>>),
   Match |-> One(<<E("match"), E("id"), E("{"), Loop("Arm"), E("}")>>),
   FnTypeParam |-> <<On({"typename"}, <<T, E("id"), N("Separator")>>), Else(<<E(",")>>)>>,
   Arm |-> <<On({"_"}, <<T, N("ArmResult")>>), Else(<<G("Type"), N("ArmResult")>>)>>,
   ArmResult |-> One(<<E("=>"), G("Type"), M(",")>>)]

(* --------------------------------- debug -------------------------------- *)
parseDebugSliceExpr ==
  [Slice |-> One(<<E("id"), N("Bracket")>>),
   Bracket |-> Opt({"["}, <<T, N("SliceBound"), E(".."), N("SliceBound"), E("]")>>),
   SliceBound |-> <<On({"int"}, <<T, J>>), Else(<<X>>)>>]

\* A body that the file ends in is not reported here: the loop ends first.
parseDebugDecl ==
  [Debug |-> One(<<E("id"), E("{"), Loop("DebugItem"), E("}")>>),
   DebugItem |-> <<
     On({"view"}, <<T, E("id"), E("from"), N("Slice"), E(";")>>),
     On({"summary"}, <<T, E("str"), E(";")>>),
     On({"inactive"}, <<T, N("Slice"), M("mode"), E(";")>>),
     On({"render"}, <<T, N("Method"), N("RenderBody")>>),
     Else(<<X, D>>)>>,
   Method |-> Opt({"method"}, <<T, E("="), E("id")>>),
   RenderBody |-> <<On({"{"}, <<A, Skip(1)>>), Else(<<X>>)>>]

-----------------------------------------------------------------------------
Grammar ==
  parseTopLevelDecl @@ parseImport @@ parseTypeAliasAsDataDecl @@ parseNamespaceDecl
  @@ parseVisibilitySection @@ parsePriorityLevel @@ collectModifiers @@ comptimeMember
  @@ parseMemberDecl @@ parseFnLogicBlock @@ parseHandlerDecl @@ parseFlowDecl
  @@ parseLifetimeAsDataDecl @@ parseOperationDecl @@ parseStdImportAsDataDecl
  @@ parseBinaryExpr @@ parseUnaryExpr @@ parsePrimaryExpr @@ parseFnDeclCppStyle
  @@ parseFnDeclRustStyle @@ parseUsedReturnsClause @@ parseHints @@ parseReturnBinding
  @@ parsePipelineEdges @@ parseQualifiedName @@ parseType @@ consumeCloseAngle
  @@ parseRecordFields @@ parseTemplateParamList @@ parseTemplateDecl @@ parseTypeDecl
  @@ parseSpecialMember @@ parseTypeMember @@ parseOperatorDecl @@ parseConstraintAsTypeDecl
  @@ parseAdaptAsTypeDecl @@ parseInstantiateAsDataDecl @@ parseTypeFnAsTypeDecl
  @@ parseDebugSliceExpr @@ parseDebugDecl

\* Where each loop stops by itself.
StopAt(f) ==
  CASE f = "TopLevel" -> {"eof"}
    [] f \in {"SectionItem", "TypeItem"} -> {"eof", "}"} \cup Visibility
    [] f \in {"LooseParam", "FnTypeParam"} -> {"eof", ")"}
    [] f = "SpecArg" -> {"eof", ">"}
    [] f = "Argument" -> {"eof", ")", ";"}
    [] OTHER -> {"eof", "}"}

\* The tokens synchronize() stops at without consuming them.
Anchors ==
  Visibility \cup {"}", "fn", "handler", "flow", "namespace", "using", "import", "class",
                   "type", "constraint", "adapt", "instantiate", "priority"}
(* --------------------------- what the table keeps to -------------------- *)
Nonterminals == DOMAIN Grammar

\* The nonterminals that consume a token or report, whatever comes.
Yielding ==
  {"TopLevel", "Import", "Alias", "Namespace", "NsItem", "SectionItem", "Member", "LooseParam",
   "Declaration", "FnLogic", "Handler", "Flow", "Operation", "Call", "StdImport", "CppFn",
   "RustFn", "Type", "TypeName", "Template", "TypeDecl", "SpecArg", "TypeSection", "TypeItem",
   "TypeMember", "PlainMember", "Operator", "Constraint", "Requirement", "Adapt", "Mapping",
   "Instantiate", "TypeFn", "FnTypeParam", "Arm", "DebugItem"}

Brace(k) == IF k = "{" THEN 1 ELSE IF k = "}" THEN -1 ELSE 0
Bad == {"{", "}", "eof"}

\* The steps a plan can hold: what is called is in the table, what a loop with
\* stall detection repeats yields, and braces are only taken by expect().
Ops == {"expect", "match", "value", "call", "guard", "loop", "while", "skip", "take", "drop",
        "argument", "name", "error", "judge", "sync", "scan", "split", "leave", "stall"}
Args == STRING \cup {"", "Edge", "Operation", "TopLevel"}
Steps ==
  {s \in [op : Ops, arg : Args, n : Nat] :
     /\ s.op \in {"call", "guard", "while"} => s.arg \in Nonterminals
     /\ s.op = "loop" => s.arg \in Yielding
     /\ s.op = "expect" => s.arg # "eof"
     /\ s.op \in {"match", "value"} => s.arg \notin Bad}
Weight(s) == IF s.op = "expect" THEN Brace(s.arg) ELSE 0
Yields == {s \in Steps : \/ s.op \in {"expect", "value", "take", "error"}
                         \/ s.op \in {"call", "guard"} /\ s.arg \in Yielding}
Errors == {s \in Steps : s.op = "error"}
Drops == {s \in Steps : s.op \in {"drop", "sync"}}

\* Before each step of U there is one of W; a token is taken at once, or behind
\* one step that consumes nothing or takes one too; only a first step looks past
\* a name or splits.
Behind(p, U, W) == \A i \in 1..Len(p) : p[i] \in U => \E j \in 1..(i - 1) : p[j] \in W
Placed(p) == \A i \in 1..Len(p) :
  /\ p[i].op \in {"scan", "split"} => i = 1
  /\ p[i].op = "take" => i = 1 \/ (i = 2 /\ p[1].op \in {"judge", "error", "take"})
\* h: the braces open before each step, when they are closed in the end.
Levels(p, o, h) ==
  /\ h[0] = o /\ h[Len(p)] = 0
  /\ \A i \in 1..Len(p) : h[i] = h[i - 1] + Weight(p[i])

BodyFits(p) ==
  /\ p \in Seq({s \in Steps : s.op \notin {"stall", "leave"} /\ (s.op = "loop" => s.n = 0)})
  /\ Placed(p) /\ Behind(p, Drops, Errors)
  /\ \E h \in [0..Len(p) -> 0..1] : Levels(p, 0, h)

\* What is taken has been looked at; the test for a pipeline has asked for the
\* second token.
HeadFits(alt) ==
  LET at(i, op) == Len(alt.body) >= i /\ alt.body[i].op = op
      known == ~alt.else /\ alt.on \cap Bad = {} IN
  /\ alt.look => ~alt.else /\ "eof" \notin alt.on
  /\ at(1, "take") => known
  /\ at(1, "scan") => alt.look
  /\ at(1, "split") => ~alt.else /\ alt.on = {">>"}
  /\ at(2, "take") => IF at(1, "take") THEN alt.look /\ alt.next \cap Bad = {} ELSE known

\* The table has no parameter: TLC evaluates this in full.
ASSUME GrammarAssumption ==
  /\ Yielding \cup {"Edge"} \subseteq Nonterminals
  /\ \A f \in Nonterminals :
       /\ Grammar[f] \in Seq(Range(Grammar[f])) /\ Grammar[f] # <<>>
       /\ Last(Grammar[f]).else /\ ~Last(Grammar[f]).look
       /\ \A i \in DOMAIN Grammar[f] :
            /\ BodyFits(Grammar[f][i].body) /\ HeadFits(Grammar[f][i])
            /\ f \in Yielding => \E j \in DOMAIN Grammar[f][i].body :
                                   Grammar[f][i].body[j] \in Yields
=============================================================================
