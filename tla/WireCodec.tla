----------------------------- MODULE WireCodec -----------------------------
(***************************************************************************)
(* The three JSON codecs of the build: the request to a backend            *)
(* (BackendProtocol.cpp), the symbol table (SymbolTableJson.cpp) and the   *)
(* transpile model (TranspileModelJson.cpp).  Writer and reader of each    *)
(* type are separate functions that name every key again.                  *)
(*                                                                         *)
(* A value is the set of its fields that differ from their default; a      *)
(* document is a function of its keys, TRUE where the value is not the     *)
(* default one.  A codec is what its writer always and what it sometimes   *)
(* writes, and what its reader demands and what it takes if it is there.   *)
(***************************************************************************)
EXTENDS Naturals, FiniteSetsExt

CONSTANT MaxSet  \* bound on the fields of a value that differ from the default

Codec(always, some, demands, takes) ==
  [always |-> always, some |-> some, demands |-> demands, takes |-> takes]
\* Written and demanded, or written when it is not the default and so read.
Plain(fields, optional) == Codec(fields, optional, fields, optional)
\* Written always, but read with a default: a section of the configuration.
Section(fields) == Codec(fields \cup {"mode"}, {}, {}, fields \cup {"mode"})

-----------------------------------------------------------------------------
Benchmarked == {"benchmarkIterations", "benchmarkWarmup"}
Lowerings == {"uniquePtrPromotion", "sharedPtrExclusive", "vectorSpanLowering",
              "pointerAttrInference", "devirtualize"}

\* The sections of the optimiser's configuration.
ParallelSections ==
  [parallelCfg |-> Section(Benchmarked \cup {"exclude", "instrument"}),
   adaptiveCfg |-> Section(Benchmarked \cup {"min_trigger_ns"}),
   dataLayoutCfg |-> Section(Benchmarked),
   indirectionCfg |-> Section(Benchmarked \cup Lowerings)]
PassSections ==
  [observabilityCfg |-> Section({"exporter", "samplingRate", "internalStages"}),
   lifetimeCfg |-> Section(Benchmarked \cup {"defaultArenaSize"}),
   loopParallelCfg |-> Section(Benchmarked \cup
     {"exclude", "partitionEnabled", "reductionEnabled", "partitionStrategy",
      "chunkSize", "instrument"}),
   prefetchCfg |-> Section({"distance"}),
   typeNarrowingCfg |-> Section({}), containmentCfg |-> Section({}),
   pipelineCfg |-> Section({})]

ConfigKeys ==
  {"optLevel", "buildMode", "outputType", "obfMode", "obfSalt", "noVerify", "warnOnly",
   "dumpIR", "dumpMap", "debugInternal", "embedIR", "outputPath", "indirectionExplicit"}
  \cup DOMAIN ParallelSections \cup DOMAIN PassSections
ConfigCodec == [config |-> Codec(ConfigKeys, {}, {}, ConfigKeys)]

RequestInputs == {"sources", "includeDirs", "linkLibs", "linkDirs", "verbose", "keepTemps",
           "noIncremental", "backendExtras"}
RequestDemands == {"config", "outputPath", "topoMetadata", "visibilityEntries", "tempDir", "language"}
RequestCodec ==
  [request |-> Codec(RequestInputs \cup RequestDemands, {"checkModelPath", "checkModelSha256", "evidence"},
                     RequestDemands, RequestInputs \cup {"checkModelPath", "checkModelSha256", "evidence"}),
   \* Written when a mode is asked for; the optional digests always with it.
   evidence |->
     LET demanded == {"protocolVersion", "manifestPath"}
         digests == {"compilerSha256", "linkerPath", "linkerSha256"}
     IN Codec(demanded \cup digests, {}, demanded, digests)]

-----------------------------------------------------------------------------
\* The types and declarations of the symbol table.
TypeCodec ==
  [TypeNode |-> Plain({"nameParts"},
     {"isConst", "ownership", "modifier", "templateArgs", "isTemplateParam", "isVariadic",
      "nonTypeValue", "stdlibId", "recordFields"})]
ParamCodecs ==
  [Parameter |-> Plain({"type", "name"}, {}), ReturnParam |-> Plain({"type", "name"}, {}),
   PipelineEdge |-> Plain({"source", "target"}, {"terminalType", "isTerminal"}),
   TemplateParamDecl |-> Plain({"kind", "name", "constraintType"},
                               {"isVariadic", "innerParams", "defaultType"})]
FunctionCodec ==
  [FunctionSymbol |-> Plain({"qualifiedName", "simpleName", "visibility", "returnType", "params"},
     {"isConst", "isStatic", "isExternal", "isComptime", "explicitlyExternal", "owningType",
      "externalOwner", "functionKind", "hasLogicBlock", "isMultiReturn", "returnParams",
      "hasUsedReturnsClause", "usedReturns", "templateParams", "bindingTarget", "cardinality",
      "accessPattern", "tiledSize", "priority"}),
   MemberVarSymbol |-> Plain({"name", "type"},
     {"owningType", "isExternal", "externalOwner", "isStatic"})]
ClassCodec ==
  [ClassSymbol |-> Plain(
     {"qualifiedName", "simpleName", "visibility", "memberFunctions", "constructors"},
     {"isExternal", "isComptime", "explicitlyExternal", "externalOwner", "enclosingType",
      "operatorOverloads", "baseClass", "destructor", "memberVars", "templateParams"}),
   OperatorSymbol |-> Codec(
     {"op", "params", "returnType", "isExternal", "owningType", "externalOwner"},
     {"bindingTarget"}, {"op", "params", "returnType"},
     {"isExternal", "owningType", "externalOwner", "bindingTarget"})]
ConstraintCodecs ==
  [ConstraintMember |-> Plain({"type", "name", "isFunction"}, {"params"}),
   ConstraintSymbol |-> Plain({"qualifiedName", "simpleName", "members"}, {"parentConstraint"}),
   TypeAliasEntry |-> Plain({"name", "targetType"}, {}),
   ImportEntry |-> Plain({"path", "typeName"}, {})]
PipelineCodecs ==
  [PipelineAnalysis |->
     Plain({"stages", "sourceNodes", "terminalNode", "terminalType", "demand"}, {}),
   LogicBlockEntry |-> Plain({"qualifiedName", "simpleName", "calledFunctions", "stages"},
     {"isPipeline", "edges", "isFlow", "pipelineAnalysis"}),
   CallSiteInfo |-> Plain({"caller", "callee", "usedReturns", "style"}, {})]
EntryCodecs ==
  [InstantiateEntry |-> Plain({"type", "qualifiedName"}, {}),
   AdaptMapping |-> Plain({"memberName", "targetName"}, {}),
   AdaptEntry |-> Plain({"constraintName", "targetType", "mappings"}, {}),
   ParamConstInfo |-> Plain({}, {"isConst", "modifier", "ownership"}),
   VisibilityEntry |-> Plain({"qualifiedName", "visibility"},
                             {"isConst", "paramConsts", "bindingTarget"}),
   LifetimeGroupEntry |->
     LET ends == {"endFunc", "isOpenEnded", "isSingleFunc"}
     IN Codec({"name", "startFunc"} \cup ends, {"scopeFunctions"},
              {"name", "startFunc"}, ends \cup {"scopeFunctions"})]
TableKeys == {"functions", "logicBlocks", "classes", "constraints", "typeAliases", "imports",
              "callSites", "instantiates", "adapts", "lifetimeGroups"}
TableCodec == [SymbolTable |-> Codec(TableKeys, {}, {}, TableKeys)]

-----------------------------------------------------------------------------
\* The transpile model: its own codec of types and of template parameters ...
ModelTypeCodec ==
  [ModelType |-> Plain({"nameParts"},
     {"isConst", "ownership", "modifier", "templateArgs", "isTemplateParam", "isVariadic",
      "nonTypeValue", "assocBindings", "hrtbLifetimes"}),
   ModelParameter |-> Plain({"type", "name"}, {})]
\* ... one for each kind of parameter, `bounds` replacing `bound` beyond the first ...
ModelTemplateCodecs ==
  LET Of(some) == Codec({"kind", "name"}, some, {}, some \cup {"kind", "name"})
      packs == {"isVariadic", "innerParams"}
  IN [TypeParam |-> Of({"bound", "extraBounds", "default"} \cup packs),
      NonTypeParam |-> Of({"bound", "defaultValue"} \cup packs),
      LifetimeParam |-> Of({"bound"} \cup packs),
      TemplateTemplateParam |-> Of(packs)]

\* ... and of each expression and statement: what it always carries, and what only if it has it.
Origin == {"sourceSpan", "rawSource"}
Resolution == {"resolvedQualifiedName", "resolvedSignature"}
ExprWrites ==
  [binaryop |-> <<{"op", "lhs", "rhs"}, {}>>, unaryop |-> <<{"op", "operand"}, {}>>,
   call |-> <<{"callee", "args"}, {"receiver"}>>, memberaccess |-> <<{"object", "member"}, {}>>,
   index |-> <<{"object", "index"}, {}>>, literal |-> <<{"litKind", "value"}, {}>>,
   varref |-> <<{"name"}, {}>>, construct |-> <<{"type", "args"}, {}>>,
   lambda |-> <<{"captures", "params", "returnType", "body"}, {"targetType"}>>,
   methodref |-> <<{"referenceKind", "callee", "evaluateReceiverAtCreation"},
                   {"receiver", "ownerType", "targetType"}>>,
   throw |-> <<{"operand"}, {}>>, unsupported |-> <<{"description"}, {}>>,
   ternary |-> <<{"condition", "trueExpr", "falseExpr"}, {}>>,
   compoundassign |-> <<{"op", "target", "value"}, {}>>]
ExprReads ==
  [binaryop |-> <<{"op", "lhs", "rhs"}, {}>>, unaryop |-> <<{"op", "operand"}, {}>>,
   call |-> <<{"callee", "args"}, {"receiver"}>>, memberaccess |-> <<{"object", "member"}, {}>>,
   index |-> <<{"object", "index"}, {}>>, literal |-> <<{"litKind", "value"}, {}>>,
   varref |-> <<{"name"}, {}>>, construct |-> <<{"type", "args"}, {}>>,
   lambda |-> <<{"captures", "params", "returnType", "body"}, {"targetType"}>>,
   methodref |-> <<{"referenceKind"}, {"callee", "evaluateReceiverAtCreation",
                                       "receiver", "ownerType", "targetType"}>>,
   throw |-> <<{"operand"}, {}>>, unsupported |-> <<{"description"}, {}>>,
   ternary |-> <<{"condition", "trueExpr", "falseExpr"}, {}>>,
   compoundassign |-> <<{"op", "target", "value"}, {}>>]
StmtWrites ==
  [vardecl |-> <<{"type", "name"}, {"init"}>>, assign |-> <<{"target", "value"}, {}>>,
   return |-> <<{}, {"value"}>>, if |-> <<{"condition", "thenBody"}, {"elseBody"}>>,
   for |-> <<{"body"}, {"init", "condition", "increment"}>>,
   while |-> <<{"condition", "body"}, {}>>, exprstmt |-> <<{"expr"}, {}>>,
   trycatch |-> <<{"tryBody", "catchClauses"}, {"finallyBody"}>>,
   break |-> <<{}, {}>>, continue |-> <<{}, {}>>, switch |-> <<{"subject", "cases"}, {}>>]
StmtReads ==
  [vardecl |-> <<{"type", "name"}, {"init"}>>, assign |-> <<{"target", "value"}, {}>>,
   return |-> <<{}, {"value"}>>, if |-> <<{"condition", "thenBody"}, {"elseBody"}>>,
   for |-> <<{"body"}, {"init", "condition", "increment"}>>,
   while |-> <<{"condition", "body"}, {}>>, exprstmt |-> <<{"expr"}, {}>>,
   trycatch |-> <<{"tryBody", "catchClauses"}, {"finallyBody"}>>,
   break |-> <<{}, {}>>, continue |-> <<{}, {}>>, switch |-> <<{"subject", "cases"}, {}>>]
Nodes(writes, reads, some) ==
  [k \in DOMAIN writes |-> Codec(writes[k][1] \cup {"kind", "fidelity"}, writes[k][2] \cup some,
                                 reads[k][1] \cup {"kind"}, reads[k][2] \cup some \cup {"fidelity"})]

FieldCodec == [TranspileField |-> Codec({"type", "name", "fidelity"}, Origin \cup {"init"},
                                        {"type", "name"}, Origin \cup {"init", "fidelity"})]
TranspileTypeCodec ==
  LET some == Origin \cup {"isExternal", "externalOwner", "baseClasses", "baseClassKinds",
                           "templateParams", "unsupported", "initializers"}
  IN [TranspileType |-> Codec({"qualifiedName", "fields", "fidelity"}, some,
                              {"qualifiedName", "fields"}, some \cup {"fidelity"})]
TranspileFunctionCodec ==
  LET some == Origin \cup Resolution \cup {"isExternal", "owningType", "externalOwner",
                "unsupported", "accessModifier", "throwsClause", "templateParams"}
      always == {"qualifiedName", "returnType", "params", "body"}
  IN [TranspileFunction |-> Codec(always \cup {"fidelity"}, some, always, some \cup {"fidelity"})]
ModuleCodec == [TranspileModule |-> Plain({"types", "functions"}, {})]

-----------------------------------------------------------------------------
\* Enumerations: the words written, those the reader compares with, and the one
\* it takes for any other word.
Words(written, compared, otherwise) ==
  [written |-> written, compared |-> compared, otherwise |-> otherwise]
SymbolEnums ==
  [Visibility |-> Words({"public", "protected", "private", "internal", "ignore"},
                        {"public", "protected", "private", "ignore"}, "internal"),
   OwnershipKind |-> Words({"none", "owned", "shared", "weak"}, {"owned", "shared", "weak"}, "none"),
   AccessPattern |-> Words({"none", "streaming", "random", "tiled", "gather_scatter"},
                           {"streaming", "random", "tiled", "gather_scatter"}, "none"),
   PriorityLevel |-> Words({"critical", "high", "normal", "low", "background"},
                           {"critical", "high", "low", "background"}, "normal"),
   Modifier |-> Words({"none", "ref", "ptr"}, {"ref", "ptr"}, "none"),
   Style |-> Words({"arrow", "dotselect", "smartpass", "full"},
                   {"arrow", "dotselect", "smartpass"}, "full"),
   TemplateKind |-> Words({"type", "nontype", "template", "lifetime"},
                          {"nontype", "template", "lifetime"}, "type")]
RequestEnums ==
  [BuildMode |-> Words({"dev", "aggressive"}, {"aggressive"}, "dev"),
   OutputType |-> Words({"exe", "shared", "static"}, {"shared", "static"}, "exe"),
   ObfuscationMode |-> Words({"normal", "salted"}, {"salted"}, "normal"),
   HostLanguage |-> Words({"cpp", "rust", "java", "python", "typescript", "mixed"},
                          {"rust", "java", "python", "typescript", "mixed"}, "cpp")]
Operators == {"add", "sub", "mul", "div", "mod", "eq", "noteq", "less", "greater", "lesseq",
              "greatereq", "and", "or", "bitand", "bitor", "bitxor", "shl"}
Unaries == {"not", "bitnot", "preincrement", "postincrement", "predecrement", "postdecrement"}
ModelEnums ==
  [Fidelity |-> Words({"source", "recovered", "inferred"}, {"recovered", "inferred"}, "source"),
   BinaryOp |-> Words(Operators \cup {"shr"}, Operators, "shr"),
   UnaryOp |-> Words(Unaries \cup {"negate"}, Unaries, "negate"),
   LiteralKind |-> Words({"integer", "float", "boolean", "string"},
                         {"float", "boolean", "string"}, "integer"),
   CaptureMode |-> Words({"by_value", "by_reference"}, {"by_reference"}, "by_value"),
   DecompileLevel |-> Words({"direct", "structured", "idiomatic"},
                            {"structured", "idiomatic"}, "direct")]
ExprKinds == LET kinds == DOMAIN ExprWrites
             IN [ExprKind |-> Words(kinds, kinds \ {"unsupported"}, "unsupported")]
StmtKinds == LET kinds == DOMAIN StmtWrites
             IN [StmtKind |-> Words(kinds, kinds \ {"exprstmt"}, "exprstmt")]

\* Tables of different names, as one.
Joined(tables) ==
  [k \in UNION {DOMAIN t : t \in tables} |-> (CHOOSE t \in tables : k \in DOMAIN t)[k]]
Enums == Joined({SymbolEnums, RequestEnums, ModelEnums, ExprKinds, StmtKinds})
Codecs == Joined(
  {ParallelSections, PassSections, ConfigCodec, RequestCodec, TypeCodec, ParamCodecs,
   FunctionCodec, ClassCodec, ConstraintCodecs, PipelineCodecs, EntryCodecs, TableCodec,
   ModelTypeCodec, ModelTemplateCodecs, Nodes(ExprWrites, ExprReads, Origin \cup Resolution),
   Nodes(StmtWrites, StmtReads, Origin), FieldCodec, TranspileTypeCodec,
   TranspileFunctionCodec, ModuleCodec})

\* FieldsOf that the types have and no writer knows (source locations aside).
Unwritten ==
  [indirectionCfg |-> {"vtableOptimize"}, containmentCfg |-> {"strictIdentity"},
   TypeNode |-> {"assocBindings", "hrtbLifetimes"}, ModelType |-> {"stdlibId", "recordFields"},
   TemplateParamDecl |-> {"extraBounds", "defaultValue"}, VisibilityEntry |-> {"priority"},
   SymbolTable |-> {"debugEntries"}]
Lost(k) == IF k \in DOMAIN Unwritten THEN Unwritten[k] ELSE {}
FieldsOf(k) == (Codecs[k].always) \cup (Codecs[k].some) \cup Lost(k)

\* A field that is written only when another one is set.
GuardOf == [returnParams |-> "isMultiReturn", usedReturns |-> "hasUsedReturnsClause",
          edges |-> "isPipeline", checkModelSha256 |-> "checkModelPath", extraBounds |-> "bound"]
GuardedFields(k) == {f \in DOMAIN GuardOf : f \in Codecs[k].some /\ GuardOf[f] \in Codecs[k].some}

\* What the front end can produce: a guarded field has its guard, and a function is
\* external by its own declaration or by that of the type that owns it.
Legal(k, v) ==
  /\ \A f \in v \cap GuardedFields(k) : GuardOf[f] \in v
  /\ k = "FunctionSymbol" =>
       /\ {"explicitlyExternal", "externalOwner"} \cap v # {} <=> "isExternal" \in v

-----------------------------------------------------------------------------
VARIABLES
  type,   \* the type that is written and read, or an enumeration
  value,  \* its fields that are not the default, or {its word}
  aged,   \* the key an older writer left out or a newer one added, if any
  wire,   \* the document
  got     \* what was read: <<>> yet, or <<"read", the value>> or <<"rejected", {}>>

codecVars == <<type, value, aged, wire, got>>

CodecInit ==
  /\ \/ type \in DOMAIN Codecs /\ value \in UNION {kSubset(n, FieldsOf(type)) : n \in 0..MaxSet}
        /\ Legal(type, value)
     \/ type \in DOMAIN Enums /\ \E w \in Enums[type].written : value = {w}
  /\ aged = "unwritten" /\ wire = <<>> /\ got = <<>>

IsRecord == type \in DOMAIN Codecs

\* to_json(): the keys of a document for the value v.
WrittenKeys(k, v) ==
  (Codecs[k].always) \cup {f \in (Codecs[k].some) \cap v : f \in GuardedFields(k) => GuardOf[f] \in v}

WriteDoc ==
  /\ aged = "unwritten" /\ aged' = "none"
  /\ wire' = IF IsRecord THEN [f \in WrittenKeys(type, value) |-> f \in value]
                         ELSE [f \in value |-> TRUE]
  /\ UNCHANGED <<type, value, got>>

\* The document comes from an older writer, that did not know one of the keys the
\* reader can do without, or from a newer one that writes another key.
AgeDoc ==
  /\ got = <<>> /\ aged = "none" /\ IsRecord
  /\ \/ \E f \in DOMAIN wire \cap (Codecs[type].takes) :
          aged' = f /\ wire' = [g \in DOMAIN wire \ {f} |-> wire[g]]
     \/ aged' = "unknown"
        /\ wire' = [g \in DOMAIN wire \cup {"unknown"} |-> g \in DOMAIN wire => wire[g]]
  /\ UNCHANGED <<type, value, got>>

\* Mutant: the flag of a function is explicit only if the document says so.
MutAbsent(k, f, doc) == FALSE
\* The default for a key that is absent.  Function symbols written before the flag
\* was split take the effective flag for the explicit one.
Absent(k, f, doc) ==
  /\ k = "FunctionSymbol" /\ f = "explicitlyExternal"
  /\ "isExternal" \in DOMAIN doc /\ "externalOwner" \notin DOMAIN doc

\* Objects whose reader refuses a key it does not know.
Strict == {"evidence"}

\* from_json().
ReadRecord(k, doc) ==
  LET c == Codecs[k]
      known == (c.demands) \cup (c.takes)
  IN IF \/ ~(c.demands \subseteq DOMAIN doc)
        \/ k \in Strict /\ ~(DOMAIN doc \subseteq known)
     THEN <<"rejected", {}>>
     ELSE <<"read", {f \in known : IF f \in DOMAIN doc THEN doc[f] ELSE Absent(k, f, doc)}>>

ReadWord(e, word) ==
  IF word \in e.compared THEN word ELSE e.otherwise

ReadDoc ==
  /\ aged # "unwritten" /\ got = <<>>
  /\ got' = IF IsRecord THEN ReadRecord(type, wire)
            ELSE <<"read", {ReadWord(Enums[type], w) : w \in DOMAIN wire}>>
  /\ UNCHANGED <<type, value, aged, wire>>

CodecNext == WriteDoc \/ AgeDoc \/ ReadDoc
CodecSpec == CodecInit /\ [][CodecNext]_codecVars

-----------------------------------------------------------------------------
\* Every reader understands its own writer and the older ones: what comes back is
\* what was written, but for fields that no writer knows.  Without one optional key
\* the document is still read and only that field falls back, or with it the origin
\* of an external function; an unknown key is refused only where the protocol is
\* strict (SymbolTableJson.cpp:289-371, BackendProtocol.cpp:434-449).
Understood ==
  got # <<>> =>
    IF aged = "unknown" /\ type \in Strict THEN got[1] = "rejected"
    ELSE /\ got[1] = "read"
         /\ LET kept == IF IsRecord THEN value \ Lost(type) ELSE value
                changed == (kept \ got[2]) \cup (got[2] \ kept)
                legacy == type = "FunctionSymbol" /\ "externalOwner" \notin value
            IN \/ changed \subseteq {aged} \ (IF legacy THEN {"explicitlyExternal"} ELSE {})
               \/ aged = "externalOwner" /\ changed = {aged, "explicitlyExternal"}

=============================================================================
