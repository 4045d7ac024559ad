------------------------------- MODULE MCBuild -------------------------------
(***************************************************************************)
(* What a build reads, checks and leaves on the disk, for TLC: the imports *)
(* between source files, the rules for types, their cycles, blocks and     *)
(* external types; the evidence of its commands, the cache of signature    *)
(* checks, the cache of front-end results, and the JSON documents between  *)
(* its processes; and the two halves of transpilation.  A behaviour runs   *)
(* one of them; the state of the others is kept at Idle values.            *)
(***************************************************************************)
EXTENDS Imports, TypeRules, OwnershipLoops, BlockRules, ExternalTypes,
        ExecutionEvidence, AttestationCache, IncrementalCache, WireCodec,
        ModelOptimizer, TranspileDriver

(* Pipelines of three nodes: who feeds whom, and what functions return and take. *)
Producers ==
  {Producer(FALSE, <<NamedField("r", t)>>, NoCeiling) : t \in {"A", "B"}}
  \cup {Producer(TRUE, <<NamedField("x", "A"), NamedField("y", t)>>, c) :
          t \in {"A", "B"}, c \in {NoCeiling, {"x"}}}
Consumers == {<<>>, <<NamedField("x", "A")>>, <<NamedField("w", "A")>>,
              <<NamedField("y", "A"), NamedField("w", "A")>>,
              <<NamedField("x", "A"), NamedField("w", "B")>>}
EdgeLists == {<<<<1, 2>>>>, <<<<1, 2>>, <<2, 3>>>>, <<<<1, 3>>, <<2, 3>>>>,
              <<<<1, 2>>, <<1, 3>>, <<2, 3>>>>, <<<<1, 2>>, <<1, 2>>, <<1, 3>>>>}
ThreeNodes ==
  [edges : EdgeLists, last : {2, 3}, flow : BOOLEAN,
   returns : {<<a, b, Producer(TRUE, <<NamedField("x", "A"), NamedField("y", "B")>>, NoCeiling)>> :
                a, b \in Producers},
   params : {<<<<>>, b, c>> : b, c \in Consumers}]

(* Types of three layers, and units of two functions and two classes of them. *)
Leaf == {Named("T", <<>>), Named("U", <<>>), Named("X", <<>>),
         Std("u8", <<>>), Std("f64", <<>>), Backend("cpp17::int32_t"), Backend("cpp17::Point")}
Composite ==
  {Std(k, args) : k \in {"optional", "array", "u8"}, args \in
     {<<>>, <<Named("U", <<>>)>>, <<Named("X", <<>>), Number(0)>>,
      <<Named("T", <<>>), Number(1)>>,
      <<Number(1), Number(1)>>, <<Std("u8", <<>>), Std("u8", <<>>)>>}}
  \cup {Fields(k, names, types) : k \in {"record", "union"},
          names \in {<<"a", "b">>, <<"a", "a">>},
          types \in {<<Std("u8", <<>>), t>> : t \in Leaf}
                    \cup {<<Named("X", <<>>), Std("u8", <<>>)>>}}
  \cup {Fields("record", <<>>, <<>>), Std("void", <<>>), Std("qualified", <<>>)}
  \cup {Named("C", args) : args \in {<<>>, <<Named("X", <<>>)>>, <<Number(1), Number(1)>>}}
NestedTypes == {Std("slice", <<t>>) : t \in Composite \cup Leaf}
          \cup {Fields("record", <<"a">>, <<t>>) : t \in Composite}
Layers == <<Leaf \cup {Number(0), Number(1)}, Composite, NestedTypes>>
Signatures ==
  {Unit(<<FunctionDecl(o, p, t, FALSE), FunctionDecl(q, <<>>, s, odd)>>,
        <<Class("C", <<"T">>, u), Class("D", <<>>, s)>>, others) :
     o, q \in {"none", "C"}, p \in {<<>>, <<"U">>, <<"U", "U">>},
     t \in Leaf \cup Composite \cup NestedTypes,
     s, u \in {Named("T", <<>>), Named("U", <<>>)}, odd \in BOOLEAN, others \in {{}, {"X"}}}

importIdle ==
  /\ program = <<>> /\ roots = <<>> /\ mark = <<>> /\ stack = <<>> /\ order = <<>>
  /\ failure = "none" /\ cache = <<>> /\ fpc = "idle"
typeIdle ==
  unit = <<>> /\ ypc = "idle" /\ turn = 0 /\ scope = {} /\ faults = {}
loopIdle ==
  /\ graph = <<>> /\ parents = <<>> /\ gpc = "idle" /\ origin = 0 /\ path = <<>>
  /\ visited = {} /\ cycles = {}
blockIdle ==
  /\ block = <<>> /\ kpc = "idle" /\ stages = <<>> /\ nodeTurn = 0 /\ demand = <<>>
  /\ sites = <<>> /\ rejected = {} /\ warned = {}
externalIdle ==
  /\ declaredTypes = <<>> /\ visits = TypePaths /\ classes = NoEntries /\ members = NoEntries
  /\ refusals = {} /\ marks = 0 /\ marked = {}
evidenceIdle ==
  /\ disk = <<>> /\ edits = 0 /\ rpc = <<>> /\ taken = <<>> /\ began = <<>>
  /\ consumed = <<>> /\ wrote = <<>> /\ diags = <<>> /\ twice = <<>> /\ runs = 0
  /\ records = <<>> /\ disked = 0 /\ staging = 0
  /\ vpc = "idle" /\ goal = 0 /\ left = {} /\ start = <<>> /\ integrity = FALSE
attestIdle ==
  /\ inputs = Broken /\ clock = 0 /\ sealed = FALSE /\ changes = 0
  /\ entry = [k \in Keys |-> NoEntry] /\ checked = [k \in Keys |-> {}] /\ apc = <<>>
  /\ key = <<>> /\ bound = <<>> /\ started = <<>>
  /\ verdict = [v \in Verifiers |-> Refused]
incIdle ==
  /\ mtime = <<>> /\ cfg = (CHOOSE c \in Configs : TRUE) /\ touches = 0 /\ builds = 0
  /\ manifest = Missing /\ symbols = Missing /\ visibility = Missing
  /\ bpc = "none" /\ result = Missing /\ cut = FALSE /\ removed = FALSE
codecIdle == type = "none" /\ value = {} /\ aged = "none" /\ wire = <<>> /\ got = <<>>
optIdle == opc = "idle" /\ func = <<>> /\ source = <<>>
driverIdle == tpc = "idle" /\ request = <<>> /\ module = <<>> /\ built = <<>> /\ report = <<>>

frontIdle == importIdle /\ typeIdle /\ loopIdle /\ blockIdle /\ externalIdle
diskIdle == evidenceIdle /\ attestIdle /\ incIdle /\ codecIdle
transpileIdle == optIdle /\ driverIdle

Init ==
  \/ /\ diskIdle /\ transpileIdle
     /\ \/ ImportInit /\ typeIdle /\ loopIdle /\ blockIdle /\ externalIdle
        \/ importIdle /\ TypeInit /\ loopIdle /\ blockIdle /\ externalIdle
        \/ importIdle /\ typeIdle /\ LoopInit /\ blockIdle /\ externalIdle
        \/ importIdle /\ typeIdle /\ loopIdle /\ BlockInit /\ externalIdle
        \/ importIdle /\ typeIdle /\ loopIdle /\ blockIdle /\ ExternalInit
  \/ /\ frontIdle /\ transpileIdle
     /\ \/ EvidenceInit /\ attestIdle /\ incIdle /\ codecIdle
        \/ evidenceIdle /\ AttestInit /\ incIdle /\ codecIdle
        \/ evidenceIdle /\ attestIdle /\ IncInit /\ codecIdle
        \/ evidenceIdle /\ attestIdle /\ incIdle /\ CodecInit
  \/ /\ frontIdle /\ diskIdle
     /\ \/ OptimizerInit /\ driverIdle
        \/ optIdle /\ DriverInit

frontVars == <<importVars, typeVars, loopVars, blockVars, externalVars>>
diskVars == <<evidenceVars, attestVars, incVars, codecVars>>
transpileVars == <<optVars, driverVars>>

Next ==
  \/ /\ fpc # "idle" /\ ImportNext
     /\ UNCHANGED <<typeVars, loopVars, blockVars, externalVars, diskVars, transpileVars>>
  \/ /\ ypc # "idle" /\ TypeNext
     /\ UNCHANGED <<importVars, loopVars, blockVars, externalVars, diskVars, transpileVars>>
  \/ /\ gpc # "idle" /\ LoopNext
     /\ UNCHANGED <<importVars, typeVars, blockVars, externalVars, diskVars, transpileVars>>
  \/ /\ kpc # "idle" /\ BlockNext
     /\ UNCHANGED <<importVars, typeVars, loopVars, externalVars, diskVars, transpileVars>>
  \/ /\ declaredTypes # <<>> /\ ExternalNext
     /\ UNCHANGED <<importVars, typeVars, loopVars, blockVars, diskVars, transpileVars>>
  \/ /\ disk # <<>> /\ EvidenceNext
     /\ UNCHANGED <<frontVars, attestVars, incVars, codecVars, transpileVars>>
  \/ /\ clock # 0 /\ AttestNext
     /\ UNCHANGED <<frontVars, evidenceVars, incVars, codecVars, transpileVars>>
  \/ /\ mtime # <<>> /\ IncNext
     /\ UNCHANGED <<frontVars, evidenceVars, attestVars, codecVars, transpileVars>>
  \/ /\ type # "none" /\ CodecNext
     /\ UNCHANGED <<frontVars, evidenceVars, attestVars, incVars, transpileVars>>
  \/ /\ opc # "idle" /\ OptimizerNext
     /\ UNCHANGED <<frontVars, diskVars, driverVars>>
  \/ /\ tpc # "idle" /\ DriverNext
     /\ UNCHANGED <<frontVars, diskVars, optVars>>

vars == <<frontVars, diskVars, transpileVars>>
Spec == Init /\ [][Next]_vars
=============================================================================
