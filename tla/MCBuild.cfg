SPECIFICATION Spec
CONSTANTS
  MaxTopoFiles = 3
  BackendTypes = {"cpp17::int32_t"}
  TypeLayers <- Layers
  Units <- Signatures
  MaxDeclared = 3
  MaxFields = 2
  DfsLimit = 2
  MaxBlockCalls = 3
  FlowSize = 3
  BlockFlows <- ThreeNodes
  MaxMarks = 2
  Builders = {b1, b2}
  Inputs = {src}
  Output = out
  Contents = {x}
  MaxRuns = 3
  MaxEdits = 2
  MaxDepth = 1
  Verifiers = {v1, v2}
  Keys = {good, forged}
  Genuine = {good}
  Broken = Broken
  MaxAge = 2
  MaxTime = 4
  MaxChanges = 2
  TopoFiles = {p, q}
  Toml = toml
  Configs = {dev, rel}
  MaxTouch = 4
  MaxBuilds = 3
  MaxSet = 2
  MaxBody = 3
INVARIANTS ModulesAreOrdered CallsAreVisible TypesAreKnown LoopsAreReported StagesAgree ReadIsDelivered BoundaryIsClosed ChainHolds EvidenceIsTrue AcceptedIsChecked ResultsAreFresh Understood Preserved Accounted
CHECK_DEADLOCK FALSE
