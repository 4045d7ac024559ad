SPECIFICATION FairSpec
CONSTANTS
  Names = {a, b, c, t}
  TypeNames = {t}
  Declared = {a, b, c}
  EdgeIds = {1, 2, 3, 4}
  MaxNodes = 3
  Functions <- TwoNamespaces
  Pipelines <- NestedPipeline
  Declarations = {3, 4, Undeclared}
  Undeclared = Undeclared
  MaxCalls = 3
  Types = {A, B}
  FieldNames = {x, y, z}
  MaxFields = 3
  Corners <- EachCorner
  MaxTokens = 4
  MaxErrors = 20
  MaxDepth = 3
  MaxText = 4
  MaxParams = 3
INVARIANTS CyclesAreFound OrderIsSound PrioritiesAreSound MatchIsSound TextIsTiled ParserIsSound
PROPERTY PassesEnd
CHECK_DEADLOCK FALSE
