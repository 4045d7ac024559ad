SPECIFICATION Spec
CONSTANTS
  Names = {a, b, c, t}
  TypeNames = {t}
  Declared = {a, b, c}
  EdgeIds = {1}
  MaxNodes = 3
  Functions <- OneNamespace
  Pipelines <- OnePipeline
  Declarations = {3, Undeclared}
  Undeclared = Undeclared
  MaxCalls = 3
  Types = {A, B}
  FieldNames = {x, y, z}
  MaxFields = 1
  Corners <- EachCorner
  MaxTokens = 4
  MaxErrors = 20
  MaxDepth = 3
  MaxText = 4
  MaxParams = 1
INVARIANT InheritedByStages
CHECK_DEADLOCK FALSE
