SPECIFICATION Spec
CONSTANTS
  Owner = owner
  Control = {owner, other}
  Reader = reader
  MaxStarts = 2
  MaxCalls = 2
  PipeCap = 1
  Codes = {0, 5}
  Descendants = FALSE
  Free = Free
INVARIANT ZeroReadMeansEof
CHECK_DEADLOCK FALSE
