SPECIFICATION MCSpec
CONSTANTS
  Owner = owner
  Control = {owner, other}
  Reader = reader
  MaxStarts = 2
  MaxCalls = 2
  PipeCap = 1
  Codes = {5}
  Descendants = TRUE
  Free = Free
  MaxConns = 2
  MaxSignals = 1
  MaxQueries = 2
  RingSize = 1
  PipeFails = TRUE
  VarNames = {u, v}
  MaxRecords = 6
INVARIANTS ExitCodeContract NoLostChild HandlerFindsServers HistoryHoldsAnswered AdapterGone FramesPair
PROPERTIES StopReturns HandleSpec StopsWhenAsked
CHECK_DEADLOCK FALSE
