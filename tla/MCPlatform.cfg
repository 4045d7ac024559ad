SPECIFICATION MCSpec
CONSTANTS
  Procs = {p1, p2}
  Versions = {v1, v2, v3}
  NoVersion = NoVersion
  Races = FALSE
  CrossDevice = TRUE
  CopyFails = TRUE
  Crashes = TRUE
  MaxCmds = 5
  MaxStdout = 3
  MaxStderr = 1
  BufSize = 1
  PipeBytes = 2
  MaxWrites = 2
  Statuses = {7}
  CallsFail = TRUE
  Sources = {A, B}
INVARIANTS CacheClean NoneLeft ResultContract SourcesComeBack
PROPERTIES Immutable StoreSpec Returns
CHECK_DEADLOCK FALSE
