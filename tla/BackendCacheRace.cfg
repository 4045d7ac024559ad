SPECIFICATION CacheSpec
CONSTANTS
  Procs = {p1, p2}
  Versions = {v1, v2}
  NoVersion = NoVersion
  Races = TRUE
  CrossDevice = FALSE
  CopyFails = FALSE
  Crashes = FALSE
  MaxCmds = 3
PROPERTY Immutable
CHECK_DEADLOCK FALSE
