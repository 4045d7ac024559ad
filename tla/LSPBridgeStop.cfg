SPECIFICATION FairSpec
CONSTANTS
  Owner = owner
  Client = client
  Overlap = FALSE
  MaxStarts = 1
  MaxQueries = 1
  ReplyKinds = {"ok"}
  ServerIds = {}
  Stalls = TRUE
  Descendants = FALSE
PROPERTY StopEnds
CHECK_DEADLOCK FALSE
