SPECIFICATION FairSpec
CONSTANTS
  Owner = owner
  Client = client
  Overlap = TRUE
  MaxStarts = 1
  MaxQueries = 1
  ReplyKinds = {"ok"}
  ServerIds = {}
  Stalls = TRUE
  Descendants = TRUE
PROPERTY CallsReturn
CHECK_DEADLOCK FALSE
