SPECIFICATION Spec
CONSTANTS
  Owner = owner
  Client = client
  Overlap = FALSE
  MaxStarts = 1
  MaxQueries = 1
  ReplyKinds = {"ok"}
  ServerIds = {2}
  Stalls = FALSE
  Descendants = FALSE
INVARIANT ReplyIsNoRequest
CHECK_DEADLOCK FALSE
