SPECIFICATION Spec
CONSTANTS
  Owner = owner
  Client = client
  Overlap = FALSE
  MaxStarts = 2
  MaxQueries = 1
  ReplyKinds = {"ok"}
  ServerIds = {2}
  Stalls = TRUE
  Descendants = TRUE
INVARIANTS ReaderIsHeld OwnReply
CHECK_DEADLOCK FALSE
