SPECIFICATION FairSpec
CONSTANTS
  Clients = {c1}
  Streams = {1, 3}
  MaxChunks = 2
  Parts = 2
  Window = 1
  NetCap = 2
  MayLeave = TRUE
  None = None
INVARIANTS BodyIntact BufferOutlivesReads
PROPERTIES AnsweredWhole ServerMovesOn
CHECK_DEADLOCK FALSE
