SPECIFICATION Spec
CONSTANTS
  Record <- LogRecord
  Backends = {1, 2}
  Checkpointer = 7
  BgWriter = 8
  Startup = 9
  Plans <- FailingInsert
  MaxXid = 5
  XactsPerPage = 2
  NumSlots = 2
  None = None
  NoOne = NoOne
INVARIANT AbortedNeverVisible
