SPECIFICATION Spec
CONSTANTS
  Procs = {1, 2}
  WalWriter = 9
  Plans <- AllPlans
  Locks = {1, 2}
  XLOG_BLCKSZ = 4
  SizeOfXLogShortPHD = 1
  SizeOfXLogLongPHD = 2
  PagesPerSegment = 2
  XLogBuffers = 2
  Starts = {8, 11}
  Horizon = 32
  None = None
INVARIANTS WalIntact NoPanic NoWaitCycle ImagesComplete
PROPERTIES ImplementsWal
