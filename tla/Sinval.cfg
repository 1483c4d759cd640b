SPECIFICATION Spec
CONSTANTS
  Procs = {1, 2}
  Writers = {1, 2}
  Readers = {1, 2}
  Leavers = {2}
  MAXNUMMESSAGES = 4
  MSGNUMWRAPAROUND = 4
  CLEANUP_MIN = 2
  CLEANUP_QUANTUM = 1
  SIG_THRESHOLD = 2
  WRITE_QUANTUM = 2
  MAXINVALMSGS = 2
  MaxMsgs = 7
  None = None
VIEW View
INVARIANTS CacheFresh RingIntact
