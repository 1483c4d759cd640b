SPECIFICATION Spec
CONSTANTS
  Slots = {s1, s2}
  Fds = {f1, f2}
  Procs = {p}
  None = None
  TokenMod = 2
  MaxCount = 2
  Threads = {t1, t2}
  Settings <- SpinServers
SYMMETRY Symmetry
INVARIANTS FdParkedLapBlocks
