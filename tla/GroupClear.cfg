SPECIFICATION FairSpec
CONSTANTS
  Procs = {1, 2, 3}
  MaxXid = 3
  MaxStray = 1
  MaxOther = 2
INVARIANTS EndedAtReturn SemaphoreConserved
PROPERTIES EndReturns
