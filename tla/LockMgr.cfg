SPECIFICATION Spec
CONSTANTS
  Procs = {1, 2, 3}
  Rels = {r1, r2}
  r1 = r1
  r2 = r2
  Modes = {1, 8}
  Plans <- AllPlans
  FpSlots = 1
  None = None
VIEW View
INVARIANTS ClientExclusion TableExact LocalMirrors NoMissedGrant CycleWillBeChecked
