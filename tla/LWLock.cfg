CONSTANTS
  p1 = p1
  p2 = p2
  p3 = p3
  Procs = {p1, p2, p3}
  Vals = {0, 1}
  MaxSimul = 2
  MaxOps = 3
  Locks = {1, 2}
  Entries = {"acquire", "conditional", "acquireOrWait", "waitForVar", "updateVar"}
  Strays <- StrayPosts
SPECIFICATION Spec
SYMMETRY Symmetry
INVARIANTS TypeOK MutualExclusion WordCountsOwners OneLinkOneList NoLostWakeup NoLostUpdate
PROPERTY ImplementsRWLock
