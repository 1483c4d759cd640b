SPECIFICATION Spec
CONSTANTS
  MaxXid = 4
  XactsPerPage = 2
  Sessions = {1, 2, 3}
  Dummies = {4}
  MaxCachedSubxids = 1
  MaxActive = 1
  MaxRegistered = 2
  MaxDepth = 3
  Plans <- AllPlans
INVARIANTS SnapshotFresh HorizonSafe ToldTruth SnapshotsOrdered RunningIsListed TreesWhole
PROPERTIES SnapshotStable FinalStays
