SPECIFICATION FairSpec
CONSTANTS
  Keys = {c1, c2}
  States = {s1, s2}
  Tombstone = Tombstone  Unreadable = Unreadable  NoJoin = NoJoin
  MaxRecords = 4
  MaxRestarts = 1
INVARIANT TypeOK
INVARIANT HydratedIsCurrent
PROPERTY HydrationEnds
CHECK_DEADLOCK FALSE
