SPECIFICATION Spec
CONSTANTS
  p1 = p1  p2 = p2  q1 = q1  q2 = q2  a = a  b = b  old = old
  e1 = e1  e2 = e2  e3 = e3  c1 = c1  c2 = c2
  NoEvent = NoEvent  NoCorr = NoCorr  NoPod = NoPod
  Pods = {p1}
  Partitions = {q1}
  Events = {e1, e2, e3}
  Corr = {c1, c2}
  CorrOf <- SharedId
  PartitionOf <- OnePartition
  Sources = {a, b, old}
  Keyed = {a, b, old}
  DependsOn <- TwoDeps
  NumOutputs = 2
  MaxRecords = 3
  MaxDisruptions = 3
SYMMETRY SameRoles
INVARIANT TypeOK
INVARIANT NothingLost
INVARIANT JoinsComplete
INVARIANT NoStuckJoin
INVARIANT BufferMatchesChangelog
PROPERTY TombstonesArePublished
PROPERTY ImplementsAtLeastOnce
CHECK_DEADLOCK FALSE
