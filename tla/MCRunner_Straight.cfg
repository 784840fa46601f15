SPECIFICATION FairSpec
CONSTANTS
  p1 = p1  p2 = p2  q1 = q1  q2 = q2  a = a  b = b  old = old
  e1 = e1  e2 = e2  e3 = e3  c1 = c1  c2 = c2
  NoEvent = NoEvent  NoCorr = NoCorr  NoPod = NoPod
  Pods = {p1, p2}
  Partitions = {q1}
  Events = {e1, e2}
  Corr = {c1, c2}
  CorrOf <- OwnIds
  PartitionOf <- OnePartition
  Sources = {a}
  Keyed = {a}
  DependsOn <- OneDep
  NumOutputs = 2
  MaxRecords = 2
  MaxDisruptions = 2
INVARIANT NothingLost
PROPERTY EveryTaskPublished
PROPERTY ImplementsAtLeastOnce
CHECK_DEADLOCK FALSE
