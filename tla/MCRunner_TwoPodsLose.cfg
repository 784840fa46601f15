SPECIFICATION Spec
CONSTANTS
  p1 = p1  p2 = p2  q1 = q1  q2 = q2  a = a  b = b  old = old
  e1 = e1  e2 = e2  e3 = e3  c1 = c1  c2 = c2
  NoEvent = NoEvent  NoCorr = NoCorr  NoPod = NoPod
  Pods = {p1, p2}
  Partitions = {q1}
  Events = {e1}
  Corr = {c1}
  CorrOf <- OneEvent
  PartitionOf <- OnePartition
  Sources = {a, b}
  Keyed = {a, b}
  DependsOn <- TwoDeps
  NumOutputs = 1
  MaxRecords = 2
  MaxDisruptions = 2
INVARIANT NothingLost
CHECK_DEADLOCK FALSE
