SPECIFICATION Spec
CONSTANTS
  Ids = {i1, i2}
  SuffixKeys <- SuffixFields
  NodeName = NodeName
  Absent = Absent  Empty = Empty  Obj = Obj  Other = Other
  MaxDeliveries = 2
INVARIANT TypeOK
INVARIANT SurvivesHop
INVARIANT ExplicitIdIsStable
CHECK_DEADLOCK FALSE
