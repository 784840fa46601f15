SPECIFICATION FairSpec
CONSTANTS
  a = a  b = b  c = c
  Names = {a, b, c}
  Designs <- AllDesigns
  MaxCreates = 1
  MaxEdits = 2
  MaxFaults = 3
INVARIANT TypeOK
INVARIANT TopicsBeforeWorkers
INVARIANT SettledMeansApplied
PROPERTY EventuallyApplied
CHECK_DEADLOCK FALSE
