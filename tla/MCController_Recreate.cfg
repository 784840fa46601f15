SPECIFICATION Spec
CONSTANTS
  a = a  b = b  c = c
  Names = {a, c}
  Designs <- ChainOnly
  MaxCreates = 2
  MaxEdits = 0
  MaxFaults = 0
INVARIANT SettledMeansApplied
CHECK_DEADLOCK FALSE
