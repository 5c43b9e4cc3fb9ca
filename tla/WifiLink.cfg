SPECIFICATION LinkSpec
CONSTANTS
  D = 1
  F = 1
  B = 2
  RestartFactor = 1
  MaxBlock = 2
  MaxFlushed = 3
  MaxRestarts = 0
  Sessions = {s1}
  NumInterfaces = 2
  FateChoices <- AnyLink
  MaxLag = 2
  MaxCorrupt = 1
INVARIANTS
  BoundedOvertaking
  LosslessAdapterSuffices
PROPERTIES
  LateCopyMerged
CHECK_DEADLOCK FALSE
