SPECIFICATION LinkFairSpec
CONSTANTS
  D = 1
  F = 1
  B = 1
  RestartFactor = 1
  MaxBlock = 4
  MaxFlushed = 12
  MaxRestarts = 6
  Sessions = {s1, s2}
  NumInterfaces = 2
  FateChoices <- LosslessLink
  MaxLag = 2
  MaxCorrupt = 0
INVARIANTS
  NoFalseRestart
PROPERTIES
  RestartRecovered
CHECK_DEADLOCK FALSE
