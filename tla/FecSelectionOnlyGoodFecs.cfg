SPECIFICATION Spec
CONSTANTS
  D = 2
  F = 2
INVARIANT OnlyGoodFecs
CHECK_DEADLOCK FALSE
