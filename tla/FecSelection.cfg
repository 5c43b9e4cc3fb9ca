SPECIFICATION FairSpec
CONSTANTS
  D = 4
  F = 3
INVARIANTS
  TypeOK
  ReduceAssertion
  RepairComplete
  MissingHasPriority
  SelectionMatches
PROPERTY Terminates
CHECK_DEADLOCK FALSE
