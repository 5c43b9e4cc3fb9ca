SPECIFICATION Spec
CONSTANTS
  D = 5
  F = 3
  DataValues <- MCDataValues
  Matrices <- MCMatrices
INVARIANTS
  TypeOK
  DecodeRestores
  InverseRight
CHECK_DEADLOCK FALSE
