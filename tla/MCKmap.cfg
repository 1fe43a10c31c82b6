SPECIFICATION Spec
CONSTANTS
  Maps <- MCMaps
  RightInputs = 2
  Height = 2
  Width = 4
  DIVIDE_ROUND = 1
INVARIANTS
  TypeOK
  LocallyOptimal
  MethodKeepsFunction
  NoConstantUsed
  ExactIsFound
PROPERTIES
  ErrorsDecrease
  BestKept
  Returns
CHECK_DEADLOCK FALSE
