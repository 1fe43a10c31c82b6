SPECIFICATION Spec
CONSTANTS
  Maps <- MCMaps
  RightInputs = 2
  Height = 2
  Width = 4
  DIVIDE_ROUND = 0
INVARIANTS
  CasesFitTheirMaps
CHECK_DEADLOCK FALSE
