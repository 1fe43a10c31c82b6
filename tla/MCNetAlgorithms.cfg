SPECIFICATION Spec
CONSTANT Circuits <- MCCircuits
INVARIANTS
  TypeOK
  SortedTopologically
  ConesComplete
  ConesMaximal
  DepthsShortest
PROPERTIES
  DepthsDecrease
  Returns
CHECK_DEADLOCK FALSE
