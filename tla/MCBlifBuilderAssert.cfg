SPECIFICATION Spec
CONSTANT NumInputs = 2
INVARIANT DenotesFunction
CHECK_DEADLOCK FALSE
