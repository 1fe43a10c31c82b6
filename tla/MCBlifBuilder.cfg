SPECIFICATION Spec
CONSTANT NumInputs = 4
INVARIANTS
  TypeOK
  BodyClosed
  DenotesFunctionUnlessMixed
CHECK_DEADLOCK FALSE
