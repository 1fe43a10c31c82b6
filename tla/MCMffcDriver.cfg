SPECIFICATION Spec
CONSTANTS
  Circuits <- MCCircuits
  Answers <- MCAnswers
  SimRound = 8
  Draws <- MCDraws
  Tolerance = 2
  Rounds = 3
  SizeMin = 3
  SizeMax = 20
  SelectMin = 3
  SelectMax = 8
INVARIANTS
  TypeOK
  ErrorWithinEstimate
  WithinTolerance
CHECK_DEADLOCK FALSE
