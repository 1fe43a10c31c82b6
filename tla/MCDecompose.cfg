SPECIFICATION Spec
CONSTANTS
  InputSize = 4
  len = 4
  SmallSizes = {3}
  Errors = {0, 1, 2}
  Problems <- MCProblems
  MAX_VALUE = 9
INVARIANTS
  TypeOK
  KeptAreLeast
  AnswerIsBest
PROPERTY ImplementsBestK
