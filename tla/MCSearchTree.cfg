SPECIFICATION Spec
CONSTANTS
  InitFunctions <- MCFunctions
  Searches <- MCSearches
  WIDTH_PRE_LEVEL = 3
  DONTCAREBOND = 2
INVARIANTS
  TypeOK
  SpacesKeepTheirFunctions
  AnswerIsDecomposition
  FullFindsMinimum
