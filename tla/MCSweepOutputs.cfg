SPECIFICATION Spec
CONSTANTS
  Nets <- MCNets
  Match <- MCMatch
  Measured <- MCMeasured
  Tight = 4
  Relaxed = 8
  Rounds = 3
  SizeMin = 2
  SizeMax = 4
  SelectMin = 2
  SelectMax = 3
  BonusNum = 9
  BonusDen = 10
INVARIANT OutputsDriven
CHECK_DEADLOCK FALSE
