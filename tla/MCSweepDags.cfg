SPECIFICATION Spec
CONSTANTS
  Nets <- DagNets
  Match <- DagMatch
  Measured <- DagMeasured
  Tight = 4
  Relaxed = 8
  Rounds = 1
  SizeMin = 2
  SizeMax = 4
  SelectMin = 2
  SelectMax = 3
  BonusNum = 9
  BonusDen = 10
INVARIANTS
  Independent
  FileClosed
  FileAcyclic
CHECK_DEADLOCK FALSE
