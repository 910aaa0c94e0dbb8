CONSTANTS
  SetupTime = 5
  Poll = 2
  Delay = 0
SPECIFICATION Spec
INVARIANTS TrueMeansLocked
CHECK_DEADLOCK FALSE
