CONSTANTS
  SetupTime = 5
  Poll = 2
  Delay = 1
SPECIFICATION Spec
INVARIANTS TypeOK BoundedWait EarlyEndIsLock
CHECK_DEADLOCK FALSE
