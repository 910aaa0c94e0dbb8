CONSTANTS
  Captures <- MCCaptures
  ResetTimes = {0, 9}
  Files = {"a", "b"}
  NtpSlack = 0
  ToSlack = 1
  Spb = 2
  Second = 4
  AbsIsInt = FALSE
  ReadDelay = 1
  MaxDrift = 1
  MaxPrograms = 3
  MaxTime = 6
SPECIFICATION FairSpec
INVARIANTS TypeOK TakenOnHostTime FileIsThisCapture
PROPERTIES CaptureEnds
CHECK_DEADLOCK FALSE
