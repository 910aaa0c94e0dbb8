CONSTANTS
  Second = 20
  NtpSlack = 4
  EdgeSlack = 1
  Rest = 50
  MaxPhase = 3
  Delay = 1
  FarOffsets <- FarAway
  MaxTime = 300
SPECIFICATION FairSpec
INVARIANTS TypeOK DoneIsClose AttemptOutcome TwoAttemptsSuffice
PROPERTIES Synchronises
CHECK_DEADLOCK FALSE
