CONSTANTS
  Requests <- MixedRequests
  NoRequest = NoRequest
  Antennas = {"RX2", "TX/RX"}
  NtpSlack = 0
  TSlack = 2
  Spb = 2
  Second = 4
  AbsIsInt = FALSE
  ReadDelay = 1
  MaxDrift = 1
  DriftAt <- Always
  FreqStep = 10
  DateStep = 2
  MaxArrivals = 2
  MaxTime = 9
SPECIFICATION FairSpec
INVARIANTS TypeOK CaptureMatchesRequest NoOrphanFile SavedIfWritten
PROPERTIES AnswersInOrder SavedDataKept RequestFinishes
CHECK_DEADLOCK FALSE
