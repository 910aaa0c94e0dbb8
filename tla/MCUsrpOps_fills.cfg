CONSTANTS
  Requests <- EdgeRequests
  NoRequest = NoRequest
  Antennas = {"RX2", "TX/RX"}
  NtpSlack = 1
  TSlack = 1
  Spb = 2
  Second = 4
  AbsIsInt = FALSE
  ReadDelay = 0
  MaxDrift = 1
  DriftAt <- Always
  FreqStep = 10
  DateStep = 2
  MaxArrivals = 1
  MaxTime = 8
SPECIFICATION Spec
INVARIANTS SavedIsComplete
CHECK_DEADLOCK FALSE
