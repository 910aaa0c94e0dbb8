CONSTANTS
  Requests <- EdgeRequests
  NoRequest = NoRequest
  Antennas = {"RX2", "TX/RX"}
  NtpSlack = 1
  TSlack = 2
  Spb = 2
  Second = 4
  AbsIsInt = FALSE
  ReadDelay = 0
  MaxDrift = 2
  DriftAt <- OnlyWaiting
  FreqStep = 10
  DateStep = 2
  MaxArrivals = 1
  MaxTime = 8
SPECIFICATION Spec
INVARIANTS SyncedWhenIssued
CHECK_DEADLOCK FALSE
