CONSTANTS
  N_RETRY_ATTEMPTS = 2
  MaxLosses = 1
  MaxMessages = 1
SPECIFICATION Spec
INVARIANTS OutageSurvived
CHECK_DEADLOCK FALSE
