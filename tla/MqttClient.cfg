CONSTANTS
  N_RETRY_ATTEMPTS = 2
  MaxLosses = 2
  MaxMessages = 2
SPECIFICATION FairSpec
INVARIANTS TypeOK ConnectedMeansSubscribed AttemptsBounded OneConnectAtATime
PROPERTIES RestoredOrEnded
CHECK_DEADLOCK FALSE
