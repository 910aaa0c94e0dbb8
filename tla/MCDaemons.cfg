CONSTANTS
  Requests = {r1, r2}
  NoAnswer = NoAnswer
  N_RETRY_ATTEMPTS = 1
  MaxLosses = 1
  MaxMessages = 3
SPECIFICATION BothFair
INVARIANTS TypeOK
PROPERTIES ServesFromEndToEnd AnsweredOrEnded
CHECK_DEADLOCK FALSE
