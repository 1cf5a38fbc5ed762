CONSTANTS
  NumMsgs = 2
  ChatOf <- OneChat
  Cap = 2
  Lease = 1
  MaxAttempts = 2
  RetryBase = 1
  RetryMax = 1
  MaxAge = 1
  Refused = {}
  MaxStops = 1
  MaxSlow = 1
  MaxRearms = 1
  MaxTroubles = 2
SPECIFICATION FairSpec
CHECK_DEADLOCK FALSE
INVARIANTS TypeOK ClaimHeld FailedIsEarned FailedSaysSo
PROPERTIES ChatOrder JobsKept JobsSettle
