CONSTANTS
  NumMsgs = 1
  ChatOf <- OneChat
  Cap = 1
  Lease = 1
  MaxAttempts = 2
  RetryBase = 1
  RetryMax = 1
  MaxAge = 1
  Refused = {}
  MaxStops = 1
  MaxSlow = 0
  MaxRearms = 0
  MaxTroubles = 1
SPECIFICATION Spec
CHECK_DEADLOCK FALSE
INVARIANTS ExpiredNotExecuted
