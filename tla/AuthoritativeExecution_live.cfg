CONSTANTS
  NumProcs = 2
  MaxGens = 2
  MaxCrashes = 1
  MaxLapses = 0
  MaxFaults = 0
  MaxContext = 1
  MaxRearms = 0
SPECIFICATION FairSpec
CHECK_DEADLOCK FALSE
PROPERTIES AttemptsResolve
