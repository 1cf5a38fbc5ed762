CONSTANTS
  NumProcs = 2
  MaxGens = 3
  MaxCrashes = 0
  MaxLapses = 0
  MaxFaults = 0
  MaxContext = 1
  MaxRearms = 0
SPECIFICATION Spec
CHECK_DEADLOCK FALSE
PROPERTIES NoReplay
