CONSTANTS
  NumProcs = 2
  MaxGens = 2
  MaxCrashes = 1
  MaxLapses = 1
  MaxFaults = 1
  MaxContext = 0
  MaxRearms = 1
SPECIFICATION Spec
VIEW NoContext
CHECK_DEADLOCK FALSE
INVARIANTS TypeOK OwnershipAgrees OutcomeTruthful WritesAreFiled ExecutedOnce
PROPERTIES RefinesFence CallsFiled
