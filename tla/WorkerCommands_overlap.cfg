CONSTANTS
  Workers = {w1, w2}
  Clients = {q1}
  Types = {close}
  EntryTypes = {}
  Keys = {k1}
  Reqs = {r1}
  Frozen = FALSE
  MaxCmds = 2
  Lease = 1
  MaxClock = 2
  MaxStops = 1
  MaxReports = 1
  None = None
SPECIFICATION Spec
CHECK_DEADLOCK FALSE
INVARIANTS TypeOK AtMostOneRun KeyedOnce OneStory
SYMMETRY Symmetry
VIEW NoAudit
