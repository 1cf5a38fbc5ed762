CONSTANTS
  Workers = {w1}
  Clients = {q1}
  Types = {close, entry}
  EntryTypes = {entry}
  Keys = {}
  Reqs = {r1}
  Frozen = TRUE
  MaxCmds = 2
  Lease = 1
  MaxClock = 2
  MaxStops = 2
  MaxReports = 1
  None = None
SPECIFICATION FairSpec
CHECK_DEADLOCK FALSE
INVARIANTS NoLateWriter
PROPERTIES CallsFiled PendingServed ExecutingResolves
