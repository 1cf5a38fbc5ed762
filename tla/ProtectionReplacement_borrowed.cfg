SPECIFICATION Spec
CONSTANTS
  Runs = {"be", "a1", "a2"}
  BreakEven = {"be"}
  Closers = {}
  CloseKey <- MCOneKey
  Plan <- MCStops
  Prices = {1, 2}
  Entry = 2
  MaxOrders = 4
  MaxFills = 0
  MaxCrashes = 1
  MaxFaults = 1
INVARIANTS
  NeverNaked
CONSTRAINT
  Guide
CHECK_DEADLOCK FALSE
