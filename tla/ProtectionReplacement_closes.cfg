SPECIFICATION Spec
CONSTANTS
  Runs = {}
  BreakEven = {}
  Closers = {"c1", "c2", "c3"}
  CloseKey <- MCSharedKey
  Plan <- MCPlan
  Prices = {1, 2}
  Entry = 2
  MaxOrders = 2
  MaxFills = 1
  MaxCrashes = 1
  MaxFaults = 1
INVARIANTS
  CloseOnce
PROPERTIES
  CallsFiled
CONSTRAINT
  OneTrouble
CHECK_DEADLOCK FALSE
