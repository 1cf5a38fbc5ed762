SPECIFICATION Spec
CONSTANTS
  Runs = {"be", "adj"}
  BreakEven = {"be"}
  Closers = {}
  CloseKey <- MCOneKey
  Plan <- MCPlan
  Prices = {1, 2}
  Entry = 2
  MaxOrders = 5
  MaxFills = 0
  MaxCrashes = 1
  MaxFaults = 1
INVARIANTS
  TypeOK
  StopsKept
  TakeProfitsNeverDouble
  SuccessMeansReplaced
CONSTRAINT
  OneTrouble
CHECK_DEADLOCK FALSE
