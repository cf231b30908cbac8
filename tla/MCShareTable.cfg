CONSTANTS
  Weight = {2}
  Window = 3
  FirstLimit = 1
  Retain = 1
  Slack = 1
  Margin = 1
  Batch = 1
  MaxId = 3
  MaxInFlight = 2
  MaxNow = 4
SPECIFICATION TableFairSpec
INVARIANTS ScanIsExact
PROPERTIES InFlightRowsAreKept ScanEnds OldRowsGo
CHECK_DEADLOCK FALSE
