CONSTANTS
  Jobs = {"a1", "a2", "b"}
  Url <- MCUrl
  Sha <- MCSha
  MaxArchiving = 2
  MaxRecords = 2
  MaxFaults = 1
  MaxCancels = 1
  MaxStops = 1
SPECIFICATION Spec
CHECK_DEADLOCK FALSE
INVARIANTS
  RowsPointAtTheirOwn
  RevisitHasOriginal
  SerialCallsLoseNothing
PROPERTY ReadsAreStable
