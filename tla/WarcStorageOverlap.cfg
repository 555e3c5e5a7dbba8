CONSTANTS
  Jobs = {"a1", "a2", "c"}
  Url <- MCUrl
  Sha <- MCSha
  MaxArchiving = 2
  MaxRecords = 2
  MaxFaults = 0
  MaxCancels = 0
  MaxStops = 0
SPECIFICATION Spec
CHECK_DEADLOCK FALSE
INVARIANT IndexMatchesUpload
