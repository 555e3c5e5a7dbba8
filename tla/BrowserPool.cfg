SPECIFICATION Spec
CONSTANTS
  Jobs = {j1, j2, j3}
  MAX_CONCURRENT_BROWSERS = 2
  MAX_CONCURRENT_CAMOUFOX = 1
  MaxCrashes = 1
  MaxBreaks = 1
CHECK_DEADLOCK FALSE
INVARIANTS
  ResourcesBounded
  LeftoversExplained
  UnharmedJobsSucceed
PROPERTY JobsEnd
