CONSTANTS
  N = 2
  Domains = {d1, d2}
  MaxRetries = 2
  MaxFaults = 1
SPECIFICATION Spec
CHECK_DEADLOCK FALSE
INVARIANTS
  BatchNamesItsJobs
  CallbackTellsTheOutcome
PROPERTIES
  PollsAgree
  BatchSettles
