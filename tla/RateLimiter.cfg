CONSTANTS
  Keys = {"key", "app", "dom"}
  Window <- MCWindow
  Limit <- MCLimit
  Reqs = {"f1", "b1", "b2"}
  Plan <- MCPlan
  Rands = {0}
  Skew = 1
  MaxDelay = 1
  ExpirySlack = 1
  MaxTime = 4
  MaxOutages = 1
SPECIFICATION Spec
CHECK_DEADLOCK FALSE
INVARIANT WindowHolds
PROPERTY RetryAfterIsEnough
