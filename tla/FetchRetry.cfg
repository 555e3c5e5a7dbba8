CONSTANTS
  d1 = d1
  d2 = d2
  r1 = r1
  Proxies = {d1, d2, r1}
  ProxyTypeOf <- MCProxyTypeOf
  NoProxy = NoProxy
  Reasons = {"captcha", "ip_ban"}
  Calls <- MCCalls
  MaxAttempts = 6
  AttemptsPerTier = 2
SPECIFICATION Spec
CHECK_DEADLOCK FALSE
INVARIANTS
  BurnedProxyNotReused
  PremiumUseExplained
  EveryRungIsPaidFor
  BlockedOnlyWhenSpent
  PoolErrorIsAccurate
PROPERTY CallTerminates
