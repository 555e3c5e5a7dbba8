CONSTANTS
  Procs = {w1, w2, w3}
  Threshold = 2
  Timeout = 1
  MaxFaults = 1
SPECIFICATION BreakerSpec
INVARIANT KeysHaveLifetime
PROPERTY BreakerRecovers
