CONSTANTS
  Jobs = {"j1", "j2"}
  Proxies = {p1, p2}
  NoProxy = NoProxy
  MaxAttempts <- MCMaxAttempts
  Base = 1
  Cap = 2
  MaxScore = 4
  Decay = 3
  Recover = 1
  MaxTime = 1
  MaxEvents = 1
SPECIFICATION Spec
CHECK_DEADLOCK FALSE
INVARIANTS
  TotalsMatchTheReports
  SerialReportsAreExact
PROPERTY ReportsGetTheirTurn
