CONSTANTS
  Reqs = {r1, r2}
  Keyed = {r1, r2}
  NoJob = NoJob
  MaxJobs = 1
  MaxCancels = 1
  MaxAborts = 1
  MaxKills = 1
SPECIFICATION Spec
CHECK_DEADLOCK FALSE
INVARIANTS
  ReplayFindsTheJob
  CallbackMatchesStatus
  UsageBounded
PROPERTIES
  AnsweredKeyStartsNoJob
  JobContract
  JobsFinish
