SPECIFICATION PSpec
CONSTANTS
  Agents = {a1}
  Host = a1
  Kinds = {deploy}
  Deploy = deploy
  Keys = {1, 2}
  NULL = NULL
  AttemptLimits = {1}
  Delays = {0}
  Lease = 0
  MaxJobs = 2
  MaxLag = 0
  MaxLog = 0
  MaxCalls = 1
  Callers = {c1}
  MaxReleases = 2
  MaxRestarts = 0
  MaxCrashes = 1
  MaxLate = 1
INVARIANTS PipelineInv PrevKept LiveWasProven LiveIsUp
PROPERTIES KeepsReleases
CHECK_DEADLOCK FALSE
