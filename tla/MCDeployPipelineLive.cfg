SPECIFICATION PFairSpec
CONSTANTS
  Agents = {a1}
  Host = a1
  Kinds = {deploy}
  Deploy = deploy
  Keys = {1}
  NULL = NULL
  AttemptLimits = {1}
  Delays = {0}
  Lease = 1
  MaxJobs = 1
  MaxLag = 1
  MaxLog = 0
  MaxCalls = 1
  Callers = {c1}
  MaxReleases = 1
  MaxRestarts = 1
  MaxCrashes = 1
  MaxLate = 1
PROPERTIES DeployEnds
CHECK_DEADLOCK FALSE
