SPECIFICATION FairSpec
CONSTANTS
  Agents = {a1}
  Kinds = {deploy}
  Keys = {k1, k2}
  NULL = NULL
  AttemptLimits = {1, 2}
  Delays = {0}
  Lease = 1
  MaxJobs = 1
  MaxLag = 1
  MaxLog = 2
  MaxCalls = 1
INVARIANTS TypeOK LeaseInv NoDoubleExecution LogInAttemptOrder
PROPERTIES UnstartedIsRetried KeepsContract SilentHolderLosesLease
