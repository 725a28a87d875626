SPECIFICATION FairSpec
CONSTANTS
  Ids = {1, 2}
  MaxReleases = 2
  Deliveries = {d1}
  Callers = {c1, c2}
  NULL = NULL
  MaxRestarts = 1
INVARIANTS TypeOK OneLive ReleaseTellsOutcome ReleaseInv
PROPERTIES OutcomeReachesRelease
CHECK_DEADLOCK FALSE
