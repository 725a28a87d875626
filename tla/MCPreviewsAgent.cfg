SPECIFICATION Spec
CONSTANTS
  PRs = {1}
  Slots = {1, 2}
  NULL = NULL
  MaxPreviews = 1
  MaxApps = 1
  MaxPushes = 2
  MaxCrashes = 1
INVARIANTS StrandedOnlyLate
CHECK_DEADLOCK FALSE
