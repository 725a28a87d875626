SPECIFICATION HubSpec
CONSTANTS
  PRs = {1, 2}
  Slots = {1, 2}
  NULL = NULL
  MaxPreviews = 2
  MaxApps = 2
  MaxPushes = 3
  MaxCrashes = 1
INVARIANTS PreviewInv
PROPERTIES EveryPreviewEnds
CHECK_DEADLOCK FALSE
