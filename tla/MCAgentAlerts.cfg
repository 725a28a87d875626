SPECIFICATION FairSpec
CONSTANTS
  Rules = {"cpu"}
  Slots = {1, 2}
  NULL = NULL
  OffAfter = 1
  MuteFor = 1
  MaxChanges = 1
INVARIANTS AlertInv
PROPERTIES AlertsSettle SilenceTold
