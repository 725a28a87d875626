SPECIFICATION FairSpec
CONSTANTS
  Slots = {1, 2}
  MaxScans = 2
  MaxAttempts = 2
  MaxCrashes = 1
INVARIANTS ScanInv
PROPERTIES VerdictsStand ScanEnds
CHECK_DEADLOCK FALSE
