SPECIFICATION FairSpec
CONSTANTS
  Envelopes = {e1, h1}
  Anonymous = {h1}
  HeaderOnly = {h1}
  Modes = {"local", "queue"}
  MaxFiles = 2
  Batch = 1
  MaxArrivals = 3
  MaxRows = 2
  MaxChanges = 1
  MaxRestarts = 1
INVARIANTS SpoolInv SpoolOrder AnonymousKept StoredOnce
PROPERTIES SpoolDrained
CHECK_DEADLOCK FALSE
