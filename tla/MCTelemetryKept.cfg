SPECIFICATION Spec
CONSTANTS
  Envelopes = {e1, a1, h1}
  Anonymous = {a1, h1}
  HeaderOnly = {h1}
  Modes = {"queue"}
  MaxFiles = 2
  Batch = 1
  MaxArrivals = 3
  MaxRows = 2
  MaxChanges = 0
  MaxRestarts = 0
INVARIANT AcceptedIsKept
CHECK_DEADLOCK FALSE
