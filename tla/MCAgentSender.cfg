SPECIFICATION FairSpec
CONSTANTS
  Samples = {1, 2, 3, 4, 5, 6}
  NULL = NULL
  BufferCap = 3
  PerTick = 2
INVARIANTS SenderInv
PROPERTIES NothingLost DrainsOverLink
