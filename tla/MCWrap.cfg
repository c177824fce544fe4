SPECIFICATION Spec
CONSTANTS
  t1 = t1
  t2 = t2
  t3 = t3
  i0 = i0
  b0 = b0
  b1 = b1
  Set = {i0}
  Depth = 2
  Tag = {t1}
  Words = 2
  Lane = {b0, b1}
  Byte = {0, 1}
  Loads <- WrapLoads
  Stores <- WrapStores
  Fences = TRUE
  Fetches = FALSE
  Handshake = TRUE
  Drained = TRUE
INVARIANT BeatsAligned
INVARIANT FenceFlushes
INVARIANT DrainsOldest
INVARIANT RingInv
INVARIANT ForwardsNewest
PROPERTY StoresInOrder
PROPERTY ImplementsMemory
PROPERTY ImplementsQueue
