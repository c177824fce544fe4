SPECIFICATION FairSpec
CONSTANTS
  t1 = t1
  t2 = t2
  t3 = t3
  i0 = i0
  b0 = b0
  b1 = b1
  Set = {i0}
  Depth = 1
  Tag = {t1, t2, t3}
  Words = 1
  Lane = {b0}
  Byte = {0, 1}
  Loads <- EvictLoads
  Stores <- EvictStores
  Fences = TRUE
  Fetches = TRUE
  Handshake = TRUE
  Drained = TRUE
INVARIANT TypeOK
INVARIANT CacheCoherent
INVARIANT NoDuplicateLine
INVARIANT BurstHasOwner
PROPERTY ImplementsMemory
PROPERTY RequestAnswered
PROPERTY FetchGranted
PROPERTY StoresDrain
