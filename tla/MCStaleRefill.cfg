SPECIFICATION Spec
CONSTANTS
  t1 = t1
  t2 = t2
  t3 = t3
  i0 = i0
  b0 = b0
  b1 = b1
  Set = {i0}
  Depth = 2
  Tag = {t1}
  Words = 1
  Lane = {b0, b1}
  Byte = {0, 1}
  Loads <- EvictLoads
  Stores <- StaleStores
  Fences = FALSE
  Fetches = FALSE
  Handshake = TRUE
  Drained = FALSE
PROPERTY ReadAfterWrite
