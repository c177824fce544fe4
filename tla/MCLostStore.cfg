SPECIFICATION Spec
CONSTANTS
  t1 = t1
  t2 = t2
  t3 = t3
  i0 = i0
  b0 = b0
  b1 = b1
  Set = {i0}
  Depth = 2
  Tag = {t1}
  Words = 2
  Lane = {b0}
  Byte = {0, 1}
  Loads <- WrapLoads
  Stores <- WrapStores
  Fences = FALSE
  Fetches = FALSE
  Handshake = FALSE
  Drained = TRUE
PROPERTY AnsweredStoreIsPushed
