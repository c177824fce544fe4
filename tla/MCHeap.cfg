SPECIFICATION Spec
CONSTANTS
  Start = 1
  Limit = 17
  Requests = {0, 1, 2, 4, 5}
  Aligns = {0, 1, 3, 4}
  Page = 4
INVARIANTS TypeOK HeapTiled FreeListOrdered NullMeansFull AlignedOrNull InfoAgrees
PROPERTY ImplementsHeap
