SPECIFICATION AnySpec
CONSTANTS
  t1 = t1
  t2 = t2
  Threads <- TwoThreads
  NUM_COMPLETION_LISTS = 1
  MaxCounter = 5
  MaxSpan = 2
  Holders = {1, 2}
  Allocators = {1}
  MaxObjects = 2
  MaxSlabs = 2
  MaxRefs = 2
  MaxPrivate = 2
  MaxPrivateSlabs = 2
SYMMETRY Symmetry
INVARIANTS Exact SegmentsSound StaleOnce PoolsExact
PROPERTIES Promised
CHECK_DEADLOCK FALSE
