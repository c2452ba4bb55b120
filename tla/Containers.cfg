SPECIFICATION AnySpec
CONSTANTS
  t1 = t1
  t2 = t2
  s1 = s1
  s2 = s2
  s3 = s3
  NoSlab = NoSlab
  Threads <- TwoThreads
  Slabs <- ThreeSlabs
  SLAB_SIZE = 8
  CONTROL_SIZE = 1
  Requests <- SmallAndAligned
  Threshold = 0
  MaxAllocs = 2
  KeySets <- SmallTries
  HashBits = 5
  ROOT_NODES_LOG2 = 1
  NodeBits = 2
  ItemSize = 5
  NodeItemSize = 3
  MaxCopies = 2
  FlatKeys = {1, 2, 3}
  FlatTimelines = 3
  FlatCopies = 2
  DuoLevels = 1
  TriBits = 1
  RootItems = 2
  TreePaths <- NodePaths
  Capacity = 16
  Trees = {1, 2}
  Failing = {1}
  MaxTreeCalls = 5
  w1 = w1
  w2 = w2
  r1 = r1
  r2 = r2
  Writers <- TwoWriters
  Readers <- TwoReaders
  MaxCalls = 4
  Holders = {1, 2}
  Main = 1
  SUBPOOL_SIZE = 1
  MaxSubpools = 2
  MaxPointers = 2
  ArenaWidth = 5
  FullSize = 14
  Granularity = 2
  Sizes = {1, 3, 4}
  Aligns = {1, 4}
INVARIANTS PipeSound TrieExact FlatMapExact TreeSound FixedExact ArenaExact Exclusion
PROPERTIES Recycled
CHECK_DEADLOCK FALSE
