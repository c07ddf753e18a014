\* Two threads that end and start again, so that heaps are used a second time.
SPECIFICATION Spec
CONSTANTS
  t1 = t1
  t2 = t2
  t3 = t3
  Threads = {t1, t2}
  Classes = {1, 2}
  cls2size <- TwoSizes
  CHUNK_DATA_SIZE = 2
  WEAR_LIMIT = 2
  CHUNKS = 2
  ALLOC_UNIT = 1
  HEAPS = 2
  LHEAP_UNIT = 1
  HELD_LIMIT = 3
SYMMETRY ThreadSymmetry
INVARIANTS
  TypeOK
  BlocksExclusive
  ChunkAccounting
  HeapsApart
  ForegroundSound
  ListsSound
PROPERTY ImplementsAllocator
CHECK_DEADLOCK FALSE
