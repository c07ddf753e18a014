\* Three classes (two blocks, one block and none of a page), two threads, two pools.
SPECIFICATION Spec
CONSTANTS
  t1 = t1
  t2 = t2
  Threads = {t1, t2}
  S_POOL_NUM = 2
  PAGE_SIZE = 6
  HEADER_SIZE = 1
  SMALL_GAP = 2
  Sizes = {2, 4, 5}
  bn = 1
  INIT_S_POOL_SPAN_NUM = 1
  MPOOL_PAGES = 3
  HELD_LIMIT = 3
  LOST_LIMIT = 1
SYMMETRY ThreadSymmetry
INVARIANTS
  TypeOK
  BlocksExclusive
  BlocksCurrent
  SpanAccounting
  CacheAccounting
  PoolListsSound
  TargetStable
  NoNeedlessWait
  FallbackInited
PROPERTY ImplementsAllocator
CHECK_DEADLOCK FALSE
