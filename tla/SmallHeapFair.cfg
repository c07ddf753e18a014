\* Fair threads, a pool for each; pages for every pool's chunk.
SPECIFICATION FairSpec
CONSTANTS
  t1 = t1
  t2 = t2
  Threads = {t1, t2}
  S_POOL_NUM = 2
  PAGE_SIZE = 6
  HEADER_SIZE = 1
  SMALL_GAP = 2
  Sizes = {2}
  bn = 1
  INIT_S_POOL_SPAN_NUM = 1
  MPOOL_PAGES = 6
  HELD_LIMIT = 2
  LOST_LIMIT = 1
PROPERTIES
  LocksReleased
  MallocReturns
CHECK_DEADLOCK FALSE
