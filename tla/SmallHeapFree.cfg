\* One fair thread that frees into a full cache.
SPECIFICATION FairSpec
CONSTANTS
  t1 = t1
  t2 = t2
  Threads = {t1}
  S_POOL_NUM = 2
  PAGE_SIZE = 6
  HEADER_SIZE = 1
  SMALL_GAP = 2
  Sizes = {2}
  bn = 1
  INIT_S_POOL_SPAN_NUM = 1
  MPOOL_PAGES = 3
  HELD_LIMIT = 3
  LOST_LIMIT = 0
PROPERTIES
  FreeReturns
CHECK_DEADLOCK FALSE
