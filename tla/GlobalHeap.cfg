\* Large requests of 2, 3 and 4 pages: 4 pages stand for the 257 that no list takes.
SPECIFICATION Spec
CONSTANTS
  t1 = t1
  t2 = t2
  Threads = {t1, t2}
  S_POOL_NUM = 2
  SPAN_CLASS_NUM = 3
  POOL_PAGES = 6
  INIT_S_POOL_SPAN_NUM = 2
  INIT_HEAD_SPAN_NUM = 1
  HEADS_PER_GROW = 1
  LargeIndexes = {1, 2, 3}
  MAP_PAGES = 12
SYMMETRY ThreadSymmetry
INVARIANTS
  TypeOK
  SpansApart
  ReservesApart
  MapCorrect
  OnePlace
  ListedSizes
  SpansAccounted
PROPERTIES
  HeaderStable
  ImplementsPageAllocator
CHECK_DEADLOCK FALSE
