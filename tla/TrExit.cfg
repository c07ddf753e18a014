\* One thread ends while others take heaps from the pool's list.
SPECIFICATION Spec
CONSTANTS
  t1 = t1
  t2 = t2
  t3 = t3
  Threads = {t1, t2, t3}
  Classes = {1}
  cls2size <- OneSize
  CHUNK_DATA_SIZE = 1
  WEAR_LIMIT = 2
  CHUNKS = 2
  ALLOC_UNIT = 1
  HEAPS = 2
  LHEAP_UNIT = 1
  HELD_LIMIT = 4
SYMMETRY ThreadSymmetry
INVARIANTS
  HeapsUnshared
CHECK_DEADLOCK FALSE
