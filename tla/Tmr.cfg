\* One reader.
SPECIFICATION Spec
CONSTANTS
  t1 = t1
  t2 = t2
  Threads = {t1}
  bsize = 2
  Values = {0, 1}
  Zero = 0
INVARIANTS
  Recoverable
  ReadCorrect
CHECK_DEADLOCK FALSE
