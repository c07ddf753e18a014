\* One reader.
SPECIFICATION Spec
CONSTANTS
  t1 = t1
  t2 = t2
  Threads = {t1}
  N = 3
INVARIANTS
  Recoverable
  ReadCorrect
CHECK_DEADLOCK FALSE
