\* Two threads that log for the first time at once.
SPECIFICATION Spec
CONSTANTS
  Threads = {t1, t2}
  Stamps = {1, 2}
  CALLS = 2
INVARIANTS
  Recorded
CHECK_DEADLOCK FALSE
