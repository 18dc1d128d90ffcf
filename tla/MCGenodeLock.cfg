\* Three threads and one condition variable.
SPECIFICATION Spec
CONSTANTS
  t1 = t1  t2 = t2  t3 = t3
  Threads = {t1, t2, t3}
  Free = Free
  MaxSignals = 2
SYMMETRY Symmetric
\* A thread that releases deadlocks with one that waits for the lock.
CHECK_DEADLOCK FALSE
INVARIANTS TypeOK MutualExclusion FlagExact
