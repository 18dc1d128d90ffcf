\* SyncWaits
SPECIFICATION Spec
CONSTANTS
  c1 = c1
  c2 = c2
  t1 = t1
  t2 = t2
  t3 = t3
  NoTask = NoTask
  NoThread = NoThread
  Clients = {c1, c2}
  Tasks = {t1, t2, t3}
  Script <- TwoScript
  Slots = 2
  InitialSize = 1
  MinSize = 1
  Advice = {"create"}
\* The threads of the program, or of the pool, have nothing left to do.
CHECK_DEADLOCK FALSE
INVARIANT SyncWaits
