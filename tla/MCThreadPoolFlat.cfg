\* One thread spawns, in a pool that grows.
SPECIFICATION FairSpec
CONSTANTS
  c1 = c1
  c2 = c2
  t1 = t1
  t2 = t2
  t3 = t3
  NoTask = NoTask
  NoThread = NoThread
  Clients = {c1}
  Tasks = {t1, t2, t3}
  Script <- FlatScript
  Slots = 3
  InitialSize = 1
  MinSize = 2
  Advice = {"nothing", "create"}
\* The threads of the program, or of the pool, have nothing left to do.
CHECK_DEADLOCK FALSE
PROPERTIES AllDone ImplementsTaskPool
