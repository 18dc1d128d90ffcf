\* Spawn returns early, as it may when another thread spawns, too.
SPECIFICATION Spec
CONSTANTS
  t1 = t1  t2 = t2  t3 = t3
  Tasks = {t1, t2, t3}
  OwnSignal = FALSE
\* The master may be done with its last section.
CHECK_DEADLOCK FALSE
INVARIANT MasterWaits
