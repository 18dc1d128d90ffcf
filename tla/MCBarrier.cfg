\* One master, three tasks in one to four sections.
SPECIFICATION FairSpec
CONSTANTS
  t1 = t1  t2 = t2  t3 = t3
  Tasks = {t1, t2, t3}
  OwnSignal = TRUE
\* The master may be done with its last section.
CHECK_DEADLOCK FALSE
INVARIANTS MasterWaits NoLostWakeup
PROPERTY SectionEnds
