\* Two readers whose lists overlap; each takes its values with blockUntilAny or at
\* once.
SPECIFICATION FairSpec
CONSTANTS
  a = a  b = b  r1 = r1  r2 = r2  nil = nil
  FlowVars <- Two
  Readers <- Pair
  Tasks <- Overlapping
  Nil = nil
\* All threads may be done.
CHECK_DEADLOCK FALSE
INVARIANTS TypeOK ReadsValue NoSleeperForgotten NoDanglingAwaitInfo FinishedDetached
PROPERTY AwaitReturns
