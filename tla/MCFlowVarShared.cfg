\* EveryReadHasValue
SPECIFICATION Spec
CONSTANTS
  a = a  b = b  r1 = r1  r2 = r2  nil = nil
  FlowVars <- Two
  Readers <- Pair
  Tasks <- OwnTwo
  Nil = nil
\* All threads may be done.
CHECK_DEADLOCK FALSE
INVARIANT EveryReadHasValue
