\* Every kind of call on a channel of one item or without a bound, receivers of two types, a close
\* at any time, also a second one.
SPECIFICATION Spec
CONSTANTS
  s1 = s1  s2 = s2  s3 = s3  r1 = r1  r2 = r2  owner = owner
  int = int  string = string  nil = nil  free = free  destroyed = destroyed
  Senders <- TwoSenders
  Receivers <- TwoReceivers
  Owner = owner  Nil = nil  Free = free  Destroyed = destroyed
  MaxItems = {0, 1}  NSend = 2  NRecv = 1
  SendOps <- AnySend
  RecvOps <- AnyRecv
  TypeOf <- R2Differs
  OwnerPeeks = TRUE
  MaxSpurious = 1
\* Threads finish, and may then all be idle or blocked for good.
CHECK_DEADLOCK FALSE
INVARIANTS TypeOK Exclusive RingOK
PROPERTY ImplementsFifo
