\* One sender and two receivers, one of another message type.
SPECIFICATION Spec
CONSTANTS
  s1 = s1  s2 = s2  s3 = s3  r1 = r1  r2 = r2  owner = owner
  int = int  string = string  nil = nil  free = free  destroyed = destroyed
  Senders <- OneSender
  Receivers <- TwoReceivers
  Owner = owner  Nil = nil  Free = free  Destroyed = destroyed
  MaxItems = {0}  NSend = 1  NRecv = 1
  SendOps <- Blocking
  RecvOps <- BlockingRecv
  TypeOf <- R2Differs
  OwnerPeeks = FALSE
  MaxSpurious = 0
\* Threads finish, and may then all be idle or blocked for good.
CHECK_DEADLOCK FALSE
INVARIANT NoStrandedWaiter
