\* Two senders and one receiver on a bounded channel.
SPECIFICATION Spec
CONSTANTS
  s1 = s1  s2 = s2  s3 = s3  r1 = r1  r2 = r2  owner = owner
  int = int  string = string  nil = nil  free = free  destroyed = destroyed
  Senders <- TwoSenders
  Receivers <- OneReceiver
  Owner = owner  Nil = nil  Free = free  Destroyed = destroyed
  MaxItems = {2}  NSend = 2  NRecv = 4
  SendOps <- Blocking
  RecvOps <- BlockingRecv
  TypeOf <- AllSameType
  OwnerPeeks = TRUE
  MaxSpurious = 0
\* Threads finish, and may then all be idle or blocked for good.
CHECK_DEADLOCK FALSE
INVARIANT NoStrandedWaiter
