\* One sender, one receiver, of one item, two, or any number, and a close at any time.
SPECIFICATION FairSpec
CONSTANTS
  s1 = s1  s2 = s2  s3 = s3  r1 = r1  r2 = r2  owner = owner
  int = int  string = string  nil = nil  free = free  destroyed = destroyed
  Senders <- OneSender
  Receivers <- OneReceiver
  Owner = owner  Nil = nil  Free = free  Destroyed = destroyed
  MaxItems = {0, 1, 2}  NSend = 5  NRecv = 5
  SendOps <- Blocking
  RecvOps <- BlockingRecv
  TypeOf <- AllSameType
  OwnerPeeks = FALSE
  MaxSpurious = 2
\* Threads finish, and may then all be idle or blocked for good.
CHECK_DEADLOCK FALSE
INVARIANTS ReadyIfWaiting ReadyOnlyIfWaiting NoStrandedWaiter
PROPERTY AllDelivered
