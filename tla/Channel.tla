------------------------------ MODULE Channel ------------------------------
(***************************************************************************)
(* The inter-thread channel of the runtime, lib/system/channels_builtin.edl:*)
(* a ring buffer that doubles when full, one lock, and ONE condition        *)
(* variable on which blocked senders and blocked receivers wait alike.      *)
(*                                                                         *)
(* Each sender sends NSend messages (send or trySend), each receiver takes  *)
(* NRecv (recv or tryRecv), and the owner, the thread that opened the       *)
(* channel, peeks at it and closes it.  Every call is cut where another     *)
(* thread can act: the unlocked test of q.mask, taking the lock, the        *)
(* critical section up to waitSysCond or up to releaseSys, the release.     *)
(***************************************************************************)
EXTENDS Integers, Sequences, FiniteSets

CONSTANTS Senders, Receivers, Owner,
          MaxItems,        \* the maxItems open may get; 0 is an unbounded channel
          NSend, NRecv,    \* messages per sender, messages per receiver
          SendOps,         \* which of send, trySend the senders call
          RecvOps,         \* which of recv, tryRecv the receivers call
          TypeOf,          \* the PNimType each thread passes for TMsg
          OwnerPeeks,      \* does the owner keep calling peek?
          MaxSpurious,     \* bound on the spurious wake-ups of waitSysCond
          Nil, Free, Destroyed

Workers == Senders \cup Receivers
Threads == Workers \cup {Owner}

ASSUME ChannelAssumption ==
  /\ Senders \cap Receivers = {} /\ Owner \notin Workers
  /\ MaxItems \subseteq Nat /\ NSend \in Nat /\ NRecv \in Nat /\ MaxSpurious \in Nat
  /\ SendOps \subseteq {"send", "trySend"}
  /\ RecvOps \subseteq {"recv", "tryRecv"}
  /\ OwnerPeeks \in BOOLEAN
  /\ Nil \notin Senders \X Nat
  /\ Free # Destroyed /\ {Free, Destroyed} \cap Threads = {}

Types == {TypeOf[t] : t \in Workers}
Msg == Senders \X (Nat \ {0})

ChannelDeadMask == -2

VARIABLES q,          \* rd, wr, count, mask, maxItems and data of the RawChannel
          lock,       \* the thread that holds q.lock, Free or Destroyed
          waiters,    \* the threads blocked in waitSysCond(q.cond, q.lock)
          elemType,   \* q.elemType
          ready,      \* q.ready
          pc, op,     \* where each thread is, and in which call
          nsent, got, \* what went in and what came out, as in ChannelFifo
          spurious    \* spurious wake-ups so far, at most MaxSpurious

vars == <<q, lock, waiters, elemType, ready, pc, op, nsent, got, spurious>>

-----------------------------------------------------------------------------
(* The ring buffer, as functions of its value.                             *)

\* `i and q.mask`, for a mask one below a power of two.
Slot(i, ring) == i % (ring.mask + 1)

\* The messages in the ring, oldest first.
Contents(ring) ==
  [k \in 1 .. ring.count |-> ring.data[Slot(ring.rd + k - 1, ring)]]

Larger(cap) == 2 * (IF cap = 0 THEN 1 ELSE cap)

\* The first half of rawSend: a full ring is copied, from rd on, to a larger
\* one whose first item is at 0.  (A name with an underscore is the same code
\* with a mistake in it; the runs show which property notices.)
Copied(ring, from) ==
  [z \in 0 .. Larger(ring.mask + 1) - 1 |->
     IF z < ring.count THEN ring.data[Slot(from + z, ring)] ELSE Nil]

Grow_MaskIsCapacity(ring) ==
  [rd |-> 0, wr |-> ring.count, count |-> ring.count,
   mask |-> Larger(ring.mask + 1), maxItems |-> ring.maxItems,
   data |-> Copied(ring, ring.rd)]

Grow_CopiesFromZero(ring) ==
  [rd |-> 0, wr |-> ring.count, count |-> ring.count,
   mask |-> Larger(ring.mask + 1) - 1, maxItems |-> ring.maxItems,
   data |-> Copied(ring, 0)]

Grow(ring) ==
  [rd |-> 0, wr |-> ring.count, count |-> ring.count,
   mask |-> Larger(ring.mask + 1) - 1, maxItems |-> ring.maxItems,
   data |-> Copied(ring, ring.rd)]

Store(ring, m) ==
  [rd |-> ring.rd, wr |-> Slot(ring.wr + 1, ring), count |-> ring.count + 1,
   mask |-> ring.mask, maxItems |-> ring.maxItems,
   data |-> [ring.data EXCEPT ![ring.wr] = m]]

RawSend(ring, m) ==
  Store(IF ring.count >= ring.mask + 1 THEN Grow(ring) ELSE ring, m)

RawRecv(ring) ==
  [rd |-> Slot(ring.rd + 1, ring), wr |-> ring.wr, count |-> ring.count - 1,
   mask |-> ring.mask, maxItems |-> ring.maxItems,
   data |-> ring.data]

NoData == [z \in 0 .. -1 |-> Nil]
EmptyRing(max) ==
  [rd |-> 0, wr |-> 0, count |-> 0, mask |-> -1, maxItems |-> max, data |-> NoData]

Closed == q.mask = ChannelDeadMask
Full == q.maxItems > 0 /\ q.count >= q.maxItems

\* sendImpl puts its message in once its waiting loop is over.
MaySend_TestedOnce(s) == pc[s] = "enter" => ~Full
MaySend(s) == ~Full

\* llRecv signals when the item it took was the one that made the ring full.
SenderMayWait_WhenEmpty(ring) == ring.maxItems > 0 /\ ring.count = 0
SenderMayWait_OffByOne(ring) == ring.maxItems > 0 /\ ring.count = ring.maxItems
SenderMayWait(ring) == ring.maxItems > 0 /\ ring.count = ring.maxItems - 1

\* llRecv sets ready on the way into its loop, not again after a wake-up, and
\* clears it on the way out.
ReadyInLoop_NotSet(r) == ready
ReadyInLoop(r) == pc[r] = "enter" \/ ready
ReadyAfterLoop_StaysSet == ready
ReadyAfterLoop == FALSE

-----------------------------------------------------------------------------
(* The lock and the condition variable.                                    *)

Init == /\ \E max \in MaxItems : q = EmptyRing(max)
        /\ lock = Free
        /\ waiters = {}
        /\ elemType = Nil
        /\ ready = FALSE
        /\ pc = [t \in Threads |-> "idle"]
        /\ op = [t \in Threads |-> "none"]
        /\ nsent = [s \in Senders |-> 0]
        /\ got = [r \in Receivers |-> << >>]
        /\ spurious = 0

Goto(t, l) == pc' = [pc EXCEPT ![t] = l]

\* signalSysCond: one waiter, if there is one, leaves the wait and will have
\* to take the lock again; the caller t goes on to its releaseSys.
SignalAndLeave(t) ==
  IF waiters = {}
  THEN Goto(t, "release") /\ UNCHANGED waiters
  ELSE \E w \in waiters : /\ waiters' = waiters \ {w}
                          /\ pc' = [pc EXCEPT ![t] = "release", ![w] = "woken"]

\* waitSysCond: gives the lock back and blocks in one step.
Wait(t) == /\ waiters' = waiters \cup {t}
           /\ lock' = Free
           /\ Goto(t, "waiting")

\* acquireSys, at the start of a call or at the end of a wait.
Acquire(t) ==
  /\ pc[t] \in {"acquire", "woken"}
  /\ lock = Free
  /\ lock' = t
  /\ Goto(t, IF pc[t] = "acquire" THEN "enter" ELSE "loop")
  /\ UNCHANGED <<q, waiters, elemType, ready, op, nsent, got, spurious>>

\* Taking a lock that close has destroyed is undefined; the thread is lost.
AcquireDestroyed(t) ==
  /\ pc[t] \in {"acquire", "woken"}
  /\ lock = Destroyed
  /\ Goto(t, "undefined")
  /\ UNCHANGED <<q, lock, waiters, elemType, ready, op, nsent, got, spurious>>

Release(t) ==
  /\ pc[t] = "release"
  /\ lock' = Free
  /\ Goto(t, "idle")
  /\ op' = [op EXCEPT ![t] = "none"]
  /\ UNCHANGED <<q, waiters, elemType, ready, nsent, got, spurious>>

\* waitSysCond may return without a signal.
SpuriousWakeup(t) ==
  /\ t \in waiters
  /\ spurious < MaxSpurious
  /\ spurious' = spurious + 1
  /\ waiters' = waiters \ {t}
  /\ Goto(t, "woken")
  /\ UNCHANGED <<q, lock, elemType, ready, op, nsent, got>>

-----------------------------------------------------------------------------
(* send and trySend (sendImpl).                                            *)

\* The call, up to its unlocked test of the dead mask.
CallSend(s) ==
  /\ pc[s] = "idle" /\ nsent[s] < NSend
  /\ ~Closed
  /\ \E o \in SendOps : op' = [op EXCEPT ![s] = o]
  /\ Goto(s, "acquire")
  /\ UNCHANGED <<q, lock, waiters, elemType, ready, nsent, got, spurious>>

\* sysFatal(DeadThreadDefect).
CallSendDead(t) ==
  /\ pc[t] = "idle"
  /\ t \in Senders => nsent[t] < NSend
  /\ Closed
  /\ Goto(t, "fatal")
  /\ UNCHANGED <<q, lock, waiters, elemType, ready, op, nsent, got, spurious>>

TrySendFull(s) ==
  /\ pc[s] = "enter" /\ op[s] = "trySend"
  /\ Full
  /\ Goto(s, "release")
  /\ UNCHANGED <<q, lock, waiters, elemType, ready, op, nsent, got, spurious>>

SendWait(s) ==
  /\ pc[s] \in {"enter", "loop"} /\ op[s] = "send"
  /\ Full
  /\ Wait(s)
  /\ UNCHANGED <<q, elemType, ready, op, nsent, got, spurious>>

SendPut(s) ==
  /\ pc[s] \in {"enter", "loop"} /\ op[s] \in {"send", "trySend"}
  /\ MaySend(s)
  /\ q' = RawSend(q, <<s, nsent[s] + 1>>)
  /\ nsent' = [nsent EXCEPT ![s] = @ + 1]
  /\ elemType' = TypeOf[s]
  /\ SignalAndLeave(s)
  /\ UNCHANGED <<lock, ready, op, got, spurious>>

-----------------------------------------------------------------------------
(* recv and tryRecv (llRecv).                                              *)

CallRecv(r) ==
  /\ pc[r] = "idle" /\ Len(got[r]) < NRecv
  /\ "recv" \in RecvOps
  /\ op' = [op EXCEPT ![r] = "recv"]
  /\ Goto(r, "acquire")
  /\ UNCHANGED <<q, lock, waiters, elemType, ready, nsent, got, spurious>>

\* tryRecv tests the mask and then tries the lock: on a closed channel, or
\* when the lock is taken in between, it returns (false, default(msg)).
CallTryRecv(r) ==
  /\ pc[r] = "idle" /\ Len(got[r]) < NRecv
  /\ "tryRecv" \in RecvOps
  /\ ~Closed
  /\ op' = [op EXCEPT ![r] = "tryRecv"]
  /\ Goto(r, "tryAcquire")
  /\ UNCHANGED <<q, lock, waiters, elemType, ready, nsent, got, spurious>>

TryAcquire(r) ==
  /\ pc[r] = "tryAcquire"
  /\ \/ /\ lock = Free
        /\ lock' = r
        /\ Goto(r, "enter")
        /\ UNCHANGED op
     \/ /\ lock \in Threads
        /\ Goto(r, "idle")
        /\ op' = [op EXCEPT ![r] = "none"]
        /\ UNCHANGED lock
     \/ /\ lock = Destroyed
        /\ Goto(r, "undefined")
        /\ UNCHANGED <<op, lock>>
  /\ UNCHANGED <<q, waiters, elemType, ready, nsent, got, spurious>>

TryRecvEmpty(r) ==
  /\ pc[r] = "enter" /\ op[r] = "tryRecv"
  /\ q.count = 0
  /\ Goto(r, "release")
  /\ UNCHANGED <<q, lock, waiters, elemType, ready, op, nsent, got, spurious>>

RecvWait(r) ==
  /\ pc[r] \in {"enter", "loop"} /\ op[r] = "recv"
  /\ q.count = 0
  /\ ready' = ReadyInLoop(r)
  /\ Wait(r)
  /\ UNCHANGED <<q, elemType, op, nsent, got, spurious>>

RecvWrongType_KeepsLock(r) ==
  /\ pc[r] \in {"enter", "loop"} /\ op[r] \in {"recv", "tryRecv"}
  /\ q.count > 0
  /\ ready' = FALSE
  /\ TypeOf[r] # elemType
  /\ Goto(r, "fatal")
  /\ UNCHANGED <<q, lock, waiters, elemType, op, nsent, got, spurious>>

\* raiseAssert "cannot receive message of wrong type", after releaseSys.
RecvWrongType(r) ==
  /\ pc[r] \in {"enter", "loop"} /\ op[r] \in {"recv", "tryRecv"}
  /\ q.count > 0
  /\ ready' = ReadyAfterLoop
  /\ TypeOf[r] # elemType
  /\ lock' = Free
  /\ Goto(r, "fatal")
  /\ UNCHANGED <<q, waiters, elemType, op, nsent, got, spurious>>

RecvTake(r) ==
  /\ pc[r] \in {"enter", "loop"} /\ op[r] \in {"recv", "tryRecv"}
  /\ q.count > 0
  /\ ready' = ReadyAfterLoop
  /\ TypeOf[r] = elemType
  /\ got' = [got EXCEPT ![r] = Append(@, q.data[q.rd])]
  /\ q' = RawRecv(q)
  /\ IF SenderMayWait(q')
     THEN SignalAndLeave(r)
     ELSE Goto(r, "release") /\ UNCHANGED waiters
  /\ UNCHANGED <<lock, elemType, op, nsent, spurious>>

-----------------------------------------------------------------------------
(* peek and close, called by the owner.                                    *)

Finished(t) == /\ pc[t] = "idle"
               /\ t \in Senders => nsent[t] = NSend
               /\ t \in Receivers => Len(got[t]) = NRecv

CallPeek ==
  /\ OwnerPeeks
  /\ pc[Owner] = "idle"
  /\ ~Closed
  /\ op' = [op EXCEPT ![Owner] = "peek"]
  /\ Goto(Owner, "acquire")
  /\ UNCHANGED <<q, lock, waiters, elemType, ready, nsent, got, spurious>>

Peek ==
  /\ pc[Owner] = "enter" /\ op[Owner] = "peek"
  /\ Goto(Owner, "release")
  /\ UNCHANGED <<q, lock, waiters, elemType, ready, op, nsent, got, spurious>>

\* close does not look at the channel before it reaches for the lock: it may be
\* called while others are inside, and a second time.
CallClose ==
  /\ pc[Owner] = "idle"
  /\ op' = [op EXCEPT ![Owner] = "close"]
  /\ Goto(Owner, "acquire")
  /\ UNCHANGED <<q, lock, waiters, elemType, ready, nsent, got, spurious>>

\* deinitRawChannel, called with the lock held; the lock is not released but
\* destroyed, and so is the condition variable.
Close ==
  /\ pc[Owner] = "enter" /\ op[Owner] = "close"
  /\ q' = [rd |-> q.rd, wr |-> q.wr, count |-> q.count,
           mask |-> ChannelDeadMask, maxItems |-> q.maxItems, data |-> NoData]
  /\ lock' = Destroyed
  /\ Goto(Owner, "idle")
  /\ op' = [op EXCEPT ![Owner] = "none"]
  /\ UNCHANGED <<waiters, elemType, ready, nsent, got, spurious>>

-----------------------------------------------------------------------------
SendStep(s) == \/ CallSend(s) \/ CallSendDead(s)
               \/ TrySendFull(s) \/ SendWait(s) \/ SendPut(s)

RecvStep(r) == \/ CallRecv(r) \/ CallTryRecv(r) \/ TryAcquire(r)
               \/ TryRecvEmpty(r) \/ RecvWait(r) \/ RecvWrongType(r) \/ RecvTake(r)

LockStep(t) == Acquire(t) \/ AcquireDestroyed(t) \/ Release(t)

OwnerStep == CallPeek \/ Peek \/ CallClose \/ Close \/ CallSendDead(Owner)

Next == \/ \E s \in Senders : SendStep(s)
        \/ \E r \in Receivers : RecvStep(r)
        \/ \E t \in Threads : LockStep(t) \/ SpuriousWakeup(t)
        \/ OwnerStep

Spec == Init /\ [][Next]_vars

\* Threads that can run do run; nothing obliges a spurious wake-up, a peek or
\* a close to happen.
FairSpec == /\ Spec
            /\ \A s \in Senders : WF_vars(SendStep(s) \/ LockStep(s))
            /\ \A r \in Receivers : WF_vars(RecvStep(r) \/ LockStep(r))
            /\ WF_vars(LockStep(Owner) \/ Peek \/ Close)

-----------------------------------------------------------------------------
(* Properties.                                                             *)

\* The values the variables range over.
TypeOK ==
  /\ q.rd \in Nat /\ q.wr \in Nat /\ q.count \in Nat
  /\ q.mask \in {ChannelDeadMask} \cup {-1} \cup Nat
  /\ q.maxItems \in MaxItems
  /\ q.data \in [0 .. q.mask -> Msg \cup {Nil}]
  /\ lock \in Threads \cup {Free, Destroyed}
  /\ waiters \subseteq Workers
  /\ elemType \in Types \cup {Nil}
  /\ ready \in BOOLEAN
  /\ pc \in [Threads -> {"idle", "acquire", "tryAcquire", "enter", "loop",
                         "waiting", "woken", "release", "fatal", "undefined"}]
  /\ op \in [Threads -> {"none", "send", "trySend", "recv", "tryRecv",
                         "peek", "close"}]
  /\ nsent \in [Senders -> Nat]
  /\ got \in [Receivers -> Seq(Msg)]
  /\ spurious \in 0 .. MaxSpurious

\* The critical sections of rawSend, rawRecv and close exclude one another:
\* only the thread that holds q.lock is between acquireSys and releaseSys.
Exclusive ==
  \A t \in Threads : pc[t] \in {"enter", "loop", "release"} <=> lock = t

\* An open ring is a window of count slots that starts at rd and ends just
\* before wr, never wider than the capacity or than maxItems (rawSend,
\* rawRecv and the waiting loop of sendImpl).
RingOK ==
  ~Closed =>
    /\ q.count <= q.mask + 1
    /\ q.maxItems > 0 => q.count <= q.maxItems
    /\ q.mask >= 0 => /\ q.rd <= q.mask
                      /\ q.wr = Slot(q.rd + q.count, q)

Fifo == INSTANCE ChannelFifo WITH
          queue <- IF Closed THEN << >> ELSE Contents(q),
          maxItems <- q.maxItems,
          closed <- Closed

\* The ring, with its doubling and its wrap-around, is one first-in first-out
\* queue: nothing is lost, duplicated, reordered or overwritten, and no call
\* takes effect on a closed channel.
ImplementsFifo == Fifo!FSpec

\* Nobody is on the way to the channel, and nobody has been woken.
Quiet == \A t \in Threads : pc[t] \in {"idle", "waiting", "fatal"}

\* The wake-ups that send and recv give through the one condition variable
\* reach a thread that can use them: when all is quiet a blocked recv has
\* nothing to take and a blocked send has no room ("blocks until a message
\* has arrived", "blocks until number of unprocessed items is less than
\* maxItems").
NoStrandedWaiter ==
  Quiet /\ ~Closed =>
    \A t \in waiters : IF op[t] = "send" THEN Full ELSE q.count = 0

\* ready: "Returns true if some thread is waiting on the channel c for new
\* messages".  A receiver blocked in llRecv, not yet signalled, is waiting.
ReadyIfWaiting ==
  \A r \in Receivers : pc[r] = "waiting" => ready

\* ... and an open channel that says so does have a receiver that is in recv and
\* has no message yet.
ReadyOnlyIfWaiting ==
  ~Closed /\ ready =>
    \E r \in Receivers : op[r] = "recv" /\ pc[r] \in {"waiting", "woken", "loop"}

\* deinitRawChannel: "we need to grab the lock to be safe against sending
\* threads!".  No sender finds the lock it reaches for destroyed.
SafeAgainstSenders == \A s \in Senders : pc[s] # "undefined"

\* Every call returns and every message arrives, unless the owner closes the
\* channel first: all senders have sent and all receivers have received what
\* they came for.
AllDelivered == <>(Closed \/ \A t \in Workers : Finished(t))
=============================================================================
