--------------------------- MODULE ChannelProofs ---------------------------
(***************************************************************************)
(* Theorems about Channel, for any numbers of senders, receivers, messages *)
(* and any bound: the types, mutual exclusion, the shape of the ring, the  *)
(* safety of close after join, that the channel is a FIFO queue, what ready *)
(* tells, and for which numbers of threads nobody is stranded.             *)
(***************************************************************************)
EXTENDS Channel, SequenceTheorems, TLAPS, FiniteSetTheorems

(* ---------------------- The arithmetic of the slots -------------------- *)

\* Inside the ring a slot is its own number; one lap further it wraps once.
LEMMA SlotInside ==
  ASSUME NEW cap \in Nat, NEW i \in Nat, i < cap
  PROVE  i % cap = i
OBVIOUS

LEMMA SlotWraps ==
  ASSUME NEW cap \in Nat, NEW i \in Nat, cap > 0, i >= cap, i < 2 * cap
  PROVE  i % cap = i - cap
OBVIOUS

LEMMA SlotRange ==
  ASSUME NEW cap \in Nat, NEW i \in Nat, cap > 0
  PROVE  i % cap \in 0 .. cap - 1
OBVIOUS

\* Stepping rd on by one steps every later slot on by one.
LEMMA SlotNext ==
  ASSUME NEW cap \in Nat, NEW rd \in Nat, NEW k \in Nat, rd < cap, k < cap
  PROVE  (((rd + 1) % cap) + k) % cap = (rd + k + 1) % cap
<1>1. CASE rd + 1 < cap
  <2>1. (rd + 1) % cap = rd + 1 BY <1>1, SlotInside
  <2> QED BY <2>1
<1>2. CASE rd + 1 = cap
  <2>1. (rd + 1) % cap = 0 BY <1>2, SlotWraps
  <2>2. k % cap = k BY SlotInside
  <2>3. (rd + k + 1) % cap = k BY <1>2, SlotWraps
  <2> QED BY <2>1, <2>2, <2>3
<1> QED BY <1>1, <1>2

\* Fewer than cap steps apart, two slots differ.
LEMMA SlotsDiffer ==
  ASSUME NEW cap \in Nat, NEW rd \in Nat, NEW j \in Nat, NEW k \in Nat,
         rd < cap, j < k, k < cap
  PROVE  (rd + j) % cap # (rd + k) % cap
<1>1. CASE rd + k < cap
  <2>1. (rd + k) % cap = rd + k /\ (rd + j) % cap = rd + j BY <1>1, SlotInside
  <2> QED BY <2>1
<1>2. CASE rd + k >= cap /\ rd + j < cap
  <2>1. (rd + k) % cap = rd + k - cap BY <1>2, SlotWraps
  <2>2. (rd + j) % cap = rd + j BY <1>2, SlotInside
  <2> QED BY <2>1, <2>2
<1>3. CASE rd + j >= cap
  <2>1. (rd + k) % cap = rd + k - cap /\ (rd + j) % cap = rd + j - cap
    BY <1>3, SlotWraps
  <2> QED BY <2>1
<1> QED BY <1>1, <1>2, <1>3

(* ------------------- The ring of an open channel ----------------------- *)

\* What rawSend and rawRecv rely on: the fields are numbers, the window of
\* count slots from rd to wr fits into the ring, and holds messages.
Fields(ring) ==
  /\ ring.rd \in Nat /\ ring.wr \in Nat /\ ring.count \in Nat
  /\ ring.mask \in {-1} \cup Nat
  /\ ring.data \in [0 .. ring.mask -> Msg \cup {Nil}]

Window(ring) ==
  /\ ring.count <= ring.mask + 1
  /\ ring.mask = -1 => ring.rd = 0 /\ ring.wr = 0
  /\ ring.mask >= 0 => ring.rd <= ring.mask /\ ring.wr = Slot(ring.rd + ring.count, ring)
  /\ \A k \in 0 .. ring.count - 1 : ring.data[Slot(ring.rd + k, ring)] \in Msg

OpenRing(ring) == Fields(ring) /\ Window(ring)

LEMMA EmptyRingOpen == ASSUME NEW max PROVE OpenRing(EmptyRing(max))
<1>1. Fields(EmptyRing(max))
  BY DEF Fields, EmptyRing, NoData
<1>2. Window(EmptyRing(max))
  BY DEF Window, EmptyRing
<1> QED BY <1>1, <1>2 DEF OpenRing

\* Growing a full ring leaves an open ring with room, and the same messages
\* in the same order, now from slot 0 on.
LEMMA GrowOpen ==
  ASSUME NEW ring, OpenRing(ring), ring.count = ring.mask + 1
  PROVE  /\ OpenRing(Grow(ring))
         /\ Grow(ring).count = ring.count
         /\ Grow(ring).count <= Grow(ring).mask
         /\ Grow(ring).mask >= 0
         /\ Grow(ring).rd = 0
         /\ \A k \in 0 .. ring.count - 1 :
              Grow(ring).data[k] = ring.data[Slot(ring.rd + k, ring)]
<1> DEFINE cap == Larger(ring.mask + 1)
           g == Grow(ring)
<1>1. /\ ring.count \in Nat /\ cap \in Nat /\ cap > ring.count
  BY DEF OpenRing, Fields, Larger
<1>2. /\ g.rd = 0 /\ g.wr = ring.count /\ g.count = ring.count /\ g.mask = cap - 1
      /\ g.data = [z \in 0 .. cap - 1 |->
                     IF z < ring.count
                     THEN ring.data[Slot(ring.rd + z, ring)] ELSE Nil]
  BY DEF Grow, Copied
<1>3. \A z \in 0 .. ring.count - 1 : ring.data[Slot(ring.rd + z, ring)] \in Msg
  BY DEF OpenRing, Window
<1>4. g.data \in [0 .. cap - 1 -> Msg \cup {Nil}]
  BY <1>1, <1>2, <1>3
<1>5. \A k \in 0 .. ring.count - 1 : g.data[k] = ring.data[Slot(ring.rd + k, ring)]
  BY <1>1, <1>2
<1>6. g.wr = Slot(g.rd + g.count, g)
  BY <1>1, <1>2, SlotInside DEF Slot
<1>7. \A k \in 0 .. g.count - 1 : g.data[Slot(g.rd + k, g)] \in Msg
  <2> SUFFICES ASSUME NEW k \in 0 .. g.count - 1
               PROVE  g.data[Slot(g.rd + k, g)] \in Msg
    OBVIOUS
  <2>1. k \in Nat /\ k < cap /\ k \in 0 .. ring.count - 1
    BY <1>1, <1>2
  <2>2. Slot(g.rd + k, g) = k
    BY <1>1, <1>2, <2>1, SlotInside DEF Slot
  <2> QED BY <2>1, <2>2, <1>3, <1>5
<1>8. Fields(g)
  BY <1>1, <1>2, <1>4 DEF Fields
<1>9. Window(g)
  <2>1. g.count <= g.mask + 1 /\ g.mask >= 0 /\ g.rd <= g.mask
    BY <1>1, <1>2
  <2> QED BY <2>1, <1>6, <1>7 DEF Window
<1> QED BY <1>1, <1>2, <1>5, <1>8, <1>9 DEF OpenRing

\* Storing into a ring with room keeps it open and adds the message at the end.
LEMMA StoreOpen ==
  ASSUME NEW ring, OpenRing(ring), ring.mask >= 0, ring.count <= ring.mask,
         NEW m \in Msg
  PROVE  /\ OpenRing(Store(ring, m))
         /\ Store(ring, m).count = ring.count + 1
         /\ Store(ring, m).mask = ring.mask
         /\ Store(ring, m).rd = ring.rd
         /\ \A k \in 0 .. ring.count - 1 :
              Store(ring, m).data[Slot(ring.rd + k, ring)] = ring.data[Slot(ring.rd + k, ring)]
         /\ Store(ring, m).data[Slot(ring.rd + ring.count, ring)] = m
<1> DEFINE cap == ring.mask + 1
           st == Store(ring, m)
<1>1. /\ cap \in Nat /\ cap > 0 /\ ring.count \in Nat /\ ring.count < cap
      /\ ring.rd \in Nat /\ ring.rd < cap /\ ring.wr \in Nat
      /\ ring.wr = (ring.rd + ring.count) % cap
      /\ ring.mask \in Nat
      /\ cap = ring.mask + 1
  BY DEF OpenRing, Fields, Window, Slot
<1> HIDE DEF cap
<1>2. ring.wr \in 0 .. ring.mask
  <2>1. (ring.rd + ring.count) % cap \in 0 .. cap - 1
    BY <1>1, SlotRange
  <2> QED BY <1>1, <2>1
<1>3. /\ st.rd = ring.rd /\ st.wr = (ring.wr + 1) % cap /\ st.count = ring.count + 1
      /\ st.mask = ring.mask /\ st.data = [ring.data EXCEPT ![ring.wr] = m]
      /\ ring.data \in [0 .. ring.mask -> Msg \cup {Nil}]
  BY <1>1 DEF Store, OpenRing, Fields, Slot
<1>4. (ring.wr + 1) % cap = (ring.rd + ring.count + 1) % cap
  <2>1. CASE ring.rd + ring.count < cap
    <3>1. ring.rd + ring.count \in Nat BY <1>1
    <3>2. ring.wr = ring.rd + ring.count BY <2>1, <3>1, <1>1, SlotInside
    <3> QED BY <3>2
  <2>2. CASE ring.rd + ring.count >= cap
    <3>1. ring.wr = ring.rd + ring.count - cap BY <2>2, <1>1, SlotWraps
    <3>2. ring.wr + 1 < cap BY <3>1, <1>1
    <3>3. (ring.wr + 1) % cap = ring.wr + 1 BY <3>2, <1>1, SlotInside
    <3>4. (ring.rd + ring.count + 1) % cap = ring.rd + ring.count + 1 - cap
      BY <2>2, <1>1, SlotWraps
    <3> QED BY <3>1, <3>3, <3>4, <1>1
  <2> QED BY <2>1, <2>2, <1>1
<1>5. ASSUME NEW k \in 0 .. ring.count - 1
      PROVE  (ring.rd + k) % cap \in 0 .. ring.mask /\ (ring.rd + k) % cap # ring.wr
  <2>1. k \in Nat /\ k < ring.count /\ ring.rd + k \in Nat
    BY <1>1
  <2>2. (ring.rd + k) % cap \in 0 .. cap - 1
    BY <2>1, <1>1, SlotRange
  <2>3. (ring.rd + k) % cap # (ring.rd + ring.count) % cap
    BY <2>1, <1>1, SlotsDiffer
  <2> QED BY <2>2, <2>3, <1>1
<1>6. \A k \in 0 .. ring.count - 1 :
        st.data[Slot(ring.rd + k, ring)] = ring.data[Slot(ring.rd + k, ring)]
  BY <1>1, <1>3, <1>5 DEF Slot
<1>7. st.data[Slot(ring.rd + ring.count, ring)] = m
  BY <1>1, <1>2, <1>3 DEF Slot
<1>8. \A k \in 0 .. st.count - 1 : st.data[Slot(st.rd + k, st)] \in Msg
  <2> SUFFICES ASSUME NEW k \in 0 .. st.count - 1
               PROVE  st.data[Slot(st.rd + k, st)] \in Msg
    OBVIOUS
  <2>1. Slot(st.rd + k, st) = Slot(ring.rd + k, ring)
    BY <1>3 DEF Slot
  <2>2. CASE k = ring.count
    BY <2>1, <2>2, <1>7
  <2>3. CASE k \in 0 .. ring.count - 1
    BY <2>1, <2>3, <1>6 DEF OpenRing, Window
  <2> QED BY <2>2, <2>3, <1>1, <1>3
<1>9. Fields(st)
  <2>1. ring.wr + 1 \in Nat
    BY <1>1
  <2>2. (ring.wr + 1) % cap \in 0 .. cap - 1
    BY <2>1, <1>1, SlotRange
  <2>3. st.wr \in Nat
    BY <2>2, <1>1, <1>3
  <2> QED BY SMTT(20), <2>3, <1>1, <1>2, <1>3 DEF Fields
<1>10. Window(st)
  <2>1. st.wr = Slot(st.rd + st.count, st)
    <3>1. st.rd + st.count = ring.rd + ring.count + 1 /\ st.mask + 1 = cap
      BY <1>1, <1>3
    <3> QED BY <3>1, <1>3, <1>4 DEF Slot
  <2>2. st.count <= st.mask + 1 /\ st.mask >= 0 /\ st.rd <= st.mask
    BY <1>1, <1>3
  <2> QED BY <2>1, <2>2, <1>8 DEF Window
<1> QED BY <1>3, <1>6, <1>7, <1>9, <1>10 DEF OpenRing

\* rawRecv keeps a non-empty ring open and drops its oldest message.
LEMMA RecvOpen ==
  ASSUME NEW ring, OpenRing(ring), ring.count > 0
  PROVE  /\ OpenRing(RawRecv(ring))
         /\ RawRecv(ring).count = ring.count - 1
         /\ RawRecv(ring).mask = ring.mask
         /\ RawRecv(ring).data = ring.data
         /\ \A k \in 0 .. ring.count - 2 :
              Slot(RawRecv(ring).rd + k, ring) = Slot(ring.rd + k + 1, ring)
         /\ ring.rd = Slot(ring.rd, ring)
         /\ ring.data[ring.rd] \in Msg
<1> DEFINE cap == ring.mask + 1
           t == RawRecv(ring)
<1>1. /\ cap \in Nat /\ cap > 0 /\ ring.count \in Nat /\ ring.count <= cap
      /\ ring.rd \in Nat /\ ring.rd < cap /\ ring.wr \in Nat
      /\ ring.wr = (ring.rd + ring.count) % cap
      /\ ring.mask \in Nat
  BY DEF OpenRing, Fields, Window, Slot
<1>2. /\ t.rd = (ring.rd + 1) % cap /\ t.wr = ring.wr /\ t.count = ring.count - 1
      /\ t.mask = ring.mask /\ t.data = ring.data
      /\ ring.data \in [0 .. ring.mask -> Msg \cup {Nil}]
  BY DEF RawRecv, OpenRing, Fields, Slot
<1>3. ASSUME NEW k \in 0 .. ring.count - 1
      PROVE  (((ring.rd + 1) % cap) + k) % cap = (ring.rd + k + 1) % cap
  <2>1. k \in Nat /\ k < cap
    BY <1>1
  <2> QED BY <2>1, <1>1, SlotNext
<1>4. ring.rd = Slot(ring.rd, ring)
  BY <1>1, SlotInside DEF Slot
<1>5. \A k \in 0 .. ring.count - 1 : Slot(t.rd + k, ring) = Slot(ring.rd + k + 1, ring)
  BY <1>2, <1>3 DEF Slot
<1>6. ring.data[ring.rd] \in Msg
  <2>1. ring.data[Slot(ring.rd + 0, ring)] \in Msg
    BY <1>1 DEF OpenRing, Window
  <2> QED BY <2>1, <1>1, <1>4
<1>7. \A k \in 0 .. t.count - 1 : t.data[Slot(t.rd + k, t)] \in Msg
  <2> SUFFICES ASSUME NEW k \in 0 .. t.count - 1
               PROVE  t.data[Slot(t.rd + k, t)] \in Msg
    OBVIOUS
  <2>1. k \in 0 .. ring.count - 1 /\ k + 1 \in 0 .. ring.count - 1
    BY <1>1, <1>2
  <2>2. Slot(t.rd + k, t) = Slot(ring.rd + (k + 1), ring)
    <3>1. ring.rd + k + 1 = ring.rd + (k + 1)
      BY <1>1, <2>1
    <3> QED BY <3>1, <1>2, <1>3, <2>1 DEF Slot
  <2>3. ring.data[Slot(ring.rd + (k + 1), ring)] \in Msg
    BY <2>1 DEF OpenRing, Window
  <2> QED BY <2>2, <2>3, <1>2
<1>8. t.wr = Slot(t.rd + t.count, t)
  <2>1. (((ring.rd + 1) % cap) + (ring.count - 1)) % cap = (ring.rd + (ring.count - 1) + 1) % cap
    BY <1>1, <1>3
  <2> QED BY <2>1, <1>1, <1>2 DEF Slot
<1>9. t.rd \in 0 .. cap - 1
  <2>1. ring.rd + 1 \in Nat
    BY <1>1
  <2> QED BY <2>1, <1>1, <1>2, SlotRange
<1>10. Fields(t)
  BY SMTT(20), <1>1, <1>2, <1>9 DEF Fields
<1>11. Window(t)
  <2>1. t.rd <= t.mask /\ t.mask >= 0 /\ t.count <= t.mask + 1
    BY <1>1, <1>2, <1>9
  <2> QED BY <2>1, <1>7, <1>8 DEF Window
<1> QED BY <1>1, <1>2, <1>4, <1>5, <1>6, <1>10, <1>11 DEF OpenRing

(* ------------------------- The invariant ------------------------------- *)

\* TypeOK and Exclusive are inductive together with: who waits is blocked, the
\* lock is destroyed exactly when the mask says so, and the ring is sound.
WaitersBlocked == \A t \in waiters : pc[t] = "waiting"

ClosedDestroyed == Closed <=> lock = Destroyed

RingSound ==
  ~Closed => OpenRing(q) /\ (q.maxItems > 0 => q.count <= q.maxItems)

Inv == TypeOK /\ Exclusive /\ WaitersBlocked /\ ClosedDestroyed /\ RingSound

LEMMA InitInv == Init => Inv
<1> SUFFICES ASSUME Init PROVE Inv
  OBVIOUS
<1> USE ChannelAssumption DEF Init
<1> PICK max \in MaxItems : q = EmptyRing(max)
  OBVIOUS
<1>1. TypeOK
  <2>1. q.data \in [0 .. q.mask -> Msg \cup {Nil}]
    BY EmptyRingOpen DEF OpenRing, Fields
  <2>2. q.rd = 0 /\ q.wr = 0 /\ q.count = 0 /\ q.mask = -1
      /\ q.maxItems \in MaxItems
    BY DEF EmptyRing
  <2>3. got \in [Receivers -> Seq(Msg)]
    OBVIOUS
  <2>4. nsent \in [Senders -> Nat] /\ spurious \in 0 .. MaxSpurious
    OBVIOUS
  <2>5. /\ lock \in Threads \cup {Free, Destroyed} /\ waiters \subseteq Workers
        /\ elemType \in Types \cup {Nil} /\ ready \in BOOLEAN
    OBVIOUS
  <2>6. /\ pc \in [Threads -> {"idle"}]
        /\ op \in [Threads -> {"none"}]
    OBVIOUS
  <2> QED BY ONLY <2>1, <2>2, <2>3, <2>4, <2>5, <2>6 DEF TypeOK
<1>2. Exclusive
  BY DEF Exclusive
<1>3. WaitersBlocked
  BY DEF WaitersBlocked
<1>4. ClosedDestroyed
  BY DEF ClosedDestroyed, Closed, ChannelDeadMask, EmptyRing
<1>5. RingSound
  BY EmptyRingOpen DEF RingSound, EmptyRing
<1> QED BY <1>1, <1>2, <1>3, <1>4, <1>5 DEF Inv

\* Actions that leave the ring and the lock alone and move one thread between
\* places outside the critical section.
LEMMA OutsideInv ==
  ASSUME Inv, NEW t \in Threads, t \notin waiters',
         NEW l \in {"idle", "acquire", "tryAcquire", "woken", "fatal", "undefined"},
         pc[t] \notin {"enter", "loop", "release"},
         Goto(t, l),
         UNCHANGED <<q, lock, elemType, ready, nsent, got>>,
         waiters' \subseteq waiters,
         op' \in [Threads -> {"none", "send", "trySend", "recv", "tryRecv",
                              "peek", "close"}],
         spurious' \in 0 .. MaxSpurious
  PROVE  Inv'
<1>1. TypeOK'
  BY DEF Inv, TypeOK, Goto
<1>2. Exclusive'
  BY DEF Inv, Exclusive, TypeOK, Goto
<1>3. WaitersBlocked'
  BY DEF Inv, WaitersBlocked, TypeOK, Goto
<1>4. ClosedDestroyed' /\ RingSound'
  BY DEF Inv, ClosedDestroyed, RingSound, Closed
<1> QED BY <1>1, <1>2, <1>3, <1>4 DEF Inv

\* Actions of the thread that holds the lock, and keeps it, that leave the
\* ring alone.
LEMMA ToReleaseInv ==
  ASSUME Inv, NEW t \in Threads,
         pc[t] \in {"enter", "loop"},
         Goto(t, "release"),
         UNCHANGED <<q, lock, waiters, elemType, ready, op, nsent, got, spurious>>
  PROVE  Inv'
<1>1. TypeOK'
  BY DEF Inv, TypeOK, Goto
<1>2. Exclusive'
  BY DEF Inv, Exclusive, TypeOK, Goto
<1>3. WaitersBlocked'
  BY DEF Inv, WaitersBlocked, TypeOK, Goto
<1>4. ClosedDestroyed' /\ RingSound'
  BY DEF Inv, ClosedDestroyed, RingSound, Closed
<1> QED BY <1>1, <1>2, <1>3, <1>4 DEF Inv

\* Actions that give the lock back and leave the ring alone.
LEMMA UnlockInv ==
  ASSUME Inv, NEW t \in Threads,
         pc[t] \in {"enter", "loop", "release"},
         NEW l \in {"idle", "waiting", "fatal"},
         Goto(t, l),
         lock' = Free,
         waiters' \subseteq waiters \cup {t},
         t \in waiters' => l = "waiting" /\ t \in Workers,
         ready' \in BOOLEAN,
         op' \in [Threads -> {"none", "send", "trySend", "recv", "tryRecv",
                              "peek", "close"}],
         UNCHANGED <<q, elemType, nsent, got, spurious>>
  PROVE  Inv'
<1> USE ChannelAssumption
<1>1. lock = t /\ t # Free /\ t # Destroyed
  BY DEF Inv, Exclusive
<1>2. TypeOK'
  BY DEF Inv, TypeOK, Goto
<1>3. Exclusive'
  BY <1>1 DEF Inv, Exclusive, TypeOK, Goto
<1>4. WaitersBlocked'
  BY DEF Inv, WaitersBlocked, TypeOK, Goto
<1>5. ClosedDestroyed' /\ RingSound'
  BY <1>1 DEF Inv, ClosedDestroyed, RingSound, Closed
<1> QED BY <1>2, <1>3, <1>4, <1>5 DEF Inv

\* signalSysCond moves at most one blocked thread and takes t to its release.
LEMMA SignalInv ==
  ASSUME Inv, NEW t \in Threads, pc[t] \in {"enter", "loop"},
         SignalAndLeave(t) \/ (Goto(t, "release") /\ UNCHANGED waiters),
         UNCHANGED lock
  PROVE  /\ pc' \in [Threads -> {"idle", "acquire", "tryAcquire", "enter", "loop",
                                 "waiting", "woken", "release", "fatal", "undefined"}]
         /\ waiters' \subseteq Workers
         /\ Exclusive'
         /\ WaitersBlocked'
<1>1. CASE Goto(t, "release") /\ UNCHANGED waiters
  BY <1>1 DEF Inv, TypeOK, Exclusive, WaitersBlocked, Goto
<1>2. CASE \E w \in waiters :
             /\ waiters' = waiters \ {w}
             /\ pc' = [pc EXCEPT ![t] = "release", ![w] = "woken"]
  <2>1. PICK w \in waiters : /\ waiters' = waiters \ {w}
                             /\ pc' = [pc EXCEPT ![t] = "release", ![w] = "woken"]
    BY <1>2
  <2>2. pc[w] = "waiting" /\ w \in Threads /\ w # t
    BY DEF Inv, TypeOK, WaitersBlocked, Threads
  <2>3. pc' \in [Threads -> {"idle", "acquire", "tryAcquire", "enter", "loop",
                             "waiting", "woken", "release", "fatal", "undefined"}]
    BY <2>1 DEF Inv, TypeOK
  <2>4. Exclusive'
    BY <2>1, <2>2 DEF Inv, TypeOK, Exclusive
  <2>5. WaitersBlocked' /\ waiters' \subseteq Workers
    BY <2>1, <2>2 DEF Inv, TypeOK, WaitersBlocked, Threads
  <2> QED BY <2>3, <2>4, <2>5
<1> QED BY <1>1, <1>2 DEF SignalAndLeave

\* No operation on the ring changes the bound.
LEMMA BoundKept ==
  ASSUME NEW ring, NEW m
  PROVE  /\ RawSend(ring, m).maxItems = ring.maxItems
         /\ RawRecv(ring).maxItems = ring.maxItems
BY DEF RawSend, RawRecv, Store, Grow

\* Sending into an open ring: it may grow first, and stays open.
LEMMA RawSendOpen ==
  ASSUME NEW ring, OpenRing(ring), NEW m \in Msg
  PROVE  /\ OpenRing(RawSend(ring, m))
         /\ RawSend(ring, m).count = ring.count + 1
<1>1. ring.count \in Nat /\ ring.mask \in {-1} \cup Nat /\ ring.count <= ring.mask + 1
  BY DEF OpenRing, Fields, Window
<1>2. CASE ring.count >= ring.mask + 1
  <2>1. ring.count = ring.mask + 1
    BY <1>1, <1>2
  <2>2. /\ OpenRing(Grow(ring)) /\ Grow(ring).count = ring.count
        /\ Grow(ring).count <= Grow(ring).mask /\ Grow(ring).mask >= 0
    BY <2>1, GrowOpen
  <2>3. RawSend(ring, m) = Store(Grow(ring), m)
    BY <1>2 DEF RawSend
  <2> QED BY <2>2, <2>3, StoreOpen
<1>3. CASE ~(ring.count >= ring.mask + 1)
  <2>1. ring.mask >= 0 /\ ring.count <= ring.mask
    BY <1>1, <1>3
  <2>2. RawSend(ring, m) = Store(ring, m)
    BY <1>3 DEF RawSend
  <2> QED BY <2>1, <2>2, StoreOpen
<1> QED BY <1>2, <1>3

LEMMA SendPutInv == ASSUME Inv, NEW s \in Senders, SendPut(s) PROVE Inv'
<1> USE ChannelAssumption
<1>1. s \in Threads /\ pc[s] \in {"enter", "loop"} /\ lock = s /\ UNCHANGED lock
  BY DEF SendPut, Inv, Exclusive, Threads, Workers
<1>2. ~Closed /\ OpenRing(q) /\ q.count \in Nat
  BY <1>1 DEF Inv, ClosedDestroyed, RingSound, OpenRing, Fields
<1>3. <<s, nsent[s] + 1>> \in Msg
  BY DEF Inv, TypeOK, Msg
<1>4. OpenRing(q') /\ q'.count = q.count + 1 /\ q'.maxItems = q.maxItems
  BY <1>2, <1>3, RawSendOpen, BoundKept DEF SendPut
<1>5. ~Closed'
  BY <1>4 DEF Closed, ChannelDeadMask, OpenRing, Fields
<1>6. /\ pc' \in [Threads -> {"idle", "acquire", "tryAcquire", "enter", "loop",
                              "waiting", "woken", "release", "fatal", "undefined"}]
      /\ waiters' \subseteq Workers
      /\ Exclusive'
      /\ WaitersBlocked'
  BY <1>1, SignalInv DEF SendPut
<1>7. elemType' \in Types \cup {Nil}
  BY DEF SendPut, Types, Workers
<1>8. nsent' \in [Senders -> Nat]
  BY DEF SendPut, Inv, TypeOK
<1>9. TypeOK'
  BY <1>4, <1>6, <1>7, <1>8 DEF SendPut, Inv, TypeOK, OpenRing, Fields
<1>10. RingSound'
  <2>1. q.maxItems \in Nat
    BY DEF Inv, TypeOK
  <2> QED BY <2>1, <1>2, <1>4 DEF RingSound, SendPut, MaySend, Full
<1>11. ClosedDestroyed'
  BY <1>1, <1>2, <1>5 DEF Inv, ClosedDestroyed
<1> QED BY <1>6, <1>9, <1>10, <1>11 DEF Inv

LEMMA RecvTakeInv == ASSUME Inv, NEW r \in Receivers, RecvTake(r) PROVE Inv'
<1> USE ChannelAssumption
<1>1. r \in Threads /\ pc[r] \in {"enter", "loop"} /\ lock = r /\ UNCHANGED lock
  BY DEF RecvTake, Inv, Exclusive, Threads, Workers
<1>2. ~Closed /\ OpenRing(q) /\ q.count \in Nat /\ q.count > 0
  BY <1>1 DEF Inv, ClosedDestroyed, RingSound, OpenRing, Fields, RecvTake
<1>3. /\ OpenRing(q') /\ q'.count = q.count - 1 /\ q.data[q.rd] \in Msg
      /\ q'.maxItems = q.maxItems
  BY <1>2, RecvOpen, BoundKept DEF RecvTake
<1>4. ~Closed'
  BY <1>3 DEF Closed, ChannelDeadMask, OpenRing, Fields
<1>5. /\ pc' \in [Threads -> {"idle", "acquire", "tryAcquire", "enter", "loop",
                              "waiting", "woken", "release", "fatal", "undefined"}]
      /\ waiters' \subseteq Workers
      /\ Exclusive'
      /\ WaitersBlocked'
  BY <1>1, SignalInv DEF RecvTake
<1>6. got' \in [Receivers -> Seq(Msg)]
  <2>1. got[r] \in Seq(Msg)
    BY DEF Inv, TypeOK
  <2>2. Append(got[r], q.data[q.rd]) \in Seq(Msg)
    BY <2>1, <1>3
  <2> QED BY <2>2 DEF RecvTake, Inv, TypeOK
<1>7. TypeOK'
  BY <1>3, <1>5, <1>6 DEF RecvTake, ReadyAfterLoop, Inv, TypeOK, OpenRing, Fields
<1>8. RingSound'
  <2>1. q.maxItems \in Nat
    BY DEF Inv, TypeOK
  <2> QED BY <2>1, <1>2, <1>3 DEF RingSound, Inv
<1>9. ClosedDestroyed'
  BY <1>1, <1>2, <1>4 DEF Inv, ClosedDestroyed
<1> QED BY <1>5, <1>7, <1>8, <1>9 DEF Inv

LEMMA CloseInv == ASSUME Inv, Close PROVE Inv'
<1> USE ChannelAssumption
<1>1. Owner \in Threads /\ lock = Owner
  BY DEF Close, Inv, Exclusive, Threads
<1>2. q'.rd = q.rd /\ q'.wr = q.wr /\ q'.count = q.count /\ q'.mask = ChannelDeadMask
      /\ q'.data = NoData /\ q'.maxItems = q.maxItems
  BY DEF Close
<1>3. q'.data \in [0 .. q'.mask -> Msg \cup {Nil}]
  <2>1. 0 .. q'.mask = 0 .. -1
    BY <1>2 DEF ChannelDeadMask
  <2> QED BY <2>1, <1>2 DEF NoData
<1>4. TypeOK'
  BY <1>1, <1>2, <1>3 DEF Close, Goto, Inv, TypeOK
<1>5. Exclusive'
  BY <1>1 DEF Close, Goto, Inv, TypeOK, Exclusive
<1>6. WaitersBlocked'
  BY DEF Close, Goto, Inv, TypeOK, WaitersBlocked
<1>7. Closed' /\ lock' = Destroyed
  BY <1>2 DEF Close, Closed
<1> QED BY <1>4, <1>5, <1>6, <1>7 DEF Inv, ClosedDestroyed, RingSound

LEMMA AcquireInv == ASSUME Inv, NEW t \in Threads, Acquire(t) PROVE Inv'
<1> USE ChannelAssumption
<1>1. TypeOK'
  BY DEF Acquire, Goto, Inv, TypeOK
<1>2. Exclusive'
  BY DEF Acquire, Goto, Inv, TypeOK, Exclusive
<1>3. WaitersBlocked'
  BY DEF Acquire, Goto, Inv, TypeOK, WaitersBlocked
<1>4. ClosedDestroyed' /\ RingSound'
  BY DEF Acquire, Inv, ClosedDestroyed, RingSound, Closed
<1> QED BY <1>1, <1>2, <1>3, <1>4 DEF Inv

LEMMA TryAcquireInv == ASSUME Inv, NEW r \in Receivers, TryAcquire(r) PROVE Inv'
<1> USE ChannelAssumption
<1>1. r \in Threads
  BY DEF Threads, Workers
<1>2. TypeOK'
  BY <1>1 DEF TryAcquire, Goto, Inv, TypeOK
<1>3. Exclusive'
  BY <1>1 DEF TryAcquire, Goto, Inv, TypeOK, Exclusive
<1>4. WaitersBlocked'
  <2>1. waiters' = waiters /\ r \notin waiters
    BY DEF TryAcquire, Inv, WaitersBlocked
  <2>2. \A t \in Threads \ {r} : pc'[t] = pc[t]
    BY DEF TryAcquire, Goto, Inv, TypeOK
  <2>3. waiters \subseteq Threads
    BY DEF Inv, TypeOK, Threads
  <2> QED BY <2>1, <2>2, <2>3 DEF Inv, WaitersBlocked
<1>5. ClosedDestroyed' /\ RingSound'
  BY <1>1 DEF TryAcquire, Inv, ClosedDestroyed, RingSound, Closed
<1> QED BY <1>2, <1>3, <1>4, <1>5 DEF Inv

LEMMA NextInv == Inv /\ [Next]_vars => Inv'
<1> SUFFICES ASSUME Inv, [Next]_vars PROVE Inv'
  OBVIOUS
<1> USE ChannelAssumption
<1>0. TypeOK /\ Senders \subseteq Threads /\ Receivers \subseteq Threads /\ Owner \in Threads
      /\ Senders \subseteq Workers /\ Receivers \subseteq Workers
  BY DEF Inv, Threads, Workers
<1>1. ASSUME NEW s \in Senders, CallSend(s) PROVE Inv'
  <2>1. op' \in [Threads -> {"none", "send", "trySend", "recv", "tryRecv", "peek", "close"}]
    BY <1>0, <1>1 DEF CallSend, TypeOK
  <2>2. s \notin waiters
    BY <1>1 DEF CallSend, Inv, WaitersBlocked
  <2> QED BY <1>0, <1>1, <2>1, <2>2, OutsideInv DEF CallSend, TypeOK
<1>2. ASSUME NEW t \in Threads, CallSendDead(t) PROVE Inv'
  <2>1. t \notin waiters
    BY <1>2 DEF CallSendDead, Inv, WaitersBlocked
  <2> QED BY <1>0, <1>2, <2>1, OutsideInv DEF CallSendDead, TypeOK
<1>3. ASSUME NEW s \in Senders, TrySendFull(s) PROVE Inv'
  BY <1>0, <1>3, ToReleaseInv DEF TrySendFull
<1>4. ASSUME NEW s \in Senders, SendWait(s) PROVE Inv'
  BY <1>0, <1>4, UnlockInv DEF SendWait, Wait, TypeOK
<1>5. ASSUME NEW s \in Senders, SendPut(s) PROVE Inv'
  BY <1>5, SendPutInv
<1>6. ASSUME NEW r \in Receivers, CallRecv(r) PROVE Inv'
  <2>1. op' \in [Threads -> {"none", "send", "trySend", "recv", "tryRecv", "peek", "close"}]
    BY <1>0, <1>6 DEF CallRecv, TypeOK
  <2>2. r \notin waiters
    BY <1>6 DEF CallRecv, Inv, WaitersBlocked
  <2> QED BY <1>0, <1>6, <2>1, <2>2, OutsideInv DEF CallRecv, TypeOK
<1>7. ASSUME NEW r \in Receivers, CallTryRecv(r) PROVE Inv'
  <2>1. op' \in [Threads -> {"none", "send", "trySend", "recv", "tryRecv", "peek", "close"}]
    BY <1>0, <1>7 DEF CallTryRecv, TypeOK
  <2>2. r \notin waiters
    BY <1>7 DEF CallTryRecv, Inv, WaitersBlocked
  <2> QED BY <1>0, <1>7, <2>1, <2>2, OutsideInv DEF CallTryRecv, TypeOK
<1>8. ASSUME NEW r \in Receivers, TryAcquire(r) PROVE Inv'
  BY <1>8, TryAcquireInv
<1>9. ASSUME NEW r \in Receivers, TryRecvEmpty(r) PROVE Inv'
  BY <1>0, <1>9, ToReleaseInv DEF TryRecvEmpty
<1>10. ASSUME NEW r \in Receivers, RecvWait(r) PROVE Inv'
  BY <1>0, <1>10, UnlockInv DEF RecvWait, ReadyInLoop, Wait, TypeOK
<1>11. ASSUME NEW r \in Receivers, RecvWrongType(r) PROVE Inv'
  <2>1. /\ pc[r] \in {"enter", "loop"} /\ Goto(r, "fatal") /\ lock' = Free
        /\ waiters' = waiters /\ op' = op
        /\ UNCHANGED <<q, elemType, nsent, got, spurious>>
    BY <1>11 DEF RecvWrongType
  <2>2. ready' \in BOOLEAN
    BY <1>11 DEF RecvWrongType, ReadyAfterLoop
  <2>3. op' \in [Threads -> {"none", "send", "trySend", "recv", "tryRecv", "peek", "close"}]
    BY <1>0, <2>1 DEF TypeOK
  <2>4. r \notin waiters /\ waiters' \subseteq waiters \cup {r} 
    BY <2>1 DEF Inv, WaitersBlocked
  <2> QED BY <1>0, <2>1, <2>2, <2>3, <2>4, UnlockInv
<1>12. ASSUME NEW r \in Receivers, RecvTake(r) PROVE Inv'
  BY <1>12, RecvTakeInv
<1>13. ASSUME NEW t \in Threads, Acquire(t) PROVE Inv'
  BY <1>13, AcquireInv
<1>14. ASSUME NEW t \in Threads, AcquireDestroyed(t) PROVE Inv'
  <2>1. t \notin waiters
    BY <1>14 DEF AcquireDestroyed, Inv, WaitersBlocked
  <2> QED BY <1>0, <1>14, <2>1, OutsideInv DEF AcquireDestroyed, TypeOK
<1>15. ASSUME NEW t \in Threads, Release(t) PROVE Inv'
  <2>1. op' \in [Threads -> {"none", "send", "trySend", "recv", "tryRecv", "peek", "close"}]
    BY <1>0, <1>15 DEF Release, TypeOK
  <2>2. /\ pc[t] = "release" /\ Goto(t, "idle") /\ lock' = Free
        /\ waiters' = waiters /\ ready' = ready
        /\ UNCHANGED <<q, elemType, nsent, got, spurious>>
    BY <1>15 DEF Release
  <2>3. ready' \in BOOLEAN
    BY <1>0, <2>2 DEF TypeOK
  <2>4. t \notin waiters /\ waiters' \subseteq waiters \cup {t} 
    BY <2>2 DEF Inv, WaitersBlocked
  <2> QED BY <1>0, <2>1, <2>2, <2>3, <2>4, UnlockInv
<1>16. ASSUME NEW t \in Threads, SpuriousWakeup(t) PROVE Inv'
  <2>1. pc[t] = "waiting" /\ t \notin waiters' /\ waiters' \subseteq waiters
    BY <1>16 DEF SpuriousWakeup, Inv, WaitersBlocked
  <2>2. spurious' \in 0 .. MaxSpurious
    BY <1>0, <1>16 DEF SpuriousWakeup, TypeOK
  <2> QED BY <1>0, <1>16, <2>1, <2>2, OutsideInv DEF SpuriousWakeup, TypeOK
<1>17. ASSUME CallPeek \/ CallClose PROVE Inv'
  <2>1. op' \in [Threads -> {"none", "send", "trySend", "recv", "tryRecv", "peek", "close"}]
    BY <1>0, <1>17 DEF CallPeek, CallClose, TypeOK
  <2>2. Owner \notin waiters
    BY <1>0 DEF TypeOK
  <2> QED BY <1>0, <1>17, <2>1, <2>2, OutsideInv DEF CallPeek, CallClose, TypeOK
<1>18. ASSUME Peek PROVE Inv'
  BY <1>0, <1>18, ToReleaseInv DEF Peek
<1>19. ASSUME Close PROVE Inv'
  BY <1>19, CloseInv
<1>20. ASSUME UNCHANGED vars PROVE Inv'
  BY <1>20 DEF vars, Inv, TypeOK, Exclusive, WaitersBlocked, ClosedDestroyed,
              RingSound, Closed
<1> QED
  BY <1>0, <1>1, <1>2, <1>3, <1>4, <1>5, <1>6, <1>7, <1>8, <1>9, <1>10, <1>11, <1>12,
     <1>13, <1>14, <1>15, <1>16, <1>17, <1>18, <1>19, <1>20
  DEF Next, SendStep, RecvStep, LockStep, OwnerStep

\* Inv holds in every state the channel reaches.
LEMMA AlwaysInv == Spec => []Inv
BY InitInv, NextInv, PTL DEF Spec

\* The variables keep their types; above all a receiver is only ever handed a
\* message some sender sent, never an unset slot of the ring.
THEOREM TypeCorrect == Spec => []TypeOK
<1>1. Inv => TypeOK
  BY DEF Inv
<1> QED BY <1>1, AlwaysInv, PTL

\* No two threads are ever inside the channel's critical sections.
THEOREM MutualExclusion == Spec => []Exclusive
<1>1. Inv => Exclusive
  BY DEF Inv
<1> QED BY <1>1, AlwaysInv, PTL

\* The ring of an open channel is always a window from rd to wr that fits its
\* capacity and the bound given to open.
THEOREM RingCorrect == Spec => []RingOK
<1>1. Inv => RingOK
  BY DEF Inv, RingSound, RingOK, OpenRing, Window
<1> QED BY <1>1, AlwaysInv, PTL

(* ------------------- The channel is a FIFO queue ----------------------- *)

\* The contents of an open ring form a sequence of messages, count long.
LEMMA ContentsSeq ==
  ASSUME NEW ring, OpenRing(ring)
  PROVE  /\ Contents(ring) \in Seq(Msg)
         /\ Len(Contents(ring)) = ring.count
         /\ ring.count \in Nat
         /\ \A k \in 1 .. ring.count :
              Contents(ring)[k] = ring.data[Slot(ring.rd + k - 1, ring)]
<1>1. ring.count \in Nat /\ ring.rd \in Nat
  BY DEF OpenRing, Fields
<1>2. \A k \in 1 .. ring.count : ring.data[Slot(ring.rd + k - 1, ring)] \in Msg
  <2> SUFFICES ASSUME NEW k \in 1 .. ring.count
               PROVE  ring.data[Slot(ring.rd + k - 1, ring)] \in Msg
    OBVIOUS
  <2>1. k - 1 \in 0 .. ring.count - 1 /\ ring.rd + (k - 1) = ring.rd + k - 1
    BY <1>1
  <2>2. ring.data[Slot(ring.rd + (k - 1), ring)] \in Msg
    BY <2>1 DEF OpenRing, Window
  <2> QED BY <2>1, <2>2
<1>3. Contents(ring) \in [1 .. ring.count -> Msg]
  BY <1>2 DEF Contents
<1>4. Contents(ring) \in Seq(Msg)
  BY <1>1, <1>3, SeqDef
<1>5. 1 .. Len(Contents(ring)) = 1 .. ring.count /\ Len(Contents(ring)) \in Nat
  BY <1>3, <1>4, LenProperties
<1>6. Len(Contents(ring)) = ring.count
  BY <1>1, <1>5
<1> QED BY <1>1, <1>4, <1>6 DEF Contents

\* Growing does not change the contents.
LEMMA GrowContents ==
  ASSUME NEW ring, OpenRing(ring), ring.count = ring.mask + 1
  PROVE  Contents(Grow(ring)) = Contents(ring)
<1> DEFINE g == Grow(ring)
<1>1. /\ OpenRing(g) /\ g.count = ring.count /\ g.rd = 0 /\ g.count <= g.mask
      /\ \A k \in 0 .. ring.count - 1 : g.data[k] = ring.data[Slot(ring.rd + k, ring)]
  BY GrowOpen
<1>2. ring.count \in Nat /\ ring.rd \in Nat /\ g.mask + 1 \in Nat /\ g.mask \in Int
  BY <1>1 DEF OpenRing, Fields
<1> HIDE DEF g
<1>3. ASSUME NEW k \in 1 .. ring.count
      PROVE  g.data[Slot(g.rd + k - 1, g)] = ring.data[Slot(ring.rd + k - 1, ring)]
  <2>1. k - 1 \in Nat /\ k - 1 < g.mask + 1 /\ g.rd + k - 1 = k - 1
        /\ k - 1 \in 0 .. ring.count - 1 /\ ring.rd + (k - 1) = ring.rd + k - 1
    BY <1>1, <1>2
  <2>2. (k - 1) % (g.mask + 1) = k - 1
    BY <2>1, <1>2, SlotInside
  <2>3. Slot(g.rd + k - 1, g) = k - 1
    BY <2>1, <2>2 DEF Slot
  <2>4. g.data[k - 1] = ring.data[Slot(ring.rd + (k - 1), ring)]
    BY <2>1, <1>1
  <2> QED BY <2>1, <2>3, <2>4
<1>4. Contents(g) = Contents(ring)
  BY <1>1, <1>3 DEF Contents
<1> QED BY <1>4 DEF g

\* Storing appends to the contents.
LEMMA StoreContents ==
  ASSUME NEW ring, OpenRing(ring), ring.mask >= 0, ring.count <= ring.mask,
         NEW m \in Msg
  PROVE  Contents(Store(ring, m)) = Append(Contents(ring), m)
<1> DEFINE st == Store(ring, m)
<1>1. /\ OpenRing(st) /\ st.count = ring.count + 1 /\ st.rd = ring.rd /\ st.mask = ring.mask
      /\ \A k \in 0 .. ring.count - 1 :
           st.data[Slot(ring.rd + k, ring)] = ring.data[Slot(ring.rd + k, ring)]
      /\ st.data[Slot(ring.rd + ring.count, ring)] = m
  BY StoreOpen
<1> HIDE DEF st
<1>2. /\ Contents(ring) \in Seq(Msg) /\ Len(Contents(ring)) = ring.count
      /\ ring.count \in Nat /\ ring.rd \in Nat
      /\ \A k \in 1 .. ring.count :
           Contents(ring)[k] = ring.data[Slot(ring.rd + k - 1, ring)]
  BY ContentsSeq DEF OpenRing, Fields
<1>3. /\ Contents(st) \in Seq(Msg) /\ Len(Contents(st)) = ring.count + 1
      /\ \A k \in 1 .. ring.count + 1 :
           Contents(st)[k] = st.data[Slot(st.rd + k - 1, st)]
  BY <1>1, ContentsSeq
<1>4. /\ Append(Contents(ring), m) \in Seq(Msg)
      /\ Len(Append(Contents(ring), m)) = ring.count + 1
  BY <1>2
<1>5. ASSUME NEW k \in 1 .. ring.count + 1
      PROVE  Contents(st)[k] = Append(Contents(ring), m)[k]
  <2>1. Slot(st.rd + k - 1, st) = Slot(ring.rd + (k - 1), ring)
    <3>1. st.rd + k - 1 = ring.rd + (k - 1)
      BY <1>1, <1>2
    <3> QED BY <3>1, <1>1 DEF Slot
  <2>2. CASE k = ring.count + 1
    <3>1. k - 1 = ring.count
      BY <2>2, <1>2
    <3>2. Append(Contents(ring), m)[k] = m
      BY <2>2, <1>2
    <3> QED BY <2>1, <3>1, <3>2, <1>1, <1>3
  <2>3. CASE k \in 1 .. ring.count
    <3>1. k - 1 \in 0 .. ring.count - 1 /\ ring.rd + (k - 1) = ring.rd + k - 1
      BY <2>3, <1>2
    <3>2. Append(Contents(ring), m)[k] = Contents(ring)[k]
      BY <2>3, <1>2
    <3>3. st.data[Slot(ring.rd + (k - 1), ring)] = ring.data[Slot(ring.rd + k - 1, ring)]
      BY <3>1, <1>1
    <3> QED BY <2>1, <2>3, <3>2, <3>3, <1>2, <1>3
  <2> QED BY <2>2, <2>3, <1>2
<1>6. Contents(st) = Append(Contents(ring), m)
  BY <1>2, <1>3, <1>4, <1>5, SeqEqual
<1> QED BY <1>6 DEF st

LEMMA RawSendContents ==
  ASSUME NEW ring, OpenRing(ring), NEW m \in Msg
  PROVE  Contents(RawSend(ring, m)) = Append(Contents(ring), m)
<1>1. ring.count \in Nat /\ ring.mask \in {-1} \cup Nat /\ ring.count <= ring.mask + 1
  BY DEF OpenRing, Fields, Window
<1>2. CASE ring.count >= ring.mask + 1
  <2>1. ring.count = ring.mask + 1
    BY <1>1, <1>2
  <2>2. /\ OpenRing(Grow(ring)) /\ Grow(ring).count <= Grow(ring).mask
        /\ Grow(ring).mask >= 0 /\ Contents(Grow(ring)) = Contents(ring)
    BY <2>1, GrowOpen, GrowContents
  <2>3. RawSend(ring, m) = Store(Grow(ring), m)
    BY <1>2 DEF RawSend
  <2> QED BY <2>2, <2>3, StoreContents
<1>3. CASE ~(ring.count >= ring.mask + 1)
  <2>1. ring.mask >= 0 /\ ring.count <= ring.mask
    BY <1>1, <1>3
  <2>2. RawSend(ring, m) = Store(ring, m)
    BY <1>3 DEF RawSend
  <2> QED BY <2>1, <2>2, StoreContents
<1> QED BY <1>2, <1>3

\* Receiving takes the head of the contents.
LEMMA RawRecvContents ==
  ASSUME NEW ring, OpenRing(ring), ring.count > 0
  PROVE  /\ Contents(ring) # << >>
         /\ Head(Contents(ring)) = ring.data[ring.rd]
         /\ Contents(RawRecv(ring)) = Tail(Contents(ring))
<1> DEFINE t == RawRecv(ring)
<1>1. /\ OpenRing(t) /\ t.count = ring.count - 1 /\ t.mask = ring.mask /\ t.data = ring.data
      /\ \A k \in 0 .. ring.count - 2 : Slot(t.rd + k, ring) = Slot(ring.rd + k + 1, ring)
      /\ ring.rd = Slot(ring.rd, ring)
  BY RecvOpen
<1> HIDE DEF t
<1>2. /\ Contents(ring) \in Seq(Msg) /\ Len(Contents(ring)) = ring.count
      /\ ring.count \in Nat /\ ring.rd \in Nat /\ t.rd \in Nat
      /\ \A k \in 1 .. ring.count :
           Contents(ring)[k] = ring.data[Slot(ring.rd + k - 1, ring)]
  BY <1>1, ContentsSeq DEF OpenRing, Fields
<1>3. /\ Contents(t) \in Seq(Msg) /\ Len(Contents(t)) = ring.count - 1
      /\ \A k \in 1 .. ring.count - 1 : Contents(t)[k] = t.data[Slot(t.rd + k - 1, t)]
  BY <1>1, ContentsSeq
<1>4. Contents(ring) # << >>
  BY <1>2
<1>5. Head(Contents(ring)) = ring.data[ring.rd]
  <2>1. Head(Contents(ring)) = Contents(ring)[1]
    BY <1>2, <1>4
  <2>2. Contents(ring)[1] = ring.data[Slot(ring.rd + 1 - 1, ring)]
    BY <1>2
  <2>3. ring.rd + 1 - 1 = ring.rd
    BY <1>2
  <2> QED BY <2>1, <2>2, <2>3, <1>1
<1>6. /\ Tail(Contents(ring)) \in Seq(Msg)
      /\ Len(Tail(Contents(ring))) = ring.count - 1
      /\ \A k \in 1 .. ring.count - 1 : Tail(Contents(ring))[k] = Contents(ring)[k + 1]
  BY <1>2, <1>4, HeadTailProperties
<1>7. ASSUME NEW k \in 1 .. ring.count - 1
      PROVE  Contents(t)[k] = Tail(Contents(ring))[k]
  <2>1. /\ k - 1 \in 0 .. ring.count - 2 /\ k + 1 \in 1 .. ring.count
        /\ t.rd + k - 1 = t.rd + (k - 1)
        /\ ring.rd + (k - 1) + 1 = ring.rd + (k + 1) - 1
    BY <1>2
  <2>2. Slot(t.rd + (k - 1), ring) = Slot(ring.rd + (k - 1) + 1, ring)
    BY <2>1, <1>1
  <2>3. Slot(t.rd + k - 1, t) = Slot(ring.rd + (k + 1) - 1, ring)
    BY <2>1, <2>2, <1>1 DEF Slot
  <2>4. Contents(ring)[k + 1] = ring.data[Slot(ring.rd + (k + 1) - 1, ring)]
    BY <2>1, <1>2
  <2> QED BY <2>3, <2>4, <1>1, <1>3, <1>6
<1>8. Contents(t) = Tail(Contents(ring))
  BY <1>3, <1>6, <1>7, SeqEqual
<1> QED BY <1>4, <1>5, <1>8 DEF t

\* Every step of the channel is a step of the queue or none.
LEMMA FifoStep ==
  ASSUME Inv, Inv', [Next]_vars
  PROVE  [Fifo!FNext]_Fifo!fvars
<1> USE ChannelAssumption
<1> DEFINE queue == IF Closed THEN << >> ELSE Contents(q)
<1>1. /\ TypeOK /\ Senders \subseteq Threads /\ Receivers \subseteq Threads
      /\ Owner \in Threads
  BY DEF Inv, Threads, Workers
<1>2. ASSUME UNCHANGED <<q, nsent, got>> PROVE UNCHANGED Fifo!fvars
  BY <1>2 DEF Fifo!fvars, Closed, Contents, Slot
<1>3. ASSUME NEW s \in Senders, SendPut(s) PROVE Fifo!FSend(s)
  <2>1. ~Closed /\ OpenRing(q) /\ UNCHANGED lock
    BY <1>1, <1>3 DEF SendPut, Inv, Exclusive, ClosedDestroyed, RingSound
  <2>2. ~Closed'
    BY <2>1 DEF Inv, ClosedDestroyed
  <2>3. <<s, nsent[s] + 1>> \in Msg
    BY <1>1 DEF TypeOK, Msg
  <2>4. Contents(q') = Append(Contents(q), <<s, nsent[s] + 1>>)
    BY <1>3, <2>1, <2>3, RawSendContents DEF SendPut
  <2>5. q.maxItems > 0 => Len(Contents(q)) < q.maxItems
    <3>1. q.maxItems \in Nat /\ q.count \in Nat
      BY <1>1 DEF TypeOK
    <3> QED BY <3>1, <1>3, <2>1, ContentsSeq DEF SendPut, MaySend, Full
  <2>6. /\ nsent' = [nsent EXCEPT ![s] = @ + 1] /\ UNCHANGED got
        /\ q'.maxItems = q.maxItems
    BY <1>3, BoundKept DEF SendPut
  <2>7. queue = Contents(q) /\ queue' = Contents(q')
    BY <2>1, <2>2 DEF Contents, Slot
  <2> QED BY <2>1, <2>2, <2>4, <2>5, <2>6, <2>7 DEF Fifo!FSend, Closed
<1>4. ASSUME NEW r \in Receivers, RecvTake(r) PROVE Fifo!FRecv(r)
  <2>1. ~Closed /\ OpenRing(q) /\ UNCHANGED lock /\ q.count > 0
    BY <1>1, <1>4 DEF RecvTake, Inv, Exclusive, ClosedDestroyed, RingSound
  <2>2. ~Closed'
    BY <2>1 DEF Inv, ClosedDestroyed
  <2>3. /\ Contents(q) # << >> /\ Head(Contents(q)) = q.data[q.rd]
        /\ Contents(q') = Tail(Contents(q))
    BY <1>4, <2>1, RawRecvContents DEF RecvTake
  <2>4. /\ got' = [got EXCEPT ![r] = Append(@, q.data[q.rd])] /\ UNCHANGED nsent
        /\ q'.maxItems = q.maxItems
    BY <1>4, BoundKept DEF RecvTake
  <2>5. queue = Contents(q) /\ queue' = Contents(q')
    BY <2>1, <2>2 DEF Contents, Slot
  <2> QED BY <2>1, <2>2, <2>3, <2>4, <2>5 DEF Fifo!FRecv, Closed
<1>5. ASSUME Close PROVE Fifo!FClose
  <2>1. ~Closed
    BY <1>1, <1>5 DEF Close, Inv, Exclusive, ClosedDestroyed
  <2>2. Closed' /\ UNCHANGED <<nsent, got>> /\ q'.maxItems = q.maxItems
    BY <1>5 DEF Close, Closed
  <2> QED BY <2>1, <2>2 DEF Fifo!FClose
<1>6. CASE UNCHANGED vars
  BY <1>2, <1>6 DEF vars
<1>7. ASSUME NEW s \in Senders, SendStep(s)
      PROVE  SendPut(s) \/ UNCHANGED <<q, nsent, got>>
  BY <1>7 DEF SendStep, CallSend, CallSendDead, TrySendFull, SendWait
<1>8. ASSUME NEW r \in Receivers, RecvStep(r)
      PROVE  RecvTake(r) \/ UNCHANGED <<q, nsent, got>>
  BY <1>8 DEF RecvStep, CallRecv, CallTryRecv, TryAcquire, TryRecvEmpty, RecvWait,
              RecvWrongType
<1>9. ASSUME NEW t \in Threads, LockStep(t) \/ SpuriousWakeup(t)
      PROVE  UNCHANGED <<q, nsent, got>>
  BY <1>9 DEF LockStep, Acquire, AcquireDestroyed, Release, SpuriousWakeup
<1>10. ASSUME OwnerStep PROVE Close \/ UNCHANGED <<q, nsent, got>>
  BY <1>10 DEF OwnerStep, CallPeek, Peek, CallClose, CallSendDead
<1> QED
  BY <1>2, <1>3, <1>4, <1>5, <1>6, <1>7, <1>8, <1>9, <1>10 DEF Next, Fifo!FNext

\* The channel implements the FIFO queue of ChannelFifo: whatever the number
\* of threads, whatever wraps, grows, wakes up or closes.
THEOREM ChannelImplementsFifo == Spec => ImplementsFifo
<1>1. Init => Fifo!FInit
  <2> SUFFICES ASSUME Init PROVE Fifo!FInit
    OBVIOUS
  <2> PICK max \in MaxItems : q = EmptyRing(max)
    BY DEF Init
  <2>1. ~Closed /\ q.maxItems = max
    BY DEF Closed, ChannelDeadMask, EmptyRing
  <2>2. Contents(EmptyRing(max)) \in Seq(Msg) /\ Len(Contents(EmptyRing(max))) = 0
    BY EmptyRingOpen, ContentsSeq DEF EmptyRing
  <2>3. Contents(q) = << >>
    BY <2>2, EmptySeq DEF Init
  <2> QED BY <2>1, <2>3 DEF Init, Fifo!FInit
<1>2. Inv /\ Inv' /\ [Next]_vars => [Fifo!FNext]_Fifo!fvars
  BY FifoStep
<1> QED BY <1>1, <1>2, AlwaysInv, PTL DEF Spec, ImplementsFifo, Fifo!FSpec

(* --------------------------- Who waits for what ------------------------ *)

\* The kinds of steps, by what they do to the threads that wait.
Alone(t) == \A u \in Threads : u # t => pc'[u] = pc[u] /\ op'[u] = op[u]
SameBounds == q'.maxItems = q.maxItems

\* A step that meets nobody.
Strolls(t) ==
  /\ Alone(t) /\ waiters' = waiters
  /\ UNCHANGED <<ready, elemType>> /\ q'.count = q.count /\ SameBounds
  /\ Closed => Closed'
  /\ pc[t] \notin {"waiting", "loop"} /\ pc'[t] \notin {"waiting", "woken"}
  /\ pc[t] = "woken" => \/ pc'[t] = "loop" /\ op' = op
                        \/ pc'[t] = "undefined" /\ lock = Destroyed
  /\ pc'[t] = "loop" => pc[t] = "woken"

Sleeps(t) ==
  /\ Alone(t) /\ pc[t] \in {"enter", "loop"} /\ pc'[t] = "waiting"
  /\ waiters' = waiters \cup {t} /\ UNCHANGED <<q, elemType, op>>
SleepsSending(s) == Sleeps(s) /\ op[s] = "send" /\ Full /\ ready' = ready
SleepsReceiving(r) == Sleeps(r) /\ op[r] = "recv" /\ q.count = 0 /\ ready' = (pc[r] = "enter" \/ ready)

Signals(t) ==
  \/ waiters = {} /\ waiters' = {} /\ Alone(t)
  \/ \E w \in waiters :
       /\ waiters' = waiters \ {w} /\ pc'[w] = "woken"
       /\ \A u \in Threads \ {t, w} : pc'[u] = pc[u]

Leaves(t) == pc[t] \in {"enter", "loop"} /\ pc'[t] = "release" /\ op' = op /\ SameBounds

Puts(s) ==
  /\ Leaves(s) /\ Signals(s) /\ ~Full /\ op[s] \in {"send", "trySend"}
  /\ q'.count = q.count + 1 /\ elemType' = TypeOf[s] /\ ready' = ready

Takes(r) ==
  /\ Leaves(r) /\ q.count > 0 /\ op[r] \in {"recv", "tryRecv"}
  /\ q'.count = q.count - 1 /\ elemType' = elemType /\ ready' = FALSE
  /\ IF SenderMayWait(q') THEN Signals(r) ELSE Alone(r) /\ waiters' = waiters

Fails(r) ==
  /\ Alone(r) /\ waiters' = waiters /\ op' = op /\ UNCHANGED <<q, elemType>>
  /\ pc[r] \in {"enter", "loop"} /\ pc'[r] = "fatal"
  /\ q.count > 0 /\ TypeOf[r] # elemType /\ ready' = FALSE

WakesUnasked(t) ==
  /\ Alone(t) /\ t \in waiters /\ waiters' = waiters \ {t} /\ pc'[t] = "woken"
  /\ UNCHANGED <<q, elemType, op, ready>>

Meets ==
  \/ \E t \in Threads : Strolls(t) \/ WakesUnasked(t)
  \/ \E s \in Senders : SleepsSending(s) \/ Puts(s)
  \/ \E r \in Receivers : SleepsReceiving(r) \/ Takes(r) \/ Fails(r)

LEMMA SignalMeets ==
  ASSUME Inv, NEW t \in Workers, pc[t] \in {"enter", "loop"}, SignalAndLeave(t), op' = op
  PROVE  Signals(t) /\ pc'[t] = "release"
<1>1. t \in Threads /\ waiters \subseteq Threads /\ t \notin waiters
      /\ pc \in [Threads -> {pc[u] : u \in Threads}]
  BY DEF Inv, TypeOK, WaitersBlocked, Threads
<1>2. CASE waiters = {}
  BY <1>1, <1>2 DEF SignalAndLeave, Goto, Signals, Alone
<1>3. CASE waiters # {}
  <2>1. PICK w \in waiters : /\ waiters' = waiters \ {w}
                             /\ pc' = [pc EXCEPT ![t] = "release", ![w] = "woken"]
    BY <1>3 DEF SignalAndLeave
  <2>2. pc'[t] = "release" /\ pc'[w] = "woken" /\ \A u \in Threads \ {t, w} : pc'[u] = pc[u]
    BY <1>1, <2>1
  <2> QED BY <2>1, <2>2 DEF Signals
<1> QED BY <1>2, <1>3

LEMMA StepMeets == ASSUME Inv, Next PROVE Meets
<1> USE ChannelAssumption
<1>1. /\ TypeOK /\ WaitersBlocked /\ Owner \in Threads
      /\ \A w \in Workers : w \in Threads
      /\ Senders \subseteq Workers /\ Receivers \subseteq Workers
  BY DEF Inv, Threads, Workers
<1>2. /\ pc \in [Threads -> {pc[u] : u \in Threads}] /\ op \in [Threads -> {op[u] : u \in Threads}]
      /\ q.count \in Nat
  BY <1>1 DEF TypeOK
<1> USE <1>2 DEF Goto, Alone, SameBounds, Closed
<1>3. ASSUME NEW s \in Senders, CallSend(s) \/ CallSendDead(s) \/ TrySendFull(s) PROVE Strolls(s)
  BY <1>1, <1>3 DEF CallSend, CallSendDead, TrySendFull, Strolls
<1>4. ASSUME NEW s \in Senders, SendWait(s) PROVE SleepsSending(s)
  BY <1>1, <1>4 DEF SendWait, Wait, SleepsSending, Sleeps
<1>5. ASSUME NEW s \in Senders, SendPut(s) PROVE Puts(s)
  <2>1. q'.count = q.count + 1 /\ q'.maxItems = q.maxItems
    BY <1>5 DEF SendPut, RawSend, Store, Grow
  <2>2. pc[s] \in {"enter", "loop"} /\ SignalAndLeave(s) /\ op' = op /\ op[s] \in {"send", "trySend"}
        /\ ~Full /\ elemType' = TypeOf[s] /\ ready' = ready
    BY <1>5 DEF SendPut, MaySend
  <2>3. Signals(s) /\ pc'[s] = "release"
    BY <1>1, <2>2, SignalMeets
  <2> QED BY <2>1, <2>2, <2>3 DEF Puts, Leaves
<1>6. ASSUME NEW r \in Receivers, CallRecv(r) \/ CallTryRecv(r) \/ TryAcquire(r) \/ TryRecvEmpty(r)
      PROVE  Strolls(r)
  BY <1>1, <1>6 DEF CallRecv, CallTryRecv, TryAcquire, TryRecvEmpty, Strolls
<1>7. ASSUME NEW r \in Receivers, RecvWait(r) PROVE SleepsReceiving(r)
  BY <1>1, <1>7 DEF RecvWait, Wait, ReadyInLoop, SleepsReceiving, Sleeps
<1>8. ASSUME NEW r \in Receivers, RecvWrongType(r) PROVE Fails(r)
  BY <1>1, <1>8 DEF RecvWrongType, ReadyAfterLoop, Fails
<1>9. ASSUME NEW r \in Receivers, RecvTake(r) PROVE Takes(r)
  <2>1. q'.count = q.count - 1 /\ q'.maxItems = q.maxItems
    BY <1>9 DEF RecvTake, RawRecv
  <2>2. pc[r] \in {"enter", "loop"} /\ op' = op /\ op[r] \in {"recv", "tryRecv"} /\ q.count > 0
        /\ elemType' = elemType /\ ready' = FALSE
        /\ IF SenderMayWait(q') THEN SignalAndLeave(r) ELSE Goto(r, "release") /\ UNCHANGED waiters
    BY <1>9 DEF RecvTake, ReadyAfterLoop
  <2>3. IF SenderMayWait(q') THEN Signals(r) /\ pc'[r] = "release"
        ELSE Alone(r) /\ waiters' = waiters /\ pc'[r] = "release"
    BY <1>1, <2>2, SignalMeets
  <2> QED BY <2>1, <2>2, <2>3 DEF Takes, Leaves
<1>10. ASSUME NEW t \in Threads, LockStep(t) PROVE Strolls(t)
  BY <1>10 DEF LockStep, Acquire, AcquireDestroyed, Release, Strolls
<1>11. ASSUME NEW t \in Threads, SpuriousWakeup(t) PROVE WakesUnasked(t)
  BY <1>11 DEF SpuriousWakeup, WakesUnasked
<1>12. ASSUME OwnerStep PROVE Strolls(Owner)
  <2>1. CASE CallPeek \/ Peek \/ CallClose \/ CallSendDead(Owner)
    BY <1>1, <2>1 DEF CallPeek, Peek, CallClose, CallSendDead, Strolls
  <2>2. CASE Close
    BY <1>1, <2>2 DEF Close, Strolls
  <2> QED BY <1>12, <2>1, <2>2 DEF OwnerStep
<1> QED
  BY <1>1, <1>3, <1>4, <1>5, <1>6, <1>7, <1>8, <1>9, <1>10, <1>11, <1>12
  DEF Next, SendStep, RecvStep, Meets

\* Who waits does so in send, for room, or in recv, for a message.
CallsKnown ==
  \A t \in waiters : op[t] = (IF t \in Senders THEN "send" ELSE "recv")

LEMMA CallsStep == ASSUME Inv, CallsKnown, Meets PROVE CallsKnown'
<1>1. /\ waiters \subseteq Threads /\ WaitersBlocked
      /\ \A r \in Receivers : r \notin Senders /\ r \in Threads
      /\ \A s \in Senders : s \in Threads
  BY ChannelAssumption DEF Inv, TypeOK, Threads, Workers
<1>2. ASSUME NEW t \in Threads, Strolls(t) PROVE CallsKnown'
  BY <1>1, <1>2 DEF Strolls, Alone, CallsKnown, WaitersBlocked
<1>3. ASSUME NEW t \in Threads, WakesUnasked(t) PROVE CallsKnown'
  BY <1>3 DEF WakesUnasked, CallsKnown
<1>4. ASSUME NEW s \in Senders, SleepsSending(s) PROVE CallsKnown'
  BY <1>4 DEF SleepsSending, Sleeps, CallsKnown
<1>5. ASSUME NEW r \in Receivers, SleepsReceiving(r) PROVE CallsKnown'
  BY <1>1, <1>5 DEF SleepsReceiving, Sleeps, CallsKnown
<1>6. ASSUME NEW s \in Senders, Puts(s) PROVE CallsKnown'
  BY <1>6 DEF Puts, Leaves, Signals, CallsKnown
<1>7. ASSUME NEW r \in Receivers, Takes(r) \/ Fails(r) PROVE CallsKnown'
  BY <1>7 DEF Takes, Fails, Leaves, Signals, CallsKnown
<1> QED BY <1>2, <1>3, <1>4, <1>5, <1>6, <1>7 DEF Meets

(* -------------------------------- ready -------------------------------- *)

\* A lone receiver that waits, or has been woken and not yet looked, is announced.
LoneReceiver == \A r, u \in Receivers : r = u
Announced == \A r \in Receivers : pc[r] \in {"waiting", "woken", "loop"} => ready

\* Where one thread receives, ready is set whenever it waits; a second receiver
\* would clear it.
THEOREM WaitingIsAnnounced == ASSUME LoneReceiver PROVE Spec => []ReadyIfWaiting
<1>1. Init => Announced
  BY DEF Init, Announced, Threads, Workers
<1>2. Inv /\ Announced /\ [Next]_vars => Announced'
  <2> SUFFICES ASSUME Inv, Announced, [Next]_vars PROVE Announced'
    OBVIOUS
  <2>1. CASE UNCHANGED vars
    BY <2>1 DEF vars, Announced
  <2>2. CASE Next
    <3>1. /\ Meets /\ WaitersBlocked /\ waiters \subseteq Workers
          /\ \A r \in Receivers : r \in Threads /\ r \notin Senders
      BY <2>2, StepMeets, ChannelAssumption DEF Inv, TypeOK, Threads, Workers
    <3>2. ASSUME NEW t \in Threads, Strolls(t) PROVE Announced'
      BY <3>1, <3>2 DEF Strolls, Alone, Announced
    <3>3. ASSUME NEW t \in Threads, WakesUnasked(t) PROVE Announced'
      BY <3>1, <3>3 DEF WakesUnasked, Alone, Announced, WaitersBlocked
    <3>4. ASSUME NEW s \in Senders, SleepsSending(s) PROVE Announced'
      BY <3>1, <3>4 DEF SleepsSending, Sleeps, Alone, Announced
    <3>5. ASSUME NEW r \in Receivers, SleepsReceiving(r) PROVE Announced'
      BY <3>1, <3>5 DEF SleepsReceiving, Sleeps, Alone, Announced, LoneReceiver
    <3>6. ASSUME NEW s \in Senders, Puts(s) PROVE Announced'
      BY <3>1, <3>6 DEF Puts, Leaves, Signals, Alone, Announced, WaitersBlocked
    <3>7. ASSUME NEW r \in Receivers, Takes(r) \/ Fails(r) PROVE Announced'
      BY <3>1, <3>7 DEF Takes, Fails, Leaves, Announced, LoneReceiver
    <3> QED BY <3>1, <3>2, <3>3, <3>4, <3>5, <3>6, <3>7 DEF Meets
  <2> QED BY <2>1, <2>2
<1>3. Announced => ReadyIfWaiting
  BY DEF Announced, ReadyIfWaiting
<1> QED BY <1>1, <1>2, <1>3, AlwaysInv, PTL DEF Spec

\* Nothing opens a channel again, for nobody is inside a closed one.
LEMMA ClosedStays == ASSUME Inv, Next, Closed PROVE Closed'
<1>1. Meets
  BY StepMeets
<1>2. \A t \in Threads : pc[t] \notin {"enter", "loop", "release"}
  BY ChannelAssumption DEF Inv, Exclusive, ClosedDestroyed
<1>3. Senders \subseteq Threads /\ Receivers \subseteq Threads
  BY DEF Threads, Workers
<1>4. ~\E s \in Senders : Puts(s)
  BY <1>2, <1>3 DEF Puts, Leaves
<1>5. ~\E r \in Receivers : Takes(r)
  BY <1>2, <1>3 DEF Takes, Leaves
<1>6. (\E t \in Threads : Strolls(t)) \/ q' = q
  BY <1>1, <1>4, <1>5 DEF Meets, WakesUnasked, SleepsSending, SleepsReceiving, Sleeps, Fails
<1> QED BY <1>6 DEF Strolls, Closed

\* As long as the channel is open ready is set only while a receiver is in recv and
\* has no message yet, however many receive and send.
THEOREM AnnouncedIsWaiting == Spec => []ReadyOnlyIfWaiting
<1>1. Init => ReadyOnlyIfWaiting
  BY DEF Init, ReadyOnlyIfWaiting
<1>2. Inv /\ ReadyOnlyIfWaiting /\ [Next]_vars => ReadyOnlyIfWaiting'
  <2> SUFFICES ASSUME Inv, ReadyOnlyIfWaiting, [Next]_vars PROVE ReadyOnlyIfWaiting'
    OBVIOUS
  <2>1. CASE UNCHANGED vars
    BY <2>1 DEF vars, ReadyOnlyIfWaiting, Closed
  <2>2. CASE Next
    <3>1. /\ Meets /\ WaitersBlocked /\ waiters \subseteq Workers
          /\ \A r \in Receivers : r \in Threads /\ r \notin Senders
      BY <2>2, StepMeets, ChannelAssumption DEF Inv, TypeOK, Threads, Workers
    <3>0. ~Closed' => ~Closed
      BY <2>2, ClosedStays
    <3> SUFFICES ASSUME ready', ~Closed, lock # Destroyed
                 PROVE  \E r \in Receivers : op'[r] = "recv" /\ pc'[r] \in {"waiting", "woken", "loop"}
      BY <3>0 DEF ReadyOnlyIfWaiting, Inv, ClosedDestroyed
    <3>2. ASSUME NEW r \in Receivers, SleepsReceiving(r)
          PROVE  op'[r] = "recv" /\ pc'[r] \in {"waiting", "woken", "loop"}
      BY <3>2 DEF SleepsReceiving, Sleeps
    <3>3. CASE \E r \in Receivers : SleepsReceiving(r)
      BY <3>2, <3>3
    <3>4. ~\E r \in Receivers : Takes(r) \/ Fails(r)
      BY DEF Takes, Fails
    <3>5. CASE ~\E r \in Receivers : SleepsReceiving(r)
      <4>1. ready
        BY <3>1, <3>4, <3>5 DEF Meets, Strolls, WakesUnasked, SleepsSending, Puts
      <4>2. PICK r \in Receivers : op[r] = "recv" /\ pc[r] \in {"waiting", "woken", "loop"}
        BY <4>1 DEF ReadyOnlyIfWaiting
      <4>3. r \in Threads /\ r \notin Senders
        BY <3>1
      <4>4. ASSUME NEW t \in Threads, Strolls(t)
            PROVE  op'[r] = "recv" /\ pc'[r] \in {"waiting", "woken", "loop"}
        BY <4>2, <4>3, <4>4 DEF Strolls, Alone
      <4>5. ASSUME NEW t \in Threads, WakesUnasked(t)
            PROVE  op'[r] = "recv" /\ pc'[r] \in {"waiting", "woken", "loop"}
        BY <4>2, <4>3, <4>5 DEF WakesUnasked, Alone
      <4>6. ASSUME NEW s \in Senders, SleepsSending(s)
            PROVE  op'[r] = "recv" /\ pc'[r] \in {"waiting", "woken", "loop"}
        BY <4>2, <4>3, <4>6 DEF SleepsSending, Sleeps, Alone
      <4>7. ASSUME NEW s \in Senders, Puts(s)
            PROVE  op'[r] = "recv" /\ pc'[r] \in {"waiting", "woken", "loop"}
        BY <4>2, <4>3, <4>7 DEF Puts, Leaves, Signals, Alone
      <4> QED BY <3>1, <3>4, <3>5, <4>4, <4>5, <4>6, <4>7 DEF Meets
    <3> QED BY <3>3, <3>5
  <2> QED BY <2>1, <2>2
<1> QED BY <1>1, <1>2, AlwaysInv, PTL DEF Spec

(* --------------------------- No waiter is stranded --------------------- *)

\* One sender and one receiver: whoever waits has reason to.
LoneSender == \A s, u \in Senders : s = u
WaitsInVain ==
  \A t \in waiters : IF t \in Senders THEN Full ELSE q.count = 0

\* With a sender and a receiver, the documented use, a blocked send finds no room
\* and a blocked recv no message: the condition variable they share has one waiter
\* at most, so a signal cannot go to the wrong one.
THEOREM PairIsNotStranded ==
  ASSUME LoneSender, LoneReceiver PROVE Spec => []NoStrandedWaiter
<1> DEFINE I == CallsKnown /\ WaitsInVain
<1>1. Init => I
  BY DEF Init, CallsKnown, WaitsInVain
<1>2. Inv /\ I /\ [Next]_vars => I'
  <2> SUFFICES ASSUME Inv, I, [Next]_vars PROVE I'
    OBVIOUS
  <2>1. CASE UNCHANGED vars
    BY <2>1 DEF vars, CallsKnown, WaitsInVain, Full
  <2>2. CASE Next
    <3>1. /\ Meets /\ WaitersBlocked /\ waiters \subseteq Workers /\ CallsKnown'
          /\ \A r \in Receivers : r \in Threads /\ r \notin Senders
          /\ q.count \in Nat /\ q.maxItems \in Nat
      BY <2>2, StepMeets, CallsStep, ChannelAssumption DEF Inv, TypeOK, Threads, Workers
    <3>2. ASSUME NEW t \in Threads, Strolls(t) PROVE WaitsInVain'
      BY <3>2 DEF Strolls, SameBounds, WaitsInVain, Full
    <3>3. ASSUME NEW t \in Threads, WakesUnasked(t) PROVE WaitsInVain'
      BY <3>3 DEF WakesUnasked, WaitsInVain, Full
    <3>4. ASSUME NEW s \in Senders, SleepsSending(s) PROVE WaitsInVain'
      BY <3>4 DEF SleepsSending, Sleeps, WaitsInVain, Full
    <3>5. ASSUME NEW r \in Receivers, SleepsReceiving(r) PROVE WaitsInVain'
      BY <3>1, <3>5 DEF SleepsReceiving, Sleeps, WaitsInVain, Full
    <3>6. ASSUME NEW s \in Senders, Puts(s) PROVE WaitsInVain'
      <4>1. s \notin waiters
        BY <3>1, <3>6 DEF Puts, Leaves, WaitersBlocked
      <4>2. \A t \in waiters : t \in Receivers
        BY <3>1, <4>1 DEF LoneSender, Workers
      <4>3. \A t, u \in waiters : t = u
        BY <4>2 DEF LoneReceiver
      <4>4. waiters' = {}
        BY <3>6, <4>3 DEF Puts, Signals
      <4> QED BY <4>4 DEF WaitsInVain
    <3>7. ASSUME NEW r \in Receivers, Takes(r) PROVE WaitsInVain'
      <4>1. r \notin waiters
        BY <3>1, <3>7 DEF Takes, Leaves, WaitersBlocked
      <4>2. \A t \in waiters : t \in Senders
        BY <3>1, <4>1 DEF LoneReceiver, Workers
      <4>3. \A t, u \in waiters : t = u
        BY <4>2 DEF LoneSender
      <4>4. CASE SenderMayWait(q')
        <5>1. waiters' = {}
          BY <3>7, <4>3, <4>4 DEF Takes, Signals
        <5> QED BY <5>1 DEF WaitsInVain
      <4>5. CASE ~SenderMayWait(q')
        <5> SUFFICES ASSUME NEW t \in waiters PROVE FALSE
          BY <3>7, <4>5 DEF Takes, WaitsInVain
        <5>1. Full /\ ~Closed
          <6>1. lock # Destroyed
            BY <3>1, <3>7, ChannelAssumption DEF Takes, Leaves, Inv, Exclusive
          <6> QED BY <4>2, <6>1 DEF WaitsInVain, Inv, ClosedDestroyed
        <5>2. q.count = q.maxItems /\ q.maxItems > 0
          BY <3>1, <5>1 DEF Inv, RingSound, Full
        <5> QED BY <3>7, <4>5, <5>2 DEF Takes, Leaves, SameBounds, SenderMayWait
      <4> QED BY <4>4, <4>5
    <3>8. ASSUME NEW r \in Receivers, Fails(r) PROVE WaitsInVain'
      BY <3>8 DEF Fails, WaitsInVain, Full
    <3> QED BY <3>1, <3>2, <3>3, <3>4, <3>5, <3>6, <3>7, <3>8 DEF Meets
  <2> QED BY <2>1, <2>2
<1>3. I => NoStrandedWaiter
  BY DEF CallsKnown, WaitsInVain, NoStrandedWaiter
<1> QED BY <1>1, <1>2, <1>3, AlwaysInv, PTL DEF Spec

\* All threads pass one type for TMsg, and the channel has no bound.
OneType == \A t, u \in Workers : TypeOf[t] = TypeOf[u]
Unbounded == MaxItems = {0}

\* Receivers that have been woken and have not looked yet; as long as others
\* wait there is one for every message.
Woken == {r \in Receivers : pc[r] \in {"woken", "loop"}}
EnoughWoken ==
  /\ waiters \subseteq Receivers
  /\ ~Closed /\ waiters # {} => q.count <= Cardinality(Woken)
  /\ q.count > 0 => \E s \in Senders : elemType = TypeOf[s]

\* On an unbounded channel only receivers wait, and while one does there are as
\* many receivers on their way to the channel as there are messages in it,
\* whoever sends and receives, and whatever close cuts short.
THEOREM UnboundedIsNotStranded ==
  ASSUME Unbounded, OneType, IsFiniteSet(Receivers) PROVE Spec => []NoStrandedWaiter
<1> DEFINE I == CallsKnown /\ EnoughWoken
<1>1. Init => I
  BY DEF Init, CallsKnown, EnoughWoken, EmptyRing
<1>2. Inv /\ I /\ [Next]_vars => I'
  <2> SUFFICES ASSUME Inv, I, [Next]_vars PROVE I'
    OBVIOUS
  <2>0. /\ WaitersBlocked /\ waiters \subseteq Workers
        /\ \A r \in Receivers : r \in Threads /\ r \notin Senders /\ r \in Workers
        /\ \A s \in Senders : s \in Threads /\ s \in Workers
        /\ q.count \in Nat /\ ~Full
    BY ChannelAssumption DEF Inv, TypeOK, Threads, Workers, Unbounded, Full
  <2>1. CASE UNCHANGED vars
    <3>1. Woken' = Woken
      BY <2>1 DEF vars, Woken
    <3> QED BY <2>1, <3>1 DEF vars, CallsKnown, EnoughWoken, Closed
  <2>2. CASE Next
    <3>1. Meets /\ CallsKnown'
      BY <2>2, StepMeets, CallsStep
    <3>2. IsFiniteSet(Woken) /\ Cardinality(Woken) \in Nat
          /\ IsFiniteSet(Woken') /\ Cardinality(Woken') \in Nat
      BY FS_Subset, FS_CardinalityType DEF Woken
    <3>3. \A r : r \notin Woken => Cardinality(Woken \cup {r}) = Cardinality(Woken) + 1
      BY <3>2, FS_AddElement
    <3>4. \A r \in Woken : Cardinality(Woken \ {r}) = Cardinality(Woken) - 1
      BY <3>2, FS_RemoveElement
    <3>5. ASSUME NEW t \in Threads, Strolls(t) PROVE EnoughWoken'
      <4>1. ~Closed' => ~Closed /\ Woken' = Woken
        BY <2>0, <3>5 DEF Strolls, Alone, Woken, Inv, ClosedDestroyed
      <4> QED BY <3>5, <4>1 DEF Strolls, EnoughWoken
    <3>6. ASSUME NEW t \in Threads, WakesUnasked(t) PROVE EnoughWoken'
      <4>1. t \in Receivers /\ t \notin Woken
        BY <2>0, <3>6 DEF WakesUnasked, EnoughWoken, WaitersBlocked, Woken
      <4>2. Woken' = Woken \cup {t}
        BY <2>0, <3>6, <4>1 DEF WakesUnasked, Alone, Woken
      <4> QED BY <2>0, <3>2, <3>3, <3>6, <4>1, <4>2 DEF WakesUnasked, EnoughWoken, Closed
    <3>7. ASSUME NEW s \in Senders, SleepsSending(s) PROVE FALSE
      BY <2>0, <3>7 DEF SleepsSending
    <3>8. ASSUME NEW r \in Receivers, SleepsReceiving(r) PROVE EnoughWoken'
      BY <3>2, <3>8 DEF SleepsReceiving, Sleeps, EnoughWoken
    <3>9. ASSUME NEW s \in Senders, Puts(s) PROVE EnoughWoken'
      <4>1. s \notin Woken /\ s \notin Receivers /\ ~Closed
        BY <2>0, <3>9, ChannelAssumption DEF Puts, Leaves, Woken, Inv, Exclusive, ClosedDestroyed
      <4>2. CASE waiters = {}
        BY <3>9, <4>2 DEF Puts, Signals, EnoughWoken
      <4>3. CASE waiters # {}
        <5>1. PICK w \in waiters : /\ waiters' = waiters \ {w} /\ pc'[w] = "woken"
                                   /\ \A u \in Threads \ {s, w} : pc'[u] = pc[u]
          BY <3>9, <4>3 DEF Puts, Signals
        <5>2. w \in Receivers /\ w \notin Woken
          BY <2>0 DEF EnoughWoken, WaitersBlocked, Woken
        <5>3. Woken' = Woken \cup {w}
          BY <2>0, <4>1, <5>1, <5>2 DEF Woken
        <5> QED BY <2>0, <3>2, <3>3, <3>9, <4>1, <4>3, <5>1, <5>2, <5>3 DEF Puts, EnoughWoken
      <4> QED BY <4>2, <4>3
    <3>10. ASSUME NEW r \in Receivers, Takes(r) PROVE EnoughWoken'
      <4>1. ~Closed /\ r \notin waiters
        BY <2>0, <3>10, ChannelAssumption DEF Takes, Leaves, Inv, Exclusive, ClosedDestroyed, WaitersBlocked
      <4>2. q'.maxItems = 0
        BY <2>0, <3>10, ChannelAssumption DEF Takes, Leaves, SameBounds, Inv, TypeOK, Unbounded
      <4>3. Alone(r) /\ waiters' = waiters /\ pc'[r] = "release"
        BY <3>10, <4>2 DEF Takes, Leaves, SenderMayWait
      <4>4. CASE pc[r] = "loop"
        <5>1. r \in Woken /\ Woken' = Woken \ {r}
          BY <2>0, <4>3, <4>4 DEF Alone, Woken
        <5> QED BY <2>0, <3>2, <3>4, <3>10, <4>1, <4>3, <5>1 DEF Takes, EnoughWoken
      <4>5. CASE pc[r] = "enter"
        <5>1. Woken' = Woken
          BY <2>0, <4>3, <4>5 DEF Alone, Woken
        <5> QED BY <2>0, <3>2, <3>10, <4>1, <4>3, <5>1 DEF Takes, EnoughWoken
      <4> QED BY <3>10, <4>4, <4>5 DEF Takes, Leaves
    <3>11. ASSUME NEW r \in Receivers, Fails(r) PROVE FALSE
      BY <2>0, <3>11 DEF Fails, EnoughWoken, OneType
    <3> QED BY <3>1, <3>5, <3>6, <3>7, <3>8, <3>9, <3>10, <3>11 DEF Meets
  <2> QED BY <2>1, <2>2
<1>3. Inv /\ I => NoStrandedWaiter
  <2> SUFFICES ASSUME Inv, I, Quiet, ~Closed, NEW t \in waiters
               PROVE  IF op[t] = "send" THEN Full ELSE q.count = 0
    BY DEF NoStrandedWaiter
  <2>1. op[t] = "recv"
    BY ChannelAssumption DEF CallsKnown, EnoughWoken
  <2>2. Woken = {}
    BY DEF Woken, Quiet, Threads, Workers
  <2>3. q.count <= 0 /\ q.count \in Nat
    BY <2>2, FS_EmptySet DEF EnoughWoken, Inv, TypeOK
  <2> QED BY <2>1, <2>3
<1> QED BY <1>1, <1>2, <1>3, AlwaysInv, PTL DEF Spec

=============================================================================
