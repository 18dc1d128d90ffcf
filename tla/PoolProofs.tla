----------------------------- MODULE PoolProofs -----------------------------
(***************************************************************************)
(* Theorems about ThreadPool, for any number of clients, slots and tasks:   *)
(* its slots, counts and signals whatever the clients do, then the tasks,   *)
(* for programs that name every task they spawn.                           *)
(***************************************************************************)
EXTENDS ThreadPool, FiniteSetTheorems, TLAPS

(* -------------------------------- Shapes ------------------------------- *)

\* Slots and threads are records whose other fields have values of some D.
SlotRec(D) == [ready : BOOLEAN, shutdown : BOOLEAN, initialized : BOOLEAN,
               taskArrived : Int, taskStarted : Int, data : D]
ThRec(D) == [pc : D, task : D, op : D, w : D, last : D]

Shape(D, ss, ts) == ss \in [SlotIds -> SlotRec(D)] /\ ts \in [Threads -> ThRec(D)]

Shaped == \E D : Shape(D, slot, th)

\* What the steps of thread p do to the slots.
SlotForms(p) ==
  \/ slot' = slot
  \/ \E s : \E b \in BOOLEAN : slot' = [slot EXCEPT ![s].ready = b]
  \/ \E s : slot' = [slot EXCEPT ![s].shutdown = TRUE]
  \/ slot' = [slot EXCEPT ![p].shutdown = FALSE]
  \/ IsSlave(p) /\ slot' = [slot EXCEPT ![p].taskArrived = @ - 1]
  \/ IsSlave(p) /\ slot' = [slot EXCEPT ![p].taskStarted = @ + 1]
  \/ \E s : slot' = [slot EXCEPT ![s].taskStarted = @ - 1]
  \/ \E s : slot' = [slot EXCEPT ![s].data = Arg(p), ![s].taskArrived = @ + 1]
  \/ \E s : slot' = [slot EXCEPT ![s].initialized = TRUE, ![s].taskArrived = 0, ![s].taskStarted = 0]

LEMMA SlotSteps == ASSUME NEW p \in Threads, Step(p) PROVE SlotForms(p)
<1> USE DEF SlotForms
<1>1. CASE SlaveStep(p) /\ IsSlave(p)
  BY <1>1 DEF SlaveStep, Shutdown, SetReady, Announce, TaskArrived, CountRunning, CopyArgs,
     EndTask, CountEnded
<1>2. CASE OtherStep(p)
  BY <1>2 DEF OtherStep, Await, Sync, SyncNext, SyncReturns, SetMaxPoolSize, Mark
<1>3. CASE TryReadyWorker(p) \/ Scan(p) \/ TryNewSlot(p)
  BY <1>3 DEF TryReadyWorker, Scan, TryNewSlot, Claim
<1>4. CASE HandOver(p)
  BY <1>4 DEF HandOver
<1>5. CASE Started(p)
  BY <1>5 DEF Started
<1>6. CASE Activate(p)
  BY <1>6 DEF Activate
<1>7. CASE \/ Spawn(p) \/ EnterAdvice(p) \/ SkipAdvice(p) \/ LeaveAdvice(p) \/ AdviceCreate(p)
           \/ AdviceShutdown(p) \/ AdviceNothing(p) \/ TestInitialized(p) \/ UseSlot(p)
           \/ EnterSlaves(p) \/ CountWaiting(p) \/ ClientBlocks(p) \/ SomeReady(p) \/ CountWoken(p)
  BY <1>7 DEF Spawn, EnterAdvice, SkipAdvice, LeaveAdvice, AdviceCreate, AdviceShutdown,
     AdviceNothing, TestInitialized, UseSlot, EnterSlaves, CountWaiting, ClientBlocks,
     SomeReady, CountWoken
<1> QED BY <1>1, <1>2, <1>3, <1>4, <1>5, <1>6, <1>7 DEF Step, SpawnStep

LEMMA SlotShape ==
  ASSUME NEW D, slot \in [SlotIds -> SlotRec(D)], NEW p \in Threads, SlotForms(p)
  PROVE  slot' \in [SlotIds -> SlotRec(D \cup {Arg(p)})]
<1> DEFINE E == D \cup {Arg(p)}
<1>1. slot \in [SlotIds -> SlotRec(E)] /\ Arg(p) \in E
  BY DEF SlotRec
<1> HIDE DEF E
<1>2. ASSUME NEW s, NEW r \in SlotRec(E), slot' = [slot EXCEPT ![s] = r]
      PROVE  slot' \in [SlotIds -> SlotRec(E)]
  BY <1>1, <1>2
<1>3. ASSUME NEW s, s \notin SlotIds, NEW r, slot' = [slot EXCEPT ![s] = r]
      PROVE  slot' = slot
  BY <1>1, <1>3
<1>4. \A s \in SlotIds : slot[s] \in SlotRec(E)
  BY <1>1
<1> DEFINE Good(s, r) == slot' = [slot EXCEPT ![s] = r] /\ (s \in SlotIds => r \in SlotRec(E))
<1>5. slot' = slot \/ \E s, r : Good(s, r)
  <2>1. ASSUME NEW s, NEW b \in BOOLEAN, slot' = [slot EXCEPT ![s].ready = b]
        PROVE  Good(s, [slot[s] EXCEPT !.ready = b])
    BY <2>1, <1>4 DEF SlotRec
  <2>2. ASSUME NEW s, NEW b \in BOOLEAN, slot' = [slot EXCEPT ![s].shutdown = b]
        PROVE  Good(s, [slot[s] EXCEPT !.shutdown = b])
    BY <2>2, <1>4 DEF SlotRec
  <2>3. ASSUME NEW s, slot' = [slot EXCEPT ![s].taskArrived = @ - 1]
        PROVE  Good(s, [slot[s] EXCEPT !.taskArrived = @ - 1])
    BY <2>3, <1>4 DEF SlotRec
  <2>4. ASSUME NEW s, slot' = [slot EXCEPT ![s].taskStarted = @ + 1]
        PROVE  Good(s, [slot[s] EXCEPT !.taskStarted = @ + 1])
    BY <2>4, <1>4 DEF SlotRec
  <2>5. ASSUME NEW s, slot' = [slot EXCEPT ![s].taskStarted = @ - 1]
        PROVE  Good(s, [slot[s] EXCEPT !.taskStarted = @ - 1])
    BY <2>5, <1>4 DEF SlotRec
  <2>6. ASSUME NEW s, slot' = [slot EXCEPT ![s].data = Arg(p), ![s].taskArrived = @ + 1]
        PROVE  slot' = slot \/ \E r : Good(s, r)
    <3>1. CASE s \in SlotIds
      <4>1. Good(s, [slot[s] EXCEPT !.data = Arg(p), !.taskArrived = @ + 1])
        BY <2>6, <3>1, <1>1, <1>4 DEF SlotRec
      <4> QED BY <4>1
    <3>2. CASE s \notin SlotIds
      BY <2>6, <3>2, <1>1
    <3> QED BY <3>1, <3>2
  <2>7. ASSUME NEW s,
               slot' = [slot EXCEPT ![s].initialized = TRUE, ![s].taskArrived = 0, ![s].taskStarted = 0]
        PROVE  slot' = slot \/ \E r : Good(s, r)
    <3>1. CASE s \in SlotIds
      <4> DEFINE r1 == [slot[s] EXCEPT !.initialized = TRUE]
                 r2 == [r1 EXCEPT !.taskArrived = 0]
                 r3 == [r2 EXCEPT !.taskStarted = 0]
      <4>1. r1 \in SlotRec(E)
        BY <1>4, <3>1 DEF SlotRec
      <4>2. slot' = [slot EXCEPT ![s] = r3]
        BY <2>7, <3>1, <1>1
      <4> HIDE DEF r1
      <4>3. r2 \in SlotRec(E)
        BY <4>1 DEF SlotRec
      <4> HIDE DEF r2
      <4>4. r3 \in SlotRec(E)
        BY <4>3 DEF SlotRec
      <4> QED BY <4>2, <4>4
    <3>2. CASE s \notin SlotIds
      BY <2>7, <3>2, <1>1
    <3> QED BY <3>1, <3>2
  <2> HIDE DEF Good
  <2> QED BY <2>1, <2>2, <2>3, <2>4, <2>5, <2>6, <2>7 DEF SlotForms
<1>6. slot' \in [SlotIds -> SlotRec(E)]
  BY <1>1, <1>2, <1>3, <1>5
<1> QED BY <1>6 DEF E

LEMMA ThShape ==
  ASSUME NEW D, Shape(D, slot, th), NEW p \in Threads, Step(p), NEW E, D \subseteq E,
         {th'[p].pc, th'[p].task, th'[p].op, th'[p].w, th'[p].last, "top"} \subseteq E
  PROVE  th' \in [Threads -> ThRec(E)]
<1> USE DEF Shape, ThRec, Goto, NextOp, Loop, IsSlave
<1>1. CASE IsSlave(p) /\ (Shutdown(p) \/ SetReady(p) \/ Announce(p) \/ TaskArrived(p))
  BY <1>1 DEF Shutdown, SetReady, Announce, TaskArrived
<1>2. CASE IsSlave(p) /\ (CountRunning(p) \/ CountEnded(p) \/ EndTask(p))
  BY <1>2 DEF CountRunning, CountEnded, EndTask
<1>3. CASE IsSlave(p) /\ CopyArgs(p)
  BY <1>3 DEF CopyArgs
<1>4. CASE Spawn(p) \/ HandOver(p) \/ Started(p)
  BY <1>4 DEF Spawn, HandOver, Started
<1>5. CASE TryReadyWorker(p)
  BY <1>5 DEF TryReadyWorker, Claim
<1>6. CASE Scan(p)
  BY <1>6 DEF Scan, Claim
<1>7. CASE EnterAdvice(p) \/ SkipAdvice(p) \/ LeaveAdvice(p)
  BY <1>7 DEF EnterAdvice, SkipAdvice, LeaveAdvice
<1>8. CASE AdviceCreate(p) \/ AdviceShutdown(p) \/ AdviceNothing(p)
  BY <1>8 DEF AdviceCreate, AdviceShutdown, AdviceNothing
<1>9. CASE TestInitialized(p)
  BY <1>9 DEF TestInitialized
<1>10. CASE Activate(p)
  <2>1. \/ th' = th
        \/ \E s : th' = [th EXCEPT ![p].pc = "use", ![s].pc = "top"]
    BY <1>10 DEF Activate
  <2>2. th'[p].pc \in E /\ "top" \in E /\ D \subseteq E
    OBVIOUS
  <2> QED BY <2>1, <2>2
<1>11. CASE UseSlot(p)
  BY <1>11 DEF UseSlot
<1>12. CASE TryNewSlot(p)
  BY <1>12 DEF TryNewSlot, Claim
<1>13. CASE EnterSlaves(p)
  BY <1>13 DEF EnterSlaves
<1>14. CASE CountWaiting(p) \/ ClientBlocks(p) \/ SomeReady(p) \/ CountWoken(p)
  BY <1>14 DEF CountWaiting, ClientBlocks, SomeReady, CountWoken
<1>15. CASE Await(p)
  BY <1>15 DEF Await
<1>16. CASE Sync(p) \/ SyncNext(p) \/ SyncReturns(p)
  BY <1>16 DEF Sync, SyncNext, SyncReturns
<1>17. CASE SetMaxPoolSize(p)
  BY <1>17 DEF SetMaxPoolSize
<1>18. CASE Mark(p)
  BY <1>18 DEF Mark
<1> QED
  BY <1>1, <1>2, <1>3, <1>4, <1>5, <1>6, <1>7, <1>8, <1>9, <1>10, <1>11, <1>12, <1>13, <1>14,
     <1>15, <1>16, <1>17, <1>18 DEF Step, SlaveStep, SpawnStep, OtherStep

LEMMA ShapedStep == ASSUME Shaped, [Next]_vars PROVE Shaped'
<1>1. PICK D : Shape(D, slot, th)
  BY DEF Shaped
<1>2. CASE UNCHANGED vars
  BY <1>1, <1>2 DEF Shaped, Shape, vars
<1>3. ASSUME NEW p \in Threads, Step(p) PROVE \E E : Shape(E, slot', th')
  <2> DEFINE E == D \cup {Arg(p)}
                 \cup {th'[p].pc, th'[p].task, th'[p].op, th'[p].w, th'[p].last, "top"}
  <2>1. slot' \in [SlotIds -> SlotRec(D \cup {Arg(p)})]
    BY <1>1, <1>3, SlotSteps, SlotShape DEF Shape
  <2>2. th' \in [Threads -> ThRec(E)]
    BY <1>1, <1>3, ThShape
  <2>3. D \cup {Arg(p)} \subseteq E
    OBVIOUS
  <2> HIDE DEF E
  <2>4. slot' \in [SlotIds -> SlotRec(E)]
    BY <2>1, <2>3 DEF SlotRec
  <2>5. Shape(E, slot', th')
    BY <2>2, <2>4 DEF Shape
  <2> QED BY <2>5
<1> QED BY <1>2, <1>3 DEF Next, Shaped

LEMMA ShapedInit == Init => Shaped
<1> DEFINE D == Tasks \cup {NoTask, "body", "top", "none", 0, 1}
<1> SUFFICES ASSUME Init PROVE Shape(D, slot, th)
  BY DEF Shaped
<1> QED BY DEF Init, Shape, SlotRec, ThRec

(* ---------------------------- What steps do ---------------------------- *)

\* Only slaves wait for numSlavesLock, although clients share the code that
\* makes the pool grow; and no client has the number of a slot to come.
WaitsOK ==
  /\ currentPoolSize \in Int
  /\ \A p \in Threads :
       /\ th[p].pc \in {"wait", "woken"} => IsSlave(p)
       /\ th[p].pc \in {"grow", "activate", "use", "try"} => th[p].last \in {1, 2} \/ IsSlave(p)

\* Where a thread spawns, reads or syncs, but is not about to meet a worker nor
\* asleep until one is ready.
Calm == Busy \ {"claimed", "handed", "block", "woken"}

Same(s) == /\ slot'[s].ready = slot[s].ready
           /\ slot'[s].initialized = slot[s].initialized
           /\ slot'[s].taskArrived = slot[s].taskArrived
           /\ slot'[s].taskStarted = slot[s].taskStarted
SameBut(w) == \A s \in SlotIds : s # w => Same(s)
SameSlots == \A s \in SlotIds : Same(s)

Still(q) == th'[q].pc = th[q].pc /\ th'[q].w = th[q].w /\ th'[q].last = th[q].last
Goes(p, from, to) ==
  /\ th[p].pc = from /\ th'[p].pc = to
  /\ \A q \in Threads : q # p => Still(q)

\* The kinds of steps, by what they do to the slots, the counts and the thread.
Quiet(p) ==
  /\ \E from, to \in Calm : Goes(p, from, to)
  /\ th'[p].pc = "wait" => IsSlave(p)
  /\ th'[p].pc \in {"grow", "activate", "use", "try"} => th'[p].last \in {1, 2} \/ IsSlave(p)
  /\ SameSlots /\ UNCHANGED counts

Takes(p) ==
  /\ \E from \in Calm : Goes(p, from, "claimed")
  /\ SameBut(th'[p].w) /\ UNCHANGED counts
  /\ th'[p].w \in SlotIds =>
       /\ slot[th'[p].w].ready /\ ~slot'[th'[p].w].ready
       /\ slot'[th'[p].w].initialized = slot[th'[p].w].initialized
       /\ slot'[th'[p].w].taskArrived = slot[th'[p].w].taskArrived
       /\ slot'[th'[p].w].taskStarted = slot[th'[p].w].taskStarted

Tells(p) ==
  /\ Goes(p, "claimed", "handed") /\ th'[p].w = th[p].w
  /\ SameBut(th[p].w) /\ UNCHANGED counts
  /\ th[p].w \in SlotIds =>
       /\ slot'[th[p].w].ready = slot[th[p].w].ready
       /\ slot'[th[p].w].initialized = slot[th[p].w].initialized
       /\ slot'[th[p].w].taskArrived = slot[th[p].w].taskArrived + 1
       /\ slot'[th[p].w].taskStarted = slot[th[p].w].taskStarted

IsTold(p) ==
  /\ Goes(p, "handed", "body")
  /\ SameBut(th[p].w) /\ UNCHANGED counts
  /\ th[p].w \in SlotIds =>
       /\ slot[th[p].w].taskStarted > 0
       /\ slot'[th[p].w].ready = slot[th[p].w].ready
       /\ slot'[th[p].w].initialized = slot[th[p].w].initialized
       /\ slot'[th[p].w].taskArrived = slot[th[p].w].taskArrived
       /\ slot'[th[p].w].taskStarted = slot[th[p].w].taskStarted - 1

Adds(p, s) ==
  /\ SameBut(s) /\ UNCHANGED counts
  /\ slot'[s].ready = slot[s].ready /\ slot'[s].initialized
  /\ slot'[s].taskArrived = 0 /\ slot'[s].taskStarted = 0
  /\ \/ broken' /\ th' = th /\ slot[s].initialized
     \/ /\ ~slot[s].initialized
        /\ th[p].pc = "activate" /\ th'[s].pc = "top"
        /\ p # s => th'[p].pc = "use" /\ th'[p].last = th[p].last
        /\ \A q \in Threads : q # p /\ q # s => Still(q)

Blocks(p) ==
  /\ SameSlots /\ numSlavesRunning' = numSlavesRunning
  /\ \/ ~IsSlave(p) /\ Goes(p, "full", "block") /\ numSlavesWaiting' = numSlavesWaiting
     \/ Goes(p, "wait", "block") /\ numSlavesWaiting' = numSlavesWaiting + 1

Wakes(p) ==
  /\ SameSlots /\ UNCHANGED counts
  /\ Goes(p, "block", IF IsSlave(p) THEN "woken" ELSE "spawn")

Resumes(p) ==
  /\ SameSlots /\ numSlavesRunning' = numSlavesRunning
  /\ Goes(p, "woken", "spawn") /\ numSlavesWaiting' = numSlavesWaiting - 1

\* The steps of a worker between its tasks.
Turns(p) ==
  /\ SameSlots /\ UNCHANGED counts
  /\ Goes(p, "top", "gone") \/ Goes(p, "announce", "idle") \/ Goes(p, "body", "ended")

Counts(p) ==
  /\ SameSlots /\ numSlavesWaiting' = numSlavesWaiting
  /\ \/ Goes(p, "arrived", "call") /\ numSlavesRunning' = numSlavesRunning + 1
     \/ Goes(p, "ended", "top") /\ numSlavesRunning' = numSlavesRunning - 1

Works(p) ==
  /\ SameBut(p) /\ UNCHANGED counts
  /\ slot'[p].initialized = slot[p].initialized
  /\ \/ /\ Goes(p, "top", "announce") /\ slot'[p].ready
        /\ slot'[p].taskArrived = slot[p].taskArrived
        /\ slot'[p].taskStarted = slot[p].taskStarted
     \/ /\ Goes(p, "idle", "arrived") /\ slot'[p].ready = slot[p].ready
        /\ slot[p].taskArrived > 0 /\ slot'[p].taskArrived = slot[p].taskArrived - 1
        /\ slot'[p].taskStarted = slot[p].taskStarted
     \/ /\ Goes(p, "call", "body") /\ slot'[p].ready = slot[p].ready
        /\ slot'[p].taskArrived = slot[p].taskArrived
        /\ slot'[p].taskStarted = slot[p].taskStarted + 1

Effect(p) ==
  \/ Quiet(p) \/ Takes(p) \/ Tells(p) \/ IsTold(p) \/ \E s \in SlotIds : Adds(p, s)
  \/ Blocks(p) \/ Wakes(p) \/ Resumes(p)
  \/ IsSlave(p) /\ (Turns(p) \/ Counts(p) \/ Works(p))

LEMMA StepEffect ==
  ASSUME Shaped, WaitsOK, NEW p \in Threads, Step(p) PROVE Effect(p)
<1>1. PICK D : Shape(D, slot, th)
  BY DEF Shaped
<1>2. /\ th[p].pc \in {"wait", "woken"} => IsSlave(p)
      /\ th[p].pc \in {"grow", "activate", "use", "try"} => th[p].last \in {1, 2} \/ IsSlave(p)
  BY DEF WaitsOK
<1> USE <1>1 DEF Shape, SlotRec, ThRec, Goto, NextOp, Loop, Goes, Still, SameSlots, SameBut, Same,
                 counts, Calm, Busy
<1>3. CASE \/ Spawn(p) \/ SkipAdvice(p) \/ LeaveAdvice(p) \/ AdviceNothing(p)
  <2>1. Quiet(p)
    BY <1>3 DEF Spawn, SkipAdvice, LeaveAdvice, AdviceNothing, ScanOver, At, Quiet
  <2> QED BY <2>1 DEF Effect
<1>4. CASE EnterAdvice(p) \/ AdviceCreate(p)
  <2>1. Quiet(p)
    BY <1>4 DEF EnterAdvice, AdviceCreate, ScanOver, Quiet
  <2> QED BY <2>1 DEF Effect
<1>5. CASE AdviceShutdown(p)
  <2>1. Quiet(p)
    BY <1>5 DEF AdviceShutdown, Quiet
  <2> QED BY <2>1 DEF Effect
<1>6. CASE TestInitialized(p) \/ UseSlot(p)
  <2>1. Quiet(p)
    BY <1>6, <1>2 DEF TestInitialized, UseSlot, Quiet
  <2> QED BY <2>1 DEF Effect
<1>7. CASE EnterSlaves(p)
  <2>1. Quiet(p)
    BY <1>7 DEF EnterSlaves, Quiet
  <2> QED BY <2>1 DEF Effect
<1>8. CASE Await(p) \/ Sync(p) \/ SyncNext(p) \/ SyncReturns(p)
  <2>1. Quiet(p)
    BY <1>8 DEF Await, Sync, SyncNext, SyncReturns, At, Quiet
  <2> QED BY <2>1 DEF Effect
<1>9. CASE SetMaxPoolSize(p) \/ Mark(p)
  <2>1. Quiet(p)
    <3>1. CASE SetMaxPoolSize(p)
      BY <3>1 DEF SetMaxPoolSize, At, Quiet
    <3>2. CASE Mark(p)
      <4>1. SameSlots
        <5>1. slot' = slot \/ \E w : slot' = [slot EXCEPT ![w].shutdown = TRUE]
          BY <3>2 DEF Mark
        <5> QED BY <5>1
      <4>2. \/ th' = [th EXCEPT ![p].w = @ + 1]
            \/ th' = [th EXCEPT ![p].pc = "body", ![p].op = @ + 1]
        BY <3>2 DEF Mark
      <4>3. th[p].pc = "mark" /\ UNCHANGED counts
        BY <3>2 DEF Mark
      <4> QED BY <4>1, <4>2, <4>3 DEF Quiet
    <3> QED BY <1>9, <3>1, <3>2
  <2> QED BY <2>1 DEF Effect
<1>10. CASE TryReadyWorker(p)
  <2>1. Takes(p) \/ Quiet(p)
    BY <1>10 DEF TryReadyWorker, Claim, Takes, Quiet
  <2> QED BY <2>1 DEF Effect
<1>11. CASE Scan(p)
  <2>1. Takes(p) \/ Quiet(p)
    BY <1>11 DEF Scan, Claim, Takes, Quiet
  <2> QED BY <2>1 DEF Effect
<1>12. CASE TryNewSlot(p)
  <2>1. Takes(p) \/ Quiet(p)
    BY <1>12, <1>2 DEF TryNewSlot, Claim, AfterGrowing, Takes, Quiet
  <2> QED BY <2>1 DEF Effect
<1>13. CASE HandOver(p)
  <2>1. Tells(p)
    BY <1>13 DEF HandOver, Tells
  <2> QED BY <2>1 DEF Effect
<1>14. CASE Started(p)
  <2>1. IsTold(p)
    BY <1>14 DEF Started, IsTold
  <2> QED BY <2>1 DEF Effect
<1>15. CASE Activate(p)
  <2> DEFINE s == currentPoolSize + 1
  <2>1. CASE s \in SlotIds
    <3>1. /\ slot' = [slot EXCEPT ![s].initialized = TRUE, ![s].taskArrived = 0, ![s].taskStarted = 0]
          /\ UNCHANGED counts /\ th[p].pc = "activate" /\ broken' = slot[s].initialized
          /\ th' = IF slot[s].initialized THEN th ELSE [th EXCEPT ![p].pc = "use", ![s].pc = "top"]
      BY <1>15 DEF Activate
    <3> HIDE DEF s
    <3>2. SameBut(s) /\ slot'[s].ready = slot[s].ready /\ slot'[s].initialized
          /\ slot'[s].taskArrived = 0 /\ slot'[s].taskStarted = 0
      BY <3>1, <2>1
    <3>3. CASE slot[s].initialized
      BY <3>1, <3>2, <3>3, <2>1 DEF Adds, Effect
    <3>4. CASE ~slot[s].initialized
      <4>1. s \in Threads
        BY <2>1 DEF Threads
      <4>2. th' = [th EXCEPT ![p].pc = "use", ![s].pc = "top"]
        BY <3>1, <3>4
      <4>3. /\ th'[s].pc = "top" /\ (p # s => th'[p].pc = "use" /\ th'[p].last = th[p].last)
            /\ \A q \in Threads : q # p /\ q # s => Still(q)
        BY <4>1, <4>2
      <4> QED BY <3>1, <3>2, <3>4, <4>3, <2>1 DEF Adds, Effect
    <3> QED BY <3>3, <3>4
  <2>2. CASE s \notin SlotIds
    <3>1. s \notin Threads
      BY <2>2, PoolAssumption DEF WaitsOK, Threads
    <3>2. slot' = slot /\ UNCHANGED counts /\ th[p].pc = "activate"
      BY <1>15, <2>2 DEF Activate
    <3>3. th' \in {th, [th EXCEPT ![p].pc = "use"]}
      BY <1>15, <3>1 DEF Activate
    <3>4. Quiet(p)
      BY <3>2, <3>3, <1>2 DEF Quiet
    <3> QED BY <3>4 DEF Effect
  <2> QED BY <2>1, <2>2
<1>16. CASE CountWaiting(p) \/ ClientBlocks(p)
  <2>1. Blocks(p)
    BY <1>16 DEF CountWaiting, ClientBlocks, Blocks
  <2> QED BY <2>1 DEF Effect
<1>17. CASE SomeReady(p)
  <2>1. Wakes(p)
    BY <1>17 DEF SomeReady, Wakes
  <2> QED BY <2>1 DEF Effect
<1>18. CASE CountWoken(p)
  <2>1. Resumes(p)
    BY <1>18 DEF CountWoken, Resumes
  <2> QED BY <2>1 DEF Effect
<1>19. CASE IsSlave(p) /\ (Shutdown(p) \/ Announce(p) \/ EndTask(p))
  <2>1. Turns(p)
    BY <1>19 DEF Shutdown, Announce, EndTask, Turns, IsSlave
  <2> QED BY <2>1, <1>19 DEF Effect
<1>20. CASE IsSlave(p) /\ (CountRunning(p) \/ CountEnded(p))
  <2>1. Counts(p)
    BY <1>20 DEF CountRunning, CountEnded, Counts
  <2> QED BY <2>1, <1>20 DEF Effect
<1>21. CASE IsSlave(p) /\ (SetReady(p) \/ TaskArrived(p) \/ CopyArgs(p))
  <2>1. Works(p)
    BY <1>21 DEF SetReady, TaskArrived, CopyArgs, Works, IsSlave
  <2> QED BY <2>1, <1>21 DEF Effect
<1> QED
  BY <1>3, <1>4, <1>5, <1>6, <1>7, <1>8, <1>9, <1>10, <1>11, <1>12, <1>13, <1>14, <1>15, <1>16,
     <1>17, <1>18, <1>19, <1>20, <1>21 DEF Step, SlaveStep, SpawnStep, OtherStep

(* ------------------------- A slot has one owner ------------------------ *)

Claims(p, s) == th[p].pc = "claimed" /\ th[p].w = s

\* A worker that waits for a task is ready, or claimed by one thread, or has one
\* task before it; a worker that does not wait is none of these.
SlotOK(s) ==
  /\ th[s].pc \notin {"announce", "idle"} =>
       /\ ~slot[s].ready /\ slot[s].taskArrived = 0
       /\ \A p \in Threads : ~Claims(p, s)
  /\ slot[s].ready => slot[s].taskArrived = 0 /\ \A p \in Threads : ~Claims(p, s)
  /\ \A p, q \in Threads : Claims(p, s) /\ Claims(q, s) => p = q
  /\ \A p \in Threads : Claims(p, s) => slot[s].taskArrived = 0
  /\ slot[s].taskArrived \in {0, 1}
  /\ ~slot[s].initialized => th[s].pc = "none"

PoolInv == Shaped /\ WaitsOK /\ \A s \in SlotIds : SlotOK(s)

LEMMA SizeStep == ASSUME currentPoolSize \in Int, NEW p, Step(p) PROVE currentPoolSize' \in Int
<1> USE DEF pool
<1>1. CASE SlaveStep(p)
  BY <1>1 DEF SlaveStep, Shutdown, SetReady, Announce, TaskArrived, CountRunning, CopyArgs,
     EndTask, CountEnded
<1>2. CASE Spawn(p) \/ TryReadyWorker(p) \/ Scan(p) \/ HandOver(p) \/ Started(p)
  BY <1>2 DEF Spawn, TryReadyWorker, Scan, HandOver, Started
<1>3. CASE \/ EnterAdvice(p) \/ SkipAdvice(p) \/ LeaveAdvice(p)
           \/ AdviceCreate(p) \/ AdviceShutdown(p) \/ AdviceNothing(p)
  BY <1>3 DEF EnterAdvice, SkipAdvice, LeaveAdvice, AdviceCreate, AdviceShutdown, AdviceNothing
<1>4. CASE TestInitialized(p) \/ Activate(p) \/ UseSlot(p) \/ TryNewSlot(p)
  BY <1>4 DEF TestInitialized, Activate, UseSlot, TryNewSlot
<1>5. CASE EnterSlaves(p) \/ CountWaiting(p) \/ ClientBlocks(p) \/ SomeReady(p) \/ CountWoken(p)
  BY <1>5 DEF EnterSlaves, CountWaiting, ClientBlocks, SomeReady, CountWoken
<1>6. CASE OtherStep(p)
  BY <1>6 DEF OtherStep, Await, Sync, SyncNext, SyncReturns, SetMaxPoolSize, Mark
<1> QED BY <1>1, <1>2, <1>3, <1>4, <1>5, <1>6 DEF Step, SpawnStep

LEMMA WaitsStep ==
  ASSUME PoolInv, NEW p \in Threads, Step(p), Effect(p), NEW q \in Threads
  PROVE  /\ th'[q].pc \in {"wait", "woken"} => IsSlave(q)
         /\ th'[q].pc \in {"grow", "activate", "use", "try"} => th'[q].last \in {1, 2} \/ IsSlave(q)
<1>1. /\ th[q].pc \in {"wait", "woken"} => IsSlave(q)
      /\ th[q].pc \in {"grow", "activate", "use", "try"} => th[q].last \in {1, 2} \/ IsSlave(q)
      /\ th[p].pc \in {"wait", "woken"} => IsSlave(p)
      /\ th[p].pc \in {"grow", "activate", "use", "try"} => th[p].last \in {1, 2} \/ IsSlave(p)
  BY DEF PoolInv, WaitsOK
<1> USE <1>1 DEF Goes, Still
<1>2. CASE Quiet(p)
  <2>1. CASE q = p
    BY <1>2, <2>1 DEF Quiet, Calm
  <2>2. CASE q # p
    <3>1. Still(q)
      BY <1>2, <2>2 DEF Quiet
    <3> QED BY <3>1
  <2> QED BY <2>1, <2>2
<1>3. CASE Takes(p) \/ Tells(p) \/ IsTold(p)
  BY <1>3 DEF Takes, Tells, IsTold
<1>4. ASSUME NEW s \in SlotIds, Adds(p, s)
      PROVE  /\ th'[q].pc \in {"wait", "woken"} => IsSlave(q)
             /\ th'[q].pc \in {"grow", "activate", "use", "try"} => th'[q].last \in {1, 2} \/ IsSlave(q)
  BY <1>4 DEF Adds
<1>5. CASE Blocks(p) \/ Wakes(p) \/ Resumes(p)
  BY <1>5 DEF Blocks, Wakes, Resumes
<1>6. CASE IsSlave(p) /\ (Turns(p) \/ Counts(p) \/ Works(p))
  BY <1>6 DEF Turns, Counts, Works
<1> QED BY <1>2, <1>3, <1>4, <1>5, <1>6 DEF Effect

LEMMA SlotStep ==
  ASSUME PoolInv, NEW p \in Threads, Effect(p), NEW s \in SlotIds
  PROVE  SlotOK(s)'
<1>1. SlotOK(s) /\ s \in Threads /\ (p \in SlotIds => SlotOK(p))
  BY DEF PoolInv, Threads
<1> USE <1>1 DEF Goes, Still, SameSlots, SameBut, Same
<1>2. CASE Quiet(p)
  BY <1>2 DEF Quiet, Calm, Busy, SlotOK, Claims
<1>3. CASE Takes(p)
  <2>1. CASE th'[p].w = s
    BY <1>3, <2>1 DEF Takes, Calm, Busy, SlotOK, Claims
  <2>2. CASE th'[p].w # s
    BY <1>3, <2>2 DEF Takes, Calm, Busy, SlotOK, Claims
  <2> QED BY <2>1, <2>2
<1>4. CASE Tells(p)
  <2>1. CASE th[p].w = s
    BY <1>4, <2>1 DEF Tells, SlotOK, Claims
  <2>2. CASE th[p].w # s
    BY <1>4, <2>2 DEF Tells, SlotOK, Claims
  <2> QED BY <2>1, <2>2
<1>5. CASE IsTold(p)
  <2>1. CASE th[p].w = s
    BY <1>5, <2>1 DEF IsTold, SlotOK, Claims
  <2>2. CASE th[p].w # s
    BY <1>5, <2>2 DEF IsTold, SlotOK, Claims
  <2> QED BY <2>1, <2>2
<1>6. ASSUME NEW t \in SlotIds, Adds(p, t) PROVE SlotOK(s)'
  <2>1. SlotOK(t)
    BY DEF PoolInv
  <2>2. CASE th' = th
    BY <1>6, <2>1, <2>2 DEF Adds, SlotOK, Claims
  <2>3. CASE ~slot[t].initialized /\ th[p].pc = "activate"
    <3>1. th[t].pc = "none" /\ p # t
      BY <2>1, <2>3 DEF SlotOK
    <3> QED BY <1>6, <2>1, <2>3, <3>1 DEF Adds, SlotOK, Claims
  <2> QED BY <1>6, <2>2, <2>3 DEF Adds
<1>7. CASE Blocks(p) \/ Wakes(p) \/ Resumes(p)
  BY <1>7 DEF Blocks, Wakes, Resumes, SlotOK, Claims
<1>8. CASE IsSlave(p) /\ (Turns(p) \/ Counts(p))
  BY <1>8 DEF Turns, Counts, SlotOK, Claims, IsSlave
<1>9. CASE IsSlave(p) /\ Works(p)
  <2>1. CASE p = s
    BY <1>9, <2>1 DEF Works, SlotOK, Claims, IsSlave
  <2>2. CASE p # s
    BY <1>9, <2>2 DEF Works, SlotOK, Claims, IsSlave
  <2> QED BY <2>1, <2>2
<1> QED BY <1>2, <1>3, <1>4, <1>5, <1>6, <1>7, <1>8, <1>9 DEF Effect

LEMMA PoolStep == ASSUME PoolInv, [Next]_vars PROVE PoolInv'
<1>1. Shaped'
  BY ShapedStep DEF PoolInv
<1>2. CASE UNCHANGED vars
  BY <1>1, <1>2 DEF PoolInv, WaitsOK, SlotOK, Claims, vars, pool
<1>3. ASSUME NEW p \in Threads, Step(p) PROVE PoolInv'
  <2>1. Effect(p)
    BY <1>3, StepEffect DEF PoolInv
  <2>2. WaitsOK'
    BY <1>3, <2>1, WaitsStep, SizeStep DEF PoolInv, WaitsOK, IsSlave
  <2>3. \A s \in SlotIds : SlotOK(s)'
    BY <2>1, SlotStep
  <2> QED BY <1>1, <2>2, <2>3 DEF PoolInv
<1> QED BY <1>2, <1>3 DEF Next

LEMMA PoolInit == Init => PoolInv
<1> SUFFICES ASSUME Init PROVE PoolInv
  OBVIOUS
<1>1. Shaped
  BY ShapedInit
<1>2. WaitsOK
  BY PoolAssumption DEF Init, WaitsOK
<1>3. ASSUME NEW s \in SlotIds PROVE SlotOK(s)
  <2>1. s \in Threads /\ s \notin Clients
    BY PoolAssumption DEF Threads, SlotIds
  <2> QED BY <2>1 DEF Init, SlotOK, Claims
<1> QED BY <1>1, <1>2, <1>3 DEF PoolInv

LEMMA PoolAlways == Spec => []PoolInv
BY PoolInit, PoolStep, PTL DEF Spec

\* A worker's slot is never up for another task while it has one, however many
\* threads spawn, and however the pool grows and shrinks meanwhile.
THEOREM SlotsAreNotShared == Spec => []NotReadyWithTask
<1>1. PoolInv => NotReadyWithTask
  BY DEF PoolInv, SlotOK, NotReadyWithTask, Busy
<1> QED BY <1>1, PoolAlways, PTL

(* ----------------------------- The counts ------------------------------ *)

Runs(s) == th[s].pc \in Busy \cup {"call", "ended"}
Waits(s) == th[s].pc \in {"block", "woken"}
Running == {s \in SlotIds : Runs(s)}
Waiting == {s \in SlotIds : Waits(s)}

CountInv == PoolInv /\ CountsExact

LEMMA SlotSets ==
  ASSUME NEW S \in SUBSET SlotIds, NEW s \in SlotIds
  PROVE  /\ IsFiniteSet(S) /\ Cardinality(S) \in Nat
         /\ s \notin S => Cardinality(S \cup {s}) = Cardinality(S) + 1
         /\ s \in S => Cardinality(S \ {s}) = Cardinality(S) - 1
<1>1. IsFiniteSet(SlotIds)
  BY FS_Interval, PoolAssumption DEF SlotIds
<1>2. IsFiniteSet(S)
  BY <1>1, FS_Subset
<1> QED BY <1>2, FS_CardinalityType, FS_AddElement, FS_RemoveElement

LEMMA SetsSame ==
  ASSUME \A s \in SlotIds : Runs(s)' <=> Runs(s), \A s \in SlotIds : Waits(s)' <=> Waits(s)
  PROVE  Running' = Running /\ Waiting' = Waiting
BY DEF Running, Waiting

LEMMA CountStep ==
  ASSUME CountInv, NEW p \in Threads, Effect(p) PROVE CountsExact'
<1> DEFINE R == Cardinality(Running)
           W == Cardinality(Waiting)
<1>0. /\ numSlavesRunning = R /\ numSlavesWaiting = W
      /\ \A s \in SlotIds : SlotOK(s)
      /\ \A s \in SlotIds : s \in Threads
      /\ th[p].pc \in {"wait", "woken"} => p \in SlotIds
  BY DEF CountInv, CountsExact, PoolInv, WaitsOK, Running, Waiting, Runs, Waits, Threads, IsSlave
<1>1. CountsExact' <=> numSlavesRunning' = Cardinality(Running') /\ numSlavesWaiting' = Cardinality(Waiting')
  BY DEF CountsExact, Running, Waiting, Runs, Waits
<1>2. ASSUME UNCHANGED counts, \A s \in SlotIds : Runs(s)' <=> Runs(s),
             \A s \in SlotIds : Waits(s)' <=> Waits(s)
      PROVE  CountsExact'
  BY <1>0, <1>1, <1>2, SetsSame DEF counts
<1> USE DEF Goes, Still
<1>3. CASE Quiet(p) \/ Takes(p) \/ Tells(p) \/ IsTold(p)
  <2>1. \A s \in SlotIds : (Runs(s)' <=> Runs(s)) /\ (Waits(s)' <=> Waits(s))
    BY <1>0, <1>3 DEF Quiet, Takes, Tells, IsTold, Calm, Busy, Runs, Waits
  <2> QED BY <2>1, <1>2, <1>3 DEF Quiet, Takes, Tells, IsTold
<1>4. ASSUME NEW t \in SlotIds, Adds(p, t) PROVE CountsExact'
  <2>1. CASE th' = th
    BY <1>2, <1>4, <2>1 DEF Adds, Runs, Waits
  <2>2. CASE ~slot[t].initialized /\ th[p].pc = "activate"
    <3>1. th[t].pc = "none" /\ p # t
      BY <1>0, <2>2 DEF SlotOK
    <3>2. \A s \in SlotIds : (Runs(s)' <=> Runs(s)) /\ (Waits(s)' <=> Waits(s))
      BY <1>0, <1>4, <2>2, <3>1 DEF Adds, Busy, Runs, Waits
    <3> QED BY <3>2, <1>2, <1>4 DEF Adds
  <2> QED BY <1>4, <2>1, <2>2 DEF Adds
<1>5. CASE Blocks(p)
  <2>1. CASE ~IsSlave(p) /\ Goes(p, "full", "block") /\ numSlavesWaiting' = numSlavesWaiting
    <3>1. \A s \in SlotIds : (Runs(s)' <=> Runs(s)) /\ (Waits(s)' <=> Waits(s))
      BY <1>0, <2>1 DEF Busy, Runs, Waits, IsSlave
    <3> QED BY <3>1, <2>1, <1>2, <1>5 DEF Blocks, counts
  <2>2. CASE Goes(p, "wait", "block") /\ numSlavesWaiting' = numSlavesWaiting + 1
    <3>1. p \in SlotIds /\ p \notin Waiting
      BY <1>0, <2>2 DEF Waiting, Waits
    <3>2. \A s \in SlotIds : (Runs(s)' <=> Runs(s)) /\ (s # p => (Waits(s)' <=> Waits(s)))
      BY <1>0, <2>2, <3>1 DEF Busy, Runs, Waits
    <3>3. Running' = Running /\ Waiting' = Waiting \cup {p}
      BY <2>2, <3>1, <3>2 DEF Running, Waiting, Waits
    <3>4. Cardinality(Waiting \cup {p}) = W + 1
      BY <3>1, SlotSets DEF Waiting
    <3> QED BY <1>0, <1>1, <1>5, <2>2, <3>3, <3>4 DEF Blocks
  <2> QED BY <1>5, <2>1, <2>2 DEF Blocks
<1>6. CASE Wakes(p)
  <2>1. \A s \in SlotIds : (Runs(s)' <=> Runs(s)) /\ (Waits(s)' <=> Waits(s))
    BY <1>0, <1>6 DEF Wakes, Busy, Runs, Waits, IsSlave
  <2> QED BY <2>1, <1>2, <1>6 DEF Wakes
<1>7. CASE Resumes(p)
  <2>1. p \in SlotIds /\ p \in Waiting
    BY <1>0, <1>7 DEF Resumes, Waiting, Waits
  <2>2. \A s \in SlotIds : (Runs(s)' <=> Runs(s)) /\ (s # p => (Waits(s)' <=> Waits(s)))
    BY <1>0, <1>7, <2>1 DEF Resumes, Busy, Runs, Waits
  <2>3. Running' = Running /\ Waiting' = Waiting \ {p}
    BY <1>7, <2>1, <2>2 DEF Resumes, Running, Waiting, Waits
  <2>4. Cardinality(Waiting \ {p}) = W - 1
    BY <2>1, SlotSets DEF Waiting
  <2> QED BY <1>0, <1>1, <1>7, <2>3, <2>4 DEF Resumes
<1>8. CASE IsSlave(p) /\ (Turns(p) \/ Works(p))
  <2>1. \A s \in SlotIds : (Runs(s)' <=> Runs(s)) /\ (Waits(s)' <=> Waits(s))
    BY <1>0, <1>8 DEF Turns, Works, Busy, Runs, Waits
  <2> QED BY <2>1, <1>2, <1>8 DEF Turns, Works
<1>9. CASE IsSlave(p) /\ Counts(p)
  <2>1. CASE Goes(p, "arrived", "call") /\ numSlavesRunning' = numSlavesRunning + 1
    <3>1. p \in SlotIds /\ p \notin Running
      BY <1>9, <2>1 DEF Running, Runs, Busy, IsSlave
    <3>2. \A s \in SlotIds : (Waits(s)' <=> Waits(s)) /\ (s # p => (Runs(s)' <=> Runs(s)))
      BY <1>0, <2>1, <3>1 DEF Runs, Waits
    <3>3. Waiting' = Waiting /\ Running' = Running \cup {p}
      BY <2>1, <3>1, <3>2 DEF Running, Waiting, Runs
    <3>4. Cardinality(Running \cup {p}) = R + 1
      BY <3>1, SlotSets DEF Running
    <3> QED BY <1>0, <1>1, <1>9, <2>1, <3>3, <3>4 DEF Counts
  <2>2. CASE Goes(p, "ended", "top") /\ numSlavesRunning' = numSlavesRunning - 1
    <3>1. p \in SlotIds /\ p \in Running
      BY <1>9, <2>2 DEF Running, Runs, IsSlave
    <3>2. \A s \in SlotIds : (Waits(s)' <=> Waits(s)) /\ (s # p => (Runs(s)' <=> Runs(s)))
      BY <1>0, <2>2, <3>1 DEF Runs, Waits
    <3>3. Waiting' = Waiting /\ Running' = Running \ {p}
      BY <2>2, <3>1, <3>2 DEF Running, Waiting, Runs, Busy
    <3>4. Cardinality(Running \ {p}) = R - 1
      BY <3>1, SlotSets DEF Running
    <3> QED BY <1>0, <1>1, <1>9, <2>2, <3>3, <3>4 DEF Counts
  <2> QED BY <1>9, <2>1, <2>2 DEF Counts
<1> QED BY <1>3, <1>4, <1>5, <1>6, <1>7, <1>8, <1>9 DEF Effect

\* The counts that decide whether a slave may wait for a worker are those of the
\* slaves that run a task and of those of them that wait, for every pool.
THEOREM CountsAreExact == Spec => []CountsExact
<1>1. Init => CountsExact
  <2> SUFFICES ASSUME Init PROVE CountsExact
    OBVIOUS
  <2>1. \A s \in SlotIds : s \in Threads /\ s \notin Clients
    BY PoolAssumption DEF Threads, SlotIds
  <2>2. /\ {s \in SlotIds : th[s].pc \in Busy \cup {"call", "ended"}} = {}
        /\ {s \in SlotIds : th[s].pc \in {"block", "woken"}} = {}
    BY <2>1 DEF Init, Busy
  <2> QED BY <2>2, FS_EmptySet DEF Init, CountsExact
<1>2. CountInv /\ [Next]_vars => CountsExact'
  <2>1. ASSUME CountInv, UNCHANGED vars PROVE CountsExact'
    BY <2>1 DEF CountInv, CountsExact, vars, counts
  <2>2. ASSUME CountInv, NEW p \in Threads, Step(p) PROVE CountsExact'
    BY <2>2, StepEffect, CountStep DEF CountInv, PoolInv
  <2> QED BY <2>1, <2>2 DEF Next
<1> QED BY <1>1, <1>2, PoolAlways, PTL DEF Spec, CountInv

(* ---------------------------- The handshake ---------------------------- *)

Owed(s) == (IF Pending(s) THEN 1 ELSE 0) + slot[s].taskStarted

\* A signal for every thread that waits; the semaphores of a slot that is to be
\* activated are zero, so initialising them loses none.
HandOK(s) ==
  /\ IsFiniteSet(Handing(s)) /\ Cardinality(Handing(s)) = Owed(s)
  /\ slot[s].taskStarted \in Nat
  /\ ~slot[s].initialized => slot[s].taskStarted = 0

HandInv == PoolInv /\ (ActivatedOnce => \A s \in SlotIds : HandOK(s))

LEMMA HandSame ==
  ASSUME NEW s \in SlotIds, HandOK(s), Pending(s)' <=> Pending(s),
         slot'[s].taskStarted = slot[s].taskStarted,
         slot'[s].initialized = slot[s].initialized \/ slot[s].taskStarted = 0,
         \A q \in Threads : th'[q].pc = "handed" /\ th'[q].w = s <=> th[q].pc = "handed" /\ th[q].w = s
  PROVE  HandOK(s)'
<1>1. Handing(s)' = Handing(s)
  BY DEF Handing
<1>2. Owed(s)' = Owed(s)
  BY DEF Owed
<1> QED BY <1>1, <1>2 DEF HandOK

LEMMA HandStep ==
  ASSUME PoolInv, NEW p \in Threads, Effect(p), NEW s \in SlotIds, HandOK(s), ActivatedOnce'
  PROVE  HandOK(s)'
<1>1. SlotOK(s) /\ s \in Threads /\ (p \in SlotIds => SlotOK(p))
  BY DEF PoolInv, Threads
<1> USE <1>1 DEF Goes, Still, SameSlots, SameBut, Same
<1>2. CASE Quiet(p) \/ Blocks(p) \/ Wakes(p) \/ Resumes(p)
  <2>1. /\ Pending(s)' <=> Pending(s)
        /\ slot'[s].taskStarted = slot[s].taskStarted /\ slot'[s].initialized = slot[s].initialized
        /\ \A q \in Threads :
             th'[q].pc = "handed" /\ th'[q].w = s <=> th[q].pc = "handed" /\ th[q].w = s
    BY <1>2 DEF Quiet, Blocks, Wakes, Resumes, Calm, Busy, Pending
  <2> QED BY <2>1, HandSame
<1>3. CASE Takes(p)
  <2>1. /\ Pending(s)' <=> Pending(s)
        /\ slot'[s].taskStarted = slot[s].taskStarted /\ slot'[s].initialized = slot[s].initialized
        /\ \A q \in Threads :
             th'[q].pc = "handed" /\ th'[q].w = s <=> th[q].pc = "handed" /\ th[q].w = s
    <3>1. CASE th'[p].w = s
      BY <1>3, <3>1 DEF Takes, Calm, Busy, Pending
    <3>2. CASE th'[p].w # s
      BY <1>3, <3>2 DEF Takes, Calm, Busy, Pending
    <3> QED BY <3>1, <3>2
  <2> QED BY <2>1, HandSame
<1>4. CASE Tells(p)
  <2>1. CASE th[p].w = s
    <3>1. Claims(p, s)
      BY <1>4, <2>1 DEF Tells, Claims
    <3>2. ~Pending(s) /\ Pending(s)' /\ slot'[s].taskStarted = slot[s].taskStarted
          /\ slot'[s].initialized = slot[s].initialized
      BY <1>4, <2>1, <3>1 DEF Tells, SlotOK, Pending
    <3>3. Handing(s)' = Handing(s) \cup {p} /\ p \notin Handing(s)
      BY <1>4, <2>1 DEF Tells, Handing
    <3>4. IsFiniteSet(Handing(s) \cup {p})
          /\ Cardinality(Handing(s) \cup {p}) = Cardinality(Handing(s)) + 1
      BY <3>3, FS_AddElement DEF HandOK
    <3>5. Owed(s)' = Owed(s) + 1
      BY <3>2 DEF Owed, HandOK
    <3> QED BY <3>2, <3>3, <3>4, <3>5 DEF HandOK
  <2>2. CASE th[p].w # s
    <3>1. /\ Pending(s)' <=> Pending(s)
          /\ slot'[s].taskStarted = slot[s].taskStarted /\ slot'[s].initialized = slot[s].initialized
          /\ \A q \in Threads :
               th'[q].pc = "handed" /\ th'[q].w = s <=> th[q].pc = "handed" /\ th[q].w = s
      BY <1>4, <2>2 DEF Tells, Pending
    <3> QED BY <3>1, HandSame
  <2> QED BY <2>1, <2>2
<1>5. CASE IsTold(p)
  <2>1. CASE th[p].w = s
    <3>1. (Pending(s)' <=> Pending(s)) /\ slot'[s].taskStarted = slot[s].taskStarted - 1
          /\ slot'[s].initialized = slot[s].initialized /\ slot[s].taskStarted > 0
      BY <1>5, <2>1 DEF IsTold, Pending
    <3>2. Handing(s)' = Handing(s) \ {p} /\ p \in Handing(s)
      BY <1>5, <2>1 DEF IsTold, Handing
    <3>3. IsFiniteSet(Handing(s) \ {p})
          /\ Cardinality(Handing(s) \ {p}) = Cardinality(Handing(s)) - 1
      BY <3>2, FS_RemoveElement DEF HandOK
    <3>4. Owed(s)' = Owed(s) - 1
      BY <3>1 DEF Owed, HandOK
    <3> QED BY <3>1, <3>2, <3>3, <3>4 DEF HandOK
  <2>2. CASE th[p].w # s
    <3>1. /\ Pending(s)' <=> Pending(s)
          /\ slot'[s].taskStarted = slot[s].taskStarted /\ slot'[s].initialized = slot[s].initialized
          /\ \A q \in Threads :
               th'[q].pc = "handed" /\ th'[q].w = s <=> th[q].pc = "handed" /\ th[q].w = s
      BY <1>5, <2>2 DEF IsTold, Pending
    <3> QED BY <3>1, HandSame
  <2> QED BY <2>1, <2>2
<1>6. ASSUME NEW t \in SlotIds, Adds(p, t) PROVE HandOK(s)'
  <2>1. /\ ~slot[t].initialized /\ th[p].pc = "activate" /\ th[t].pc = "none" /\ p # t
        /\ slot[t].taskArrived = 0
    BY <1>6 DEF PoolInv, SlotOK, Adds, ActivatedOnce
  <2>2. \A q \in Threads : th'[q].pc = "handed" /\ th'[q].w = s <=> th[q].pc = "handed" /\ th[q].w = s
    BY <1>6, <2>1 DEF Adds
  <2>3. CASE s = t
    <3>1. slot[s].taskStarted = 0 /\ slot'[s].taskStarted = 0 /\ (Pending(s)' <=> Pending(s))
      BY <1>6, <2>1, <2>3 DEF Adds, HandOK, Pending
    <3> QED BY <2>2, <3>1, HandSame
  <2>4. CASE s # t
    <3>1. /\ slot'[s].taskStarted = slot[s].taskStarted /\ (Pending(s)' <=> Pending(s))
          /\ slot'[s].initialized = slot[s].initialized
      BY <1>6, <2>1, <2>4 DEF Adds, Pending
    <3> QED BY <2>2, <3>1, HandSame
  <2> QED BY <2>3, <2>4
<1>7. CASE IsSlave(p) /\ (Turns(p) \/ Counts(p))
  <2>1. /\ Pending(s)' <=> Pending(s)
        /\ slot'[s].taskStarted = slot[s].taskStarted /\ slot'[s].initialized = slot[s].initialized
        /\ \A q \in Threads :
             th'[q].pc = "handed" /\ th'[q].w = s <=> th[q].pc = "handed" /\ th[q].w = s
    BY <1>7 DEF Turns, Counts, Pending
  <2> QED BY <2>1, HandSame
<1>8. CASE IsSlave(p) /\ Works(p)
  <2>1. \A q \in Threads : th'[q].pc = "handed" /\ th'[q].w = s <=> th[q].pc = "handed" /\ th[q].w = s
    BY <1>8 DEF Works
  <2>2. CASE p # s \/ ~Goes(p, "call", "body")
    <3>1. /\ Pending(s)' <=> Pending(s)
          /\ slot'[s].taskStarted = slot[s].taskStarted /\ slot'[s].initialized = slot[s].initialized
      BY <1>8, <2>2 DEF Works, Pending, IsSlave, SlotOK
    <3> QED BY <2>1, <3>1, HandSame
  <2>3. CASE p = s /\ Goes(p, "call", "body")
    <3>1. slot'[s].taskStarted = slot[s].taskStarted + 1 /\ Pending(s) /\ ~Pending(s)'
          /\ slot[s].initialized /\ slot'[s].initialized
      BY <1>8, <2>3 DEF Works, Pending, SlotOK
    <3>2. Handing(s)' = Handing(s)
      BY <2>1 DEF Handing
    <3>3. Owed(s)' = Owed(s)
      BY <3>1 DEF Owed, HandOK
    <3> QED BY <3>1, <3>2, <3>3 DEF HandOK
  <2> QED BY <2>2, <2>3
<1> QED BY <1>2, <1>3, <1>4, <1>5, <1>6, <1>7, <1>8 DEF Effect

LEMMA HandAlways == Spec => []HandInv
<1>1. Init => HandInv
  <2> SUFFICES ASSUME Init, NEW s \in SlotIds PROVE HandOK(s)
    BY PoolInit DEF HandInv
  <2>1. s \in Threads /\ s \notin Clients
    BY PoolAssumption DEF Threads, SlotIds
  <2>2. Handing(s) = {}
    BY DEF Init, Handing
  <2>3. Owed(s) = 0 /\ slot[s].taskStarted = 0
    BY <2>1 DEF Init, Owed, Pending
  <2> QED BY <2>2, <2>3, FS_EmptySet DEF HandOK
<1>2. HandInv /\ [Next]_vars => HandInv'
  <2>1. ASSUME HandInv, UNCHANGED vars PROVE HandInv'
    BY <2>1, PoolStep DEF HandInv, HandOK, Handing, Owed, Pending, ActivatedOnce, vars
  <2>2. ASSUME HandInv, NEW p \in Threads, Step(p) PROVE HandInv'
    <3>1. ActivatedOnce /\ Effect(p)
      BY <2>2, StepEffect DEF HandInv, PoolInv, Step, ActivatedOnce
    <3>2. ActivatedOnce' => \A s \in SlotIds : HandOK(s)'
      BY <2>2, <3>1, HandStep DEF HandInv
    <3>3. PoolInv'
      BY <2>2, PoolStep DEF HandInv, Next
    <3> QED BY <3>2, <3>3 DEF HandInv
  <2> QED BY <2>1, <2>2 DEF Next
<1> QED BY <1>1, <1>2, PTL DEF Spec

\* As long as no slot in use is activated a second time, every thread that waits
\* on taskStarted of a worker is owed exactly one signal.
THEOREM SignalsMatchWaiters == Spec => [](ActivatedOnce => Handshake)
<1>1. HandInv => (ActivatedOnce => Handshake)
  BY DEF HandInv, HandOK, Owed, Handshake
<1> QED BY <1>1, HandAlways, PTL

(* --------------------------- Programs and tasks ------------------------ *)

\* The k-th thing a client, or a task, does is op.
Calls(u, k, op) == k \in 1 .. Len(Script[u]) /\ Script[u][k].op = op
SpawnsAt(u, k, t) == Calls(u, k, "spawn") /\ Script[u][k].t = t

\* Programs are sequences, and what they spawn are tasks.
WellFormed ==
  \A u \in Clients \cup Tasks :
    Len(Script[u]) \in Nat /\ \A k, t : SpawnsAt(u, k, t) => t \in Tasks

\* Where a thread is inside nimSpawn3.
Spawning == Busy \ {"body", "sync", "mark"}

Program(p) == IF p \in Clients THEN p ELSE th[p].task
Active(p) == th[p].pc \in Busy

\* The kinds of steps, by what they do to the tasks.
Others(p) ==
  \A q \in Threads : q # p =>
    /\ th'[q].task = th[q].task /\ th'[q].op = th[q].op
    /\ th'[q].w = th[q].w /\ th'[q].last = th[q].last
    /\ th'[q].pc = th[q].pc \/ (th[q].pc = "none" /\ th'[q].pc = "top")
Stays(p) == th'[p].task = th[p].task /\ th'[p].op = th[p].op
SamePending == \A s \in SlotIds : Pending(s)' <=> Pending(s)
SameData == \A s \in SlotIds : slot'[s].data = slot[s].data

Moves(p) ==
  /\ Others(p) /\ Stays(p) /\ SameData /\ SamePending /\ UNCHANGED <<done, starts>>
  /\ (th'[p].pc \in Busy) <=> (th[p].pc \in Busy)
  /\ th[p].pc # "handed" /\ th'[p].pc # "handed"
  /\ th'[p].pc \in Spawning => th[p].pc \in Spawning \/ At(p, "spawn")
  /\ th'[p].pc = "sync" => th[p].pc = "sync" \/ At(p, "sync")
  /\ th'[p].pc = "mark" => th[p].pc = "mark" \/ At(p, "setMaxPoolSize")

Hands(p) ==
  /\ Others(p) /\ Stays(p) /\ UNCHANGED <<done, starts>>
  /\ th[p].pc = "claimed" /\ th'[p].pc = "handed" /\ th'[p].w = th[p].w
  /\ \A s \in SlotIds : s # th[p].w => slot'[s].data = slot[s].data /\ (Pending(s)' <=> Pending(s))
  /\ th[p].w \in SlotIds =>
       ~Pending(th[p].w) /\ Pending(th[p].w)' /\ slot'[th[p].w].data = Arg(p)

Begins(p) ==
  /\ Others(p) /\ SameData /\ UNCHANGED done
  /\ th[p].pc = "call" /\ th'[p].pc = "body" /\ th'[p].op = 1 /\ th'[p].task = slot[p].data
  /\ starts' = [starts EXCEPT ![slot[p].data] = @ + 1]
  /\ \A s \in SlotIds : s # p => (Pending(s)' <=> Pending(s))
  /\ Pending(p) /\ ~Pending(p)'

Ends(p) ==
  /\ Others(p) /\ Stays(p) /\ SameData /\ SamePending /\ UNCHANGED starts
  /\ th[p].pc = "body" /\ th'[p].pc = "ended" /\ Finished(p)
  /\ done' = done \cup {th[p].task}

Advances(p) ==
  /\ Others(p) /\ SameData /\ SamePending /\ UNCHANGED <<done, starts>>
  /\ th'[p].pc = "body" /\ th'[p].task = th[p].task /\ th'[p].op = th[p].op + 1
  /\ th[p].pc \in {"handed", "sync", "mark"} \/ At(p, "await")

TaskEffect(p) ==
  Moves(p) \/ Hands(p) \/ Advances(p) \/ (p \in SlotIds /\ (Begins(p) \/ Ends(p)))

LEMMA StepTasks ==
  ASSUME PoolInv, NEW p \in Threads, Step(p), ActivatedOnce' PROVE TaskEffect(p)
<1>1. PICK D : Shape(D, slot, th)
  BY DEF PoolInv, Shaped
<1>2. \A s \in SlotIds : SlotOK(s) /\ s \in Threads
  BY DEF PoolInv, Threads
<1>0. \A s \in SlotIds : s \in Threads
  BY DEF Threads
<1> USE <1>0, <1>1 DEF Shape, SlotRec, ThRec, Goto, NextOp, Loop, Others, Stays, SamePending, SameData,
                 Pending, history, Busy, Spawning
<1>3. CASE \/ Spawn(p) \/ SkipAdvice(p) \/ LeaveAdvice(p) \/ AdviceNothing(p) \/ AdviceCreate(p)
  <2>1. Moves(p)
    BY <1>3 DEF Spawn, SkipAdvice, LeaveAdvice, AdviceNothing, AdviceCreate, ScanOver, At, Moves
  <2> QED BY <2>1 DEF TaskEffect
<1>4. CASE EnterAdvice(p)
  <2>1. Moves(p)
    BY <1>4 DEF EnterAdvice, ScanOver, Moves
  <2> QED BY <2>1 DEF TaskEffect
<1>5. CASE AdviceShutdown(p)
  <2>1. Moves(p)
    BY <1>5 DEF AdviceShutdown, Moves
  <2> QED BY <2>1 DEF TaskEffect
<1>6. CASE TestInitialized(p) \/ UseSlot(p)
  <2>1. CASE TestInitialized(p)
    BY <2>1 DEF TestInitialized, Moves, TaskEffect
  <2>2. CASE UseSlot(p)
    BY <2>2 DEF UseSlot, Moves, TaskEffect
  <2> QED BY <1>6, <2>1, <2>2
<1>7. CASE EnterSlaves(p)
  <2>1. Moves(p)
    BY <1>7 DEF EnterSlaves, Moves
  <2> QED BY <2>1 DEF TaskEffect
<1>8. CASE Sync(p) \/ SyncNext(p)
  <2>1. Moves(p)
    BY <1>8 DEF Sync, SyncNext, At, Moves
  <2> QED BY <2>1 DEF TaskEffect
<1>9. CASE Await(p) \/ SyncReturns(p)
  <2>1. Advances(p)
    BY <1>9 DEF Await, SyncReturns, At, Advances
  <2> QED BY <2>1 DEF TaskEffect
<1>10. CASE SetMaxPoolSize(p)
  <2>1. Moves(p)
    BY <1>10 DEF SetMaxPoolSize, At, Moves
  <2> QED BY <2>1 DEF TaskEffect
<1>11. CASE Mark(p)
  <2>1. \A s \in SlotIds : slot'[s].data = slot[s].data /\ slot'[s].taskArrived = slot[s].taskArrived
    <3>1. slot' = slot \/ \E w : slot' = [slot EXCEPT ![w].shutdown = TRUE]
      BY <1>11 DEF Mark
    <3> QED BY <3>1
  <2>2. \/ th' = [th EXCEPT ![p].w = @ + 1]
        \/ th' = [th EXCEPT ![p].pc = "body", ![p].op = @ + 1]
    BY <1>11 DEF Mark
  <2>3. Moves(p) \/ Advances(p)
    BY <1>11, <2>1, <2>2 DEF Mark, Moves, Advances
  <2> QED BY <2>3 DEF TaskEffect
<1>12. CASE TryReadyWorker(p)
  <2>1. \A s \in SlotIds : slot'[s].data = slot[s].data /\ slot'[s].taskArrived = slot[s].taskArrived
    <3>1. slot' = slot \/ slot' = [slot EXCEPT ![readyWorker].ready = FALSE]
      BY <1>12 DEF TryReadyWorker, Claim
    <3> QED BY <3>1
  <2>2. Moves(p)
    BY <1>12, <2>1 DEF TryReadyWorker, Claim, Moves
  <2> QED BY <2>2 DEF TaskEffect
<1>13. CASE Scan(p)
  <2>1. \A s \in SlotIds : slot'[s].data = slot[s].data /\ slot'[s].taskArrived = slot[s].taskArrived
    BY <1>13 DEF Scan, Claim
  <2>2. \/ th' = [th EXCEPT ![p].pc = "claimed", ![p].w = th[p].w]
        \/ th' = [th EXCEPT ![p].w = @ + 1]
    BY <1>13 DEF Scan, Claim
  <2>3. Moves(p)
    BY <1>13, <2>1, <2>2 DEF Scan, Moves
  <2> QED BY <2>3 DEF TaskEffect
<1>14. CASE TryNewSlot(p)
  <2>1. \A s \in SlotIds : slot'[s].data = slot[s].data /\ slot'[s].taskArrived = slot[s].taskArrived
    BY <1>14 DEF TryNewSlot, Claim, AfterGrowing
  <2>2. Moves(p)
    BY <1>14, <2>1 DEF TryNewSlot, Claim, AfterGrowing, Moves
  <2> QED BY <2>2 DEF TaskEffect
<1>15. CASE HandOver(p)
  <2>1. th[p].w \in SlotIds => ~Pending(th[p].w) /\ slot[th[p].w].taskArrived = 0
    BY <1>2, <1>15 DEF HandOver, SlotOK, Claims
  <2>2. Hands(p)
    BY <1>15, <2>1 DEF HandOver, Hands
  <2> QED BY <2>2 DEF TaskEffect
<1>16. CASE Started(p)
  <2>1. Advances(p)
    BY <1>16 DEF Started, Advances
  <2> QED BY <2>1 DEF TaskEffect
<1>17. CASE Activate(p)
  <2> DEFINE s == currentPoolSize + 1
  <2>1. /\ slot' = [slot EXCEPT ![s].initialized = TRUE, ![s].taskArrived = 0, ![s].taskStarted = 0]
        /\ UNCHANGED <<done, starts>> /\ th[p].pc = "activate"
        /\ ~slot[s].initialized /\ th' = [th EXCEPT ![p].pc = "use", ![s].pc = "top"]
    BY <1>17 DEF Activate, ActivatedOnce
  <2>2. s \in SlotIds => th[s].pc = "none" /\ slot[s].taskArrived = 0
    BY <1>2, <2>1 DEF SlotOK
  <2>3. s \in Threads => s \in SlotIds
    BY PoolAssumption DEF PoolInv, WaitsOK, Threads
  <2> HIDE DEF s
  <2>4. th'[p].pc = "use"
    BY <2>1, <2>2, <2>3
  <2>5. Others(p) /\ Stays(p)
    BY <2>1, <2>2, <2>3, <2>4
  <2>6. SameData
    BY <2>1, <1>1
  <2>7. SamePending
    <3> SUFFICES ASSUME NEW r \in SlotIds PROVE Pending(r)' <=> Pending(r)
      OBVIOUS
    <3>1. slot'[r].taskArrived = slot[r].taskArrived
      BY <2>1, <2>2
    <3>2. th'[r].pc \in {"arrived", "call"} <=> th[r].pc \in {"arrived", "call"}
      BY <1>2, <2>1, <2>2, <2>4, <2>5
    <3> QED BY <3>1, <3>2
  <2>8. Moves(p)
    BY <2>1, <2>4, <2>5, <2>6, <2>7 DEF Moves
  <2> QED BY <2>8 DEF TaskEffect
<1>18. CASE CountWaiting(p) \/ ClientBlocks(p) \/ CountWoken(p)
  <2>1. Moves(p)
    BY <1>18 DEF CountWaiting, ClientBlocks, CountWoken, Moves
  <2> QED BY <2>1 DEF TaskEffect
<1>19. CASE SomeReady(p)
  <2>1. Moves(p)
    BY <1>19 DEF SomeReady, Moves
  <2> QED BY <2>1 DEF TaskEffect
<1>20. CASE IsSlave(p) /\ (Shutdown(p) \/ SetReady(p) \/ Announce(p))
  <2>1. \A s \in SlotIds : slot'[s].data = slot[s].data /\ slot'[s].taskArrived = slot[s].taskArrived
    <3>1. \/ slot' = slot
          \/ slot' = [slot EXCEPT ![p].shutdown = FALSE]
          \/ slot' = [slot EXCEPT ![p].ready = TRUE]
      BY <1>20 DEF Shutdown, SetReady, Announce
    <3> QED BY <3>1
  <2>2. Moves(p)
    BY <1>20, <2>1 DEF Shutdown, SetReady, Announce, Moves
  <2> QED BY <2>2 DEF TaskEffect
<1>21. CASE IsSlave(p) /\ (TaskArrived(p) \/ CountRunning(p) \/ CountEnded(p))
  <2>1. CASE TaskArrived(p)
    BY <1>2, <1>21, <2>1 DEF TaskArrived, Moves, TaskEffect, IsSlave
  <2>2. CASE CountRunning(p) \/ CountEnded(p)
    BY <2>2 DEF CountRunning, CountEnded, Moves, TaskEffect
  <2> QED BY <1>21, <2>1, <2>2
<1>22. CASE IsSlave(p) /\ CopyArgs(p)
  <2>1. Begins(p)
    <3>1. p \in SlotIds /\ th[p].pc = "call"
      BY <1>22 DEF CopyArgs, IsSlave
    <3>2. slot[p].taskArrived = 0
      BY <3>1, <1>2 DEF SlotOK
    <3>3. \A s \in SlotIds : slot'[s].data = slot[s].data /\ slot'[s].taskArrived = slot[s].taskArrived
      <4>1. slot' = [slot EXCEPT ![p].taskStarted = @ + 1]
        BY <1>22 DEF CopyArgs
      <4> QED BY <4>1
    <3>4. th' = [th EXCEPT ![p].pc = "body", ![p].task = slot[p].data, ![p].op = 1]
      BY <1>22 DEF CopyArgs
    <3>5. starts' = [starts EXCEPT ![slot[p].data] = @ + 1] /\ UNCHANGED done
      BY <1>22 DEF CopyArgs
    <3>6. Pending(p) /\ ~Pending(p)' /\ \A s \in SlotIds : s # p => (Pending(s)' <=> Pending(s))
      BY <3>1, <3>2, <3>3, <3>4
    <3> QED BY <3>1, <3>3, <3>4, <3>5, <3>6 DEF Begins
  <2> QED BY <2>1, <1>22 DEF TaskEffect, IsSlave
<1>23. CASE IsSlave(p) /\ EndTask(p)
  <2>1. Ends(p)
    BY <1>23, <1>2 DEF EndTask, Ends, IsSlave
  <2> QED BY <2>1, <1>23 DEF TaskEffect, IsSlave
<1> QED
  BY <1>3, <1>4, <1>5, <1>6, <1>7, <1>8, <1>9, <1>10, <1>11, <1>12, <1>13, <1>14, <1>15, <1>16,
     <1>17, <1>18, <1>19, <1>20, <1>21, <1>22, <1>23 DEF Step, SlaveStep, SpawnStep, OtherStep

\* A thread runs a client's program or a task's, and is in nimSpawn3, sync or
\* setMaxPoolSize only where that program says so.
ProgOK(p) ==
  /\ p \in Clients => Active(p)
  /\ Active(p) =>
       /\ p \notin Clients => Program(p) \in Tasks
       /\ th[p].op \in Nat \ {0} /\ th[p].op <= Len(Script[Program(p)]) + 1
       /\ th[p].pc \in Spawning => Calls(Program(p), th[p].op, "spawn")
       /\ th[p].pc = "sync" => Calls(Program(p), th[p].op, "sync")
       /\ th[p].pc = "mark" => Calls(Program(p), th[p].op, "setMaxPoolSize")
DataOK(s) == Pending(s) => slot[s].data \in Tasks

Programs == (\A p \in Threads : ProgOK(p)) /\ \A s \in SlotIds : DataOK(s)
ProgInv == PoolInv /\ (ActivatedOnce => Programs)

LEMMA SlotsNoClients == \A s \in SlotIds : s \in Threads /\ s \notin Clients
BY PoolAssumption DEF Threads, SlotIds

LEMMA AtCalls ==
  ASSUME WellFormed, NEW p \in Threads, ProgOK(p), NEW op, At(p, op)
  PROVE  Calls(Program(p), th[p].op, op)
<1>1. Program(p) \in Clients \cup Tasks /\ th[p].op \in Nat \ {0}
  BY DEF ProgOK, At, Active, Busy, Program
<1>2. Body(p) = Script[Program(p)]
  BY DEF Body, Program
<1> QED BY <1>1, <1>2 DEF WellFormed, At, Finished, Calls

LEMMA ProgSame ==
  ASSUME NEW q \in Threads, ProgOK(q), th'[q].pc = th[q].pc, th'[q].task = th[q].task, th'[q].op = th[q].op
  PROVE  ProgOK(q)'
BY DEF ProgOK, Active, Program

LEMMA ProgStep ==
  ASSUME WellFormed, PoolInv, Programs, NEW p \in Threads, TaskEffect(p), NEW q \in Threads
  PROVE  ProgOK(q)'
<1>1. ProgOK(p) /\ ProgOK(q)
  BY DEF Programs
<1>2. p \in SlotIds => p \notin Clients
  BY SlotsNoClients
<1>3. CASE q # p
  <2>1. Others(p)
    BY DEF TaskEffect, Moves, Hands, Begins, Ends, Advances
  <2>2. CASE th'[q].pc = th[q].pc
    BY <1>1, <1>3, <2>1, <2>2, ProgSame DEF Others
  <2>3. CASE th[q].pc = "none" /\ th'[q].pc = "top"
    BY <1>1, <2>3 DEF ProgOK, Active, Busy
  <2> QED BY <1>3, <2>1, <2>2, <2>3 DEF Others
<1>4. CASE q = p /\ Moves(p)
  <2>1. Program(p)' = Program(p)
    BY <1>4 DEF Moves, Stays, Program
  <2>2. \A op : At(p, op) => Calls(Program(p), th[p].op, op)
    BY <1>1, AtCalls
  <2> QED BY <1>1, <1>4, <2>1, <2>2 DEF Moves, Stays, ProgOK, Active
<1>5. CASE q = p /\ Hands(p)
  <2>1. Program(p)' = Program(p)
    BY <1>5 DEF Hands, Stays, Program
  <2> QED BY <1>1, <1>5, <2>1 DEF Hands, Stays, ProgOK, Active, Busy, Spawning
<1>6. CASE q = p /\ Advances(p)
  <2>1. Program(p)' = Program(p) /\ Active(p) /\ Active(p)'
    BY <1>6 DEF Advances, Program, At, Active, Busy
  <2>2. \E op : Calls(Program(p), th[p].op, op)
    <3>1. CASE At(p, "await")
      BY <1>1, <3>1, AtCalls
    <3> QED BY <1>1, <1>6, <2>1, <3>1 DEF Advances, ProgOK, Spawning, Busy
  <2>3. th[p].op <= Len(Script[Program(p)]) /\ Len(Script[Program(p)]) \in Nat
    BY <1>1, <2>1, <2>2 DEF Calls, ProgOK, WellFormed, Program
  <2> QED BY <1>1, <1>6, <2>1, <2>3 DEF Advances, ProgOK, Spawning
<1>7. CASE q = p /\ p \in SlotIds /\ Begins(p)
  <2>1. Program(p)' \in Tasks
    BY <1>2, <1>7 DEF Begins, Program, Programs, DataOK
  <2>2. Len(Script[Program(p)']) \in Nat
    BY <2>1 DEF WellFormed
  <2> QED BY <1>2, <1>7, <2>1, <2>2 DEF Begins, ProgOK, Spawning
<1>8. CASE q = p /\ p \in SlotIds /\ Ends(p)
  BY <1>2, <1>8 DEF Ends, ProgOK, Active, Busy
<1> QED BY <1>3, <1>4, <1>5, <1>6, <1>7, <1>8 DEF TaskEffect

LEMMA SpawnArg ==
  ASSUME WellFormed, NEW p \in Threads, ProgOK(p), th[p].pc \in Spawning
  PROVE  SpawnsAt(Program(p), th[p].op, Arg(p)) /\ Arg(p) \in Tasks
<1>1. Calls(Program(p), th[p].op, "spawn") /\ Program(p) \in Clients \cup Tasks
  BY DEF ProgOK, Active, Spawning, Program
<1>2. Arg(p) = Script[Program(p)][th[p].op].t
  BY DEF Arg, Body, Program
<1> QED BY <1>1, <1>2 DEF WellFormed, SpawnsAt

LEMMA DataStep ==
  ASSUME WellFormed, PoolInv, Programs, NEW p \in Threads, TaskEffect(p), NEW s \in SlotIds
  PROVE  DataOK(s)'
<1>1. DataOK(s) /\ ProgOK(p)
  BY DEF Programs
<1>2. CASE Moves(p) \/ Advances(p) \/ Ends(p)
  BY <1>1, <1>2 DEF Moves, Advances, Ends, SamePending, SameData, DataOK
<1>3. CASE Hands(p)
  <2>1. Arg(p) \in Tasks
    BY <1>1, <1>3, SpawnArg DEF Hands, Spawning, Busy
  <2> QED BY <1>1, <1>3, <2>1 DEF Hands, DataOK
<1>4. CASE p \in SlotIds /\ Begins(p)
  BY <1>1, <1>4 DEF Begins, SameData, DataOK
<1> QED BY <1>2, <1>3, <1>4 DEF TaskEffect

LEMMA ProgsStep ==
  ASSUME WellFormed, ProgInv, NEW p \in Threads, Step(p), ActivatedOnce'
  PROVE  Programs /\ TaskEffect(p) /\ Programs'
<1>1. ActivatedOnce /\ PoolInv /\ Programs
  BY DEF Step, ActivatedOnce, ProgInv
<1>2. TaskEffect(p)
  BY <1>1, StepTasks
<1> QED BY <1>1, <1>2, ProgStep, DataStep DEF Programs

LEMMA ProgramsAlways == ASSUME WellFormed PROVE Spec => []ProgInv
<1>1. Init => ProgInv
  <2> SUFFICES ASSUME Init PROVE Programs
    BY PoolInit DEF ProgInv
  <2>1. ASSUME NEW p \in Threads PROVE ProgOK(p)
    BY <2>1, SlotsNoClients DEF Init, ProgOK, Active, Busy, Spawning, Program, WellFormed, Threads
  <2>2. ASSUME NEW s \in SlotIds PROVE DataOK(s)
    BY <2>2, SlotsNoClients DEF Init, DataOK, Pending
  <2> QED BY <2>1, <2>2 DEF Programs
<1>2. ProgInv /\ [Next]_vars => ProgInv'
  <2>1. ASSUME ProgInv, UNCHANGED vars PROVE ProgInv'
    BY <2>1, PoolStep DEF ProgInv, Programs, ProgOK, DataOK, Active, Program, Pending, ActivatedOnce, vars
  <2>2. ASSUME ProgInv, NEW p \in Threads, Step(p) PROVE ProgInv'
    <3>1. PoolInv'
      BY <2>2, PoolStep DEF ProgInv, Next
    <3> QED BY <2>2, <3>1, ProgsStep DEF ProgInv
  <2> QED BY <2>1, <2>2 DEF Next
<1> QED BY <1>1, <1>2, PTL DEF Spec

(* ---------------------- Where one thread spawns ------------------------ *)

\* No other client, and no task, spawns anything.
SoleSpawner(c) ==
  /\ c \in Clients
  /\ \A u \in (Clients \ {c}) \cup Tasks : \A k : ~Calls(u, k, "spawn")

LEMMA OnlySpawner ==
  ASSUME NEW c, SoleSpawner(c), NEW p \in Threads, ProgOK(p), th[p].pc \in Spawning PROVE p = c
BY DEF SoleSpawner, ProgOK, Active, Spawning, Program

\* What was handed over stays in the slot until its arguments are copied.
ArgOK(c) ==
  \A s \in SlotIds : th[c].pc = "handed" /\ th[c].w = s => slot[s].data = Arg(c)

LEMMA ArgStep ==
  ASSUME WellFormed, NEW c, SoleSpawner(c), PoolInv, Programs, ArgOK(c),
         NEW p \in Threads, TaskEffect(p)
  PROVE  ArgOK(c)'
<1>1. c \in Threads /\ c \in Clients /\ (p \in SlotIds => p # c)
  BY SlotsNoClients DEF SoleSpawner, Threads
<1>2. th[p].pc = "claimed" => p = c
  BY OnlySpawner DEF Programs, Spawning, Busy
<1>3. Arg(c) = Script[c][th[c].op].t /\ Arg(c)' = Script[c][th'[c].op].t
  BY <1>1 DEF Arg, Body
<1>4. CASE p # c
  <2>1. SameData /\ Others(p)
    BY <1>2, <1>4 DEF TaskEffect, Moves, Hands, Advances, Begins, Ends
  <2> QED BY <1>1, <1>3, <1>4, <2>1 DEF SameData, Others, ArgOK
<1>5. CASE p = c
  <2>1. Moves(p) \/ Hands(p) \/ Advances(p)
    BY <1>1, <1>5 DEF TaskEffect
  <2> QED BY <1>1, <1>3, <1>5, <2>1 DEF Moves, Hands, Advances, Stays, ArgOK
<1> QED BY <1>4, <1>5

\* Where one thread spawns, that thread is still in nimSpawn3, with the task it
\* spawns, as long as the arguments of a task are to be copied: no stale signal
\* lets it return early, however the pool grows and shrinks.
THEOREM ArgumentsLive ==
  ASSUME WellFormed, NEW c, SoleSpawner(c)
  PROVE  Spec => [](ActivatedOnce => ArgsAlive)
<1> DEFINE I == ActivatedOnce => ArgOK(c)
<1>1. Init => I
  BY DEF Init, ArgOK, SoleSpawner, Threads
<1>2. ProgInv /\ I /\ [Next]_vars => I'
  <2> SUFFICES ASSUME ProgInv, I, [Next]_vars, ActivatedOnce' PROVE ArgOK(c)'
    OBVIOUS
  <2>1. CASE UNCHANGED vars
    BY <2>1 DEF ArgOK, Arg, Body, ActivatedOnce, vars
  <2>2. ASSUME NEW p \in Threads, Step(p) PROVE ArgOK(c)'
    <3>1. ActivatedOnce
      BY <2>2 DEF Step, ActivatedOnce
    <3>2. PoolInv /\ Programs /\ TaskEffect(p)
      BY <2>2, ProgsStep DEF ProgInv
    <3> QED BY <3>1, <3>2, ArgStep
  <2> QED BY <2>1, <2>2 DEF Next
<1>3. ProgInv /\ HandInv /\ I => (ActivatedOnce => ArgsAlive)
  <2> SUFFICES ASSUME ProgInv, HandInv, I, ActivatedOnce, NEW s \in SlotIds, Pending(s)
               PROVE  \E p \in Handing(s) : Arg(p) = slot[s].data
    BY DEF ArgsAlive
  <2>1. Cardinality(Handing(s)) = 1 + slot[s].taskStarted /\ slot[s].taskStarted \in Nat
    BY DEF HandInv, HandOK, Owed
  <2>2. Handing(s) # {}
    BY <2>1, FS_EmptySet
  <2>3. PICK p \in Handing(s) : TRUE
    BY <2>2
  <2>4. p \in Threads /\ th[p].pc = "handed" /\ th[p].w = s
    BY <2>3 DEF Handing
  <2>5. p = c
    BY <2>4, OnlySpawner DEF ProgInv, Programs, Spawning, Busy
  <2> QED BY <2>3, <2>4, <2>5 DEF ArgOK
<1> QED BY <1>1, <1>2, <1>3, ProgramsAlways, HandAlways, PTL DEF Spec

(* ----------------------- No task is lost or doubled -------------------- *)

\* The pool's size stays within workersData.
InArray == currentPoolSize \in 0 .. Slots

\* The slot a thread looks at, claims or hands a task to is there.
PlaceOK(p) ==
  /\ th[p].pc = "scan" => th[p].w \in Nat \ {0} /\ th[p].last \in 0 .. Slots
  /\ th[p].pc \in {"claimed", "handed", "try"} => th[p].w \in SlotIds
Places == readyWorker \in SlotIds /\ \A p \in Threads : PlaceOK(p)

LEMMA PlaceStep ==
  ASSUME PoolInv, Places, InArray, InArray', NEW p \in Threads, Step(p), TaskEffect(p)
  PROVE  Places'
<1>1. PICK D : Shape(D, slot, th)
  BY DEF PoolInv, Shaped
<1>2. Slots \in Nat /\ SlotIds = 1 .. Slots
  BY PoolAssumption DEF SlotIds
<1>3. PlaceOK(p)
  BY DEF Places
<1>4. ASSUME NEW q \in Threads, q # p PROVE PlaceOK(q)'
  <2>1. Others(p) /\ PlaceOK(q)
    BY DEF TaskEffect, Moves, Hands, Begins, Ends, Advances, Places
  <2> QED BY <1>4, <2>1 DEF Others, PlaceOK
<1>5. readyWorker' \in SlotIds
  <2>1. CASE IsSlave(p) /\ Announce(p)
    BY <2>1 DEF Announce, IsSlave
  <2>2. CASE ~(IsSlave(p) /\ Announce(p))
    <3>1. readyWorker' = readyWorker
      BY <2>2 DEF Step, SlaveStep, SpawnStep, OtherStep, Shutdown, SetReady, TaskArrived,
         CountRunning, CopyArgs, EndTask, CountEnded, Spawn, TryReadyWorker, Scan, HandOver, Started,
         EnterAdvice, SkipAdvice, LeaveAdvice, AdviceCreate, AdviceShutdown, AdviceNothing,
         TestInitialized, Activate, UseSlot, TryNewSlot, EnterSlaves, CountWaiting, ClientBlocks,
         SomeReady, CountWoken, Await, Sync, SyncNext, SyncReturns, SetMaxPoolSize, Mark
    <3> QED BY <3>1 DEF Places
  <2> QED BY <2>1, <2>2
<1> USE <1>1 DEF Shape, ThRec, Goto, NextOp, Loop, PlaceOK, InArray
<1>6. PlaceOK(p)'
  <2>1. CASE \/ Spawn(p) \/ SkipAdvice(p) \/ LeaveAdvice(p) \/ AdviceNothing(p) \/ AdviceCreate(p)
             \/ EnterAdvice(p) \/ AdviceShutdown(p)
    BY <2>1 DEF Spawn, SkipAdvice, LeaveAdvice, AdviceNothing, AdviceCreate, EnterAdvice, AdviceShutdown
  <2>2. CASE TestInitialized(p)
    BY <2>2 DEF TestInitialized
  <2>3. CASE UseSlot(p)
    BY <1>2, <2>3 DEF UseSlot
  <2>4. CASE TryReadyWorker(p)
    BY <1>2, <2>4 DEF TryReadyWorker, Claim, Places
  <2>5. CASE Scan(p)
    BY <1>2, <1>3, <2>5 DEF Scan, Claim
  <2>6. CASE TryNewSlot(p)
    BY <1>3, <2>6 DEF TryNewSlot, Claim, AfterGrowing
  <2>7. CASE HandOver(p) \/ Started(p)
    BY <1>3, <2>7 DEF HandOver, Started
  <2>8. CASE Activate(p)
    <3>1. th[p].pc = "activate"
      BY <2>8 DEF Activate
    <3>2. th'[p].pc \in {"activate", "use", "top"}
      BY <2>8 DEF Activate
    <3> QED BY <3>2
  <2>9. CASE EnterSlaves(p) \/ CountWaiting(p) \/ ClientBlocks(p) \/ SomeReady(p) \/ CountWoken(p)
    BY <2>9 DEF EnterSlaves, CountWaiting, ClientBlocks, SomeReady, CountWoken
  <2>10. CASE Await(p) \/ Sync(p) \/ SyncNext(p) \/ SyncReturns(p) \/ SetMaxPoolSize(p)
    BY <2>10 DEF Await, Sync, SyncNext, SyncReturns, SetMaxPoolSize, At
  <2>11. CASE Mark(p)
    BY <2>11 DEF Mark
  <2>12. CASE IsSlave(p) /\ SlaveStep(p)
    BY <2>12 DEF SlaveStep, Shutdown, SetReady, Announce, TaskArrived, CountRunning, CopyArgs,
       EndTask, CountEnded
  <2> QED
    BY <2>1, <2>2, <2>3, <2>4, <2>5, <2>6, <2>7, <2>8, <2>9, <2>10, <2>11, <2>12
    DEF Step, SpawnStep, OtherStep
<1> QED BY <1>4, <1>5, <1>6 DEF Places

\* Every spawn that is run is another task.
DistinctSpawns ==
  /\ Clients \cap Tasks = {}
  /\ \A u, v \in Clients \cup Tasks : \A j, k, t :
       SpawnsAt(u, j, t) /\ SpawnsAt(v, k, t) => u = v /\ j = k

Has(s, t) == Pending(s) /\ slot[s].data = t

\* A task that has not been handed over yet.
Fresh(t) == starts[t] = 0 /\ \A s \in SlotIds : ~Has(s, t)

Once(t) ==
  /\ starts[t] \in {0, 1}
  /\ \A s \in SlotIds : Has(s, t) => starts[t] = 0
  /\ \A s, r \in SlotIds : Has(s, t) /\ Has(r, t) => s = r

\* A thread has handed over what its program spawns before the point where it is,
\* and nothing of what it spawns later; nor has a task that is not started.
HandedOver(p, k) == k < th[p].op \/ (k = th[p].op /\ th[p].pc = "handed")
SpawnsOK(p) ==
  Active(p) => \A k, t : SpawnsAt(Program(p), k, t) => (HandedOver(p, k) <=> ~Fresh(t))
UnstartedOK(u) == starts[u] = 0 => \A k, t : SpawnsAt(u, k, t) => Fresh(t)

\* A worker that runs a task is the one that started it.
RunsOK(s) ==
  Active(s) => /\ starts[th[s].task] = 1
               /\ \A r \in SlotIds : Active(r) /\ th[r].task = th[s].task => r = s

OnceInv ==
  /\ starts \in [Tasks -> Int]
  /\ \A t \in Tasks : Once(t) /\ UnstartedOK(t)
  /\ \A p \in Threads : SpawnsOK(p)
  /\ \A s \in SlotIds : RunsOK(s)

LEMMA OneProgram ==
  ASSUME DistinctSpawns, Programs, OnceInv, NEW p \in Threads, NEW q \in Threads, Active(p), Active(q),
         Program(p) = Program(q)
  PROVE  p = q
<1>1. /\ p \notin Clients => Program(p) \in Tasks
      /\ q \notin Clients => Program(q) \in Tasks
  BY DEF Programs, ProgOK
<1>2. p \in Clients <=> q \in Clients
  BY <1>1 DEF DistinctSpawns, Program
<1>3. CASE p \notin Clients
  <2>1. p \in SlotIds /\ q \in SlotIds
    BY <1>2, <1>3 DEF Threads
  <2> QED BY <1>2, <1>3, <2>1 DEF OnceInv, RunsOK, Program
<1> QED BY <1>2, <1>3 DEF Program

\* Steps that neither hand a task over nor start one.
LEMMA OnceKeeps ==
  ASSUME WellFormed, Programs, OnceInv, NEW p \in Threads,
         Moves(p) \/ Advances(p) \/ (p \in SlotIds /\ Ends(p))
  PROVE  OnceInv'
<1>1. /\ Others(p) /\ SamePending /\ SameData /\ starts' = starts
      /\ th'[p].task = th[p].task
      /\ Active(p)' => Active(p)
  BY DEF Moves, Advances, Ends, Stays, Active, Busy, At
<1>2. \A s \in SlotIds : s \in Threads
  BY DEF Threads
<1>3. \A t : /\ \A s \in SlotIds : Has(s, t)' <=> Has(s, t)
             /\ Fresh(t)' <=> Fresh(t)
  BY <1>1 DEF SamePending, SameData, Has, Fresh
<1>4. \A q \in Threads : /\ th'[q].task = th[q].task /\ Program(q)' = Program(q)
                         /\ Active(q)' => Active(q)
                         /\ q # p => (\A k : HandedOver(q, k)' <=> HandedOver(q, k))
  BY <1>1 DEF Others, Program, Active, Busy, HandedOver
<1>5. ASSUME NEW t \in Tasks PROVE (Once(t) /\ UnstartedOK(t))'
  BY <1>1, <1>3 DEF OnceInv, Once, UnstartedOK
<1>6. ASSUME NEW s \in SlotIds PROVE RunsOK(s)'
  BY <1>1, <1>2, <1>4 DEF OnceInv, RunsOK
<1>7. ASSUME NEW q \in Threads PROVE SpawnsOK(q)'
  <2>1. SpawnsOK(q)
    BY DEF OnceInv
  <2>2. CASE q # p
    BY <1>3, <1>4, <2>1, <2>2 DEF SpawnsOK
  <2>3. CASE q = p
    <3> SUFFICES ASSUME Active(p), Active(p)', NEW k, NEW t, SpawnsAt(Program(p), k, t)
                 PROVE  HandedOver(p, k)' <=> HandedOver(p, k)
      BY <1>3, <1>4, <2>1, <2>3 DEF SpawnsOK
    <3>1. k \in Int /\ th[p].op \in Int /\ ProgOK(p)
      BY DEF Programs, ProgOK, SpawnsAt, Calls
    <3>2. CASE Moves(p) \/ Ends(p)
      BY <3>2 DEF Moves, Ends, Stays, HandedOver
    <3>3. CASE Advances(p)
      <4>1. th[p].pc # "handed" => k # th[p].op
        <5>1. CASE At(p, "await")
          BY <3>1, <5>1, AtCalls DEF SpawnsAt, Calls
        <5> QED BY <3>1, <3>3, <5>1 DEF Advances, ProgOK, SpawnsAt, Calls
      <4> QED BY <3>1, <3>3, <4>1 DEF Advances, HandedOver
    <3> QED BY <3>2, <3>3
  <2> QED BY <2>2, <2>3
<1> QED BY <1>1, <1>5, <1>6, <1>7 DEF OnceInv

LEMMA OnceHands ==
  ASSUME WellFormed, DistinctSpawns, Programs, OnceInv, NEW p \in Threads, Hands(p),
         th[p].w \in SlotIds
  PROVE  OnceInv'
<1> DEFINE w == th[p].w
           a == Arg(p)
<1>1. /\ SpawnsAt(Program(p), th[p].op, a) /\ a \in Tasks
      /\ Active(p) /\ Program(p) \in Clients \cup Tasks
      /\ th[p].op \in Int
  BY SpawnArg DEF Programs, ProgOK, Hands, Spawning, Busy, Active, Program
<1>2. Fresh(a)
  BY <1>1 DEF OnceInv, SpawnsOK, HandedOver, Hands
<1>3. \A t : \A s \in SlotIds : Has(s, t)' <=> IF s = w THEN t = a ELSE Has(s, t)
  BY DEF Hands, Has
<1>4. starts' = starts /\ Others(p)
  BY DEF Hands
<1>5. \A t : ~Has(w, t)
  BY DEF Hands, Has
<1>6. \A t : Fresh(t)' <=> Fresh(t) /\ t # a
  BY <1>3, <1>4, <1>5 DEF Fresh
<1>7. \A q \in Threads : /\ th'[q].task = th[q].task /\ Program(q)' = Program(q)
                         /\ Active(q)' <=> Active(q)
                         /\ q # p => (\A k : HandedOver(q, k)' <=> HandedOver(q, k))
  BY DEF Hands, Others, Stays, Program, Active, Busy, HandedOver
<1>8. \A k : HandedOver(p, k)' <=> HandedOver(p, k) \/ k = th[p].op
  BY DEF Hands, Stays, HandedOver
<1>9. \A s \in SlotIds : s \in Threads /\ s \notin Clients
  BY SlotsNoClients
<1> HIDE DEF w, a
<1>10. ASSUME NEW t \in Tasks PROVE Once(t)'
  BY <1>2, <1>3, <1>4 DEF OnceInv, Once, Fresh
<1>11. ASSUME NEW u \in Tasks PROVE UnstartedOK(u)'
  <2> SUFFICES ASSUME starts[u] = 0, NEW k, SpawnsAt(u, k, a) PROVE FALSE
    BY <1>4, <1>6 DEF OnceInv, UnstartedOK
  <2>1. u = Program(p)
    BY <1>1 DEF DistinctSpawns
  <2>2. p \notin Clients
    BY <2>1 DEF DistinctSpawns, Program
  <2>3. p \in SlotIds /\ th[p].task = u
    BY <2>1, <2>2 DEF Threads, Program
  <2> QED BY <1>1, <2>3 DEF OnceInv, RunsOK
<1>12. ASSUME NEW s \in SlotIds PROVE RunsOK(s)'
  BY <1>4, <1>7, <1>9 DEF OnceInv, RunsOK
<1>13. ASSUME NEW q \in Threads PROVE SpawnsOK(q)'
  <2> SUFFICES ASSUME Active(q), NEW k, NEW t, SpawnsAt(Program(q), k, t)
               PROVE  HandedOver(q, k)' <=> ~Fresh(t)'
    BY <1>7 DEF SpawnsOK
  <2>1. HandedOver(q, k) <=> ~Fresh(t)
    BY DEF OnceInv, SpawnsOK
  <2>2. CASE t = a
    <3>1. Program(q) \in Clients \cup Tasks
      BY DEF Programs, ProgOK, Program
    <3>2. Program(q) = Program(p) /\ k = th[p].op
      BY <1>1, <2>2, <3>1 DEF DistinctSpawns
    <3>3. q = p
      BY <1>1, <3>2, OneProgram
    <3> QED BY <1>6, <1>8, <2>2, <3>2, <3>3
  <2>3. CASE t # a
    <3>1. q = p => k # th[p].op
      BY <1>1, <2>3 DEF SpawnsAt
    <3> QED BY <1>6, <1>7, <1>8, <2>1, <2>3, <3>1
  <2> QED BY <2>2, <2>3
<1> QED BY <1>4, <1>10, <1>11, <1>12, <1>13 DEF OnceInv

LEMMA OnceBegins ==
  ASSUME WellFormed, Programs, OnceInv, NEW p \in SlotIds, Begins(p)
  PROVE  OnceInv'
<1> DEFINE a == slot[p].data
<1>1. a \in Tasks /\ Has(p, a) /\ starts[a] = 0 /\ starts' = [starts EXCEPT ![a] = 1]
      /\ starts' \in [Tasks -> Int]
  <2>1. a \in Tasks /\ Has(p, a)
    BY DEF Begins, Programs, DataOK, Has
  <2>2. starts[a] = 0 /\ starts \in [Tasks -> Int]
    BY <2>1 DEF OnceInv, Once
  <2>3. starts' = [starts EXCEPT ![a] = @ + 1]
    BY DEF Begins
  <2> HIDE DEF a
  <2> QED BY <2>1, <2>2, <2>3
<1>2. \A t : \A s \in SlotIds : Has(s, t)' <=> s # p /\ Has(s, t)
  BY DEF Begins, SameData, Has
<1>3. \A t \in Tasks : Fresh(t)' <=> Fresh(t)
  BY <1>1, <1>2 DEF Fresh, OnceInv, Has
<1>4. \A q \in Threads : q # p => /\ th'[q].task = th[q].task /\ Program(q)' = Program(q)
                                  /\ Active(q)' <=> Active(q)
                                  /\ \A k : HandedOver(q, k)' <=> HandedOver(q, k)
  BY DEF Begins, Others, Program, Active, Busy, HandedOver
<1>5. \A s \in SlotIds : s \in Threads /\ s \notin Clients
  BY SlotsNoClients
<1>6. th'[p].task = a /\ th'[p].op = 1 /\ Active(p)' /\ th'[p].pc = "body" /\ Program(p)' = a
  BY <1>5 DEF Begins, Active, Busy, Program
<1> HIDE DEF a
<1>7. \A u \in Clients \cup Tasks : \A k, t : SpawnsAt(u, k, t) => t \in Tasks
  BY DEF WellFormed
<1>8. ASSUME NEW t \in Tasks PROVE Once(t)' /\ UnstartedOK(t)'
  <2>1. Once(t)'
    BY <1>1, <1>2 DEF OnceInv, Once
  <2>2. UnstartedOK(t)'
    BY <1>1, <1>3, <1>7 DEF OnceInv, UnstartedOK
  <2> QED BY <2>1, <2>2
<1>9. \A r \in SlotIds : Active(r) /\ r # p => th[r].task # a
  BY <1>1 DEF OnceInv, RunsOK
<1>10. ASSUME NEW s \in SlotIds PROVE RunsOK(s)'
  <2>1. CASE s = p
    BY <1>1, <1>4, <1>5, <1>6, <1>9, <2>1 DEF RunsOK
  <2>2. CASE s # p
    <3> SUFFICES ASSUME Active(s)
                 PROVE  /\ starts'[th[s].task] = 1
                        /\ \A r \in SlotIds : Active(r)' /\ th'[r].task = th[s].task => r = s
      BY <1>4, <1>5, <2>2 DEF RunsOK
    <3>1. th[s].task \in Tasks /\ th[s].task # a
      BY <1>5, <1>9, <2>2 DEF Programs, ProgOK, Program
    <3> QED BY <1>1, <1>4, <1>5, <1>6, <3>1 DEF OnceInv, RunsOK
  <2> QED BY <2>1, <2>2
<1>11. ASSUME NEW q \in Threads PROVE SpawnsOK(q)'
  <2>1. CASE q = p
    <3> SUFFICES ASSUME NEW k, NEW t, SpawnsAt(a, k, t) PROVE ~HandedOver(p, k)' /\ Fresh(t)'
      BY <1>6, <2>1 DEF SpawnsOK
    <3>1. k \in Nat \ {0} /\ t \in Tasks
      BY <1>1, <1>7 DEF SpawnsAt, Calls
    <3>2. Fresh(t)
      BY <1>1 DEF OnceInv, UnstartedOK
    <3> QED BY <1>3, <1>6, <3>1, <3>2 DEF HandedOver
  <2>2. CASE q # p
    <3> SUFFICES ASSUME Active(q), NEW k, NEW t, SpawnsAt(Program(q), k, t)
                 PROVE  HandedOver(q, k) <=> ~Fresh(t)'
      BY <1>4, <2>2 DEF SpawnsOK
    <3>1. Program(q) \in Clients \cup Tasks
      BY DEF Programs, ProgOK, Program
    <3> QED BY <1>3, <1>7, <3>1 DEF OnceInv, SpawnsOK
  <2> QED BY <2>1, <2>2
<1> QED BY <1>1, <1>8, <1>10, <1>11 DEF OnceInv

LEMMA OnceAlways ==
  ASSUME WellFormed, DistinctSpawns
  PROVE  Spec /\ []InArray => [](ActivatedOnce => Places /\ OnceInv)
<1> DEFINE I == ActivatedOnce => Places /\ OnceInv
<1>1. Init => I
  <2> SUFFICES ASSUME Init PROVE Places /\ OnceInv
    OBVIOUS
  <2>1. Places
    BY PoolAssumption DEF Init, Places, PlaceOK, SlotIds
  <2>2. \A s \in SlotIds : ~Pending(s) /\ ~Active(s)
    BY SlotsNoClients DEF Init, Pending, Active, Busy
  <2>3. \A t \in Tasks : starts[t] = 0 /\ Fresh(t)
    BY <2>2 DEF Init, Fresh, Has
  <2>4. \A u \in Clients \cup Tasks : \A k, t : SpawnsAt(u, k, t) => k \in Nat \ {0} /\ t \in Tasks
    BY DEF WellFormed, SpawnsAt, Calls
  <2>5. ASSUME NEW p \in Threads PROVE SpawnsOK(p)
    <3>1. CASE p \in Clients
      BY <2>3, <2>4, <3>1 DEF Init, SpawnsOK, Program, HandedOver
    <3>2. CASE p \in SlotIds
      BY <2>2, <3>2 DEF SpawnsOK
    <3> QED BY <3>1, <3>2 DEF Threads
  <2>6. starts \in [Tasks -> Int]
    BY DEF Init
  <2>7. \A t \in Tasks : Once(t) /\ UnstartedOK(t)
    BY <2>2, <2>3, <2>4 DEF Once, UnstartedOK, Has
  <2> QED BY <2>1, <2>2, <2>5, <2>6, <2>7 DEF OnceInv, RunsOK
<1>2. ProgInv /\ InArray /\ InArray' /\ I /\ [Next]_vars => I'
  <2> SUFFICES ASSUME ProgInv, InArray, InArray', I, [Next]_vars, ActivatedOnce'
               PROVE  Places' /\ OnceInv'
    OBVIOUS
  <2>1. CASE UNCHANGED vars
    BY <2>1 DEF Places, PlaceOK, OnceInv, Once, UnstartedOK, SpawnsOK, RunsOK, Active, Program,
       HandedOver, Fresh, Has, Pending, ActivatedOnce, vars, history
  <2>2. ASSUME NEW p \in Threads, Step(p) PROVE Places' /\ OnceInv'
    <3>1. ActivatedOnce
      BY <2>2 DEF Step, ActivatedOnce
    <3>2. PoolInv /\ Programs /\ TaskEffect(p)
      BY <2>2, ProgsStep DEF ProgInv
    <3>3. Hands(p) => th[p].w \in SlotIds
      BY <3>1 DEF Places, PlaceOK, Hands
    <3> QED BY <2>2, <3>1, <3>2, <3>3, PlaceStep, OnceKeeps, OnceHands, OnceBegins DEF TaskEffect
  <2> QED BY <2>1, <2>2 DEF Next
<1> QED BY <1>1, <1>2, ProgramsAlways, PTL DEF Spec

\* However many threads spawn, tasks among them, and whatever they interrupt of
\* each other: what spawn was given is started once, or about to be.
THEOREM TasksStartOnce ==
  ASSUME WellFormed, DistinctSpawns
  PROVE  Spec /\ []InArray => [](ActivatedOnce => StartedOnce)
<1>1. ProgInv /\ (ActivatedOnce => Places /\ OnceInv) => (ActivatedOnce => StartedOnce)
  <2> SUFFICES ASSUME ProgInv, Places, OnceInv, ActivatedOnce PROVE StartedOnce
    OBVIOUS
  <2>1. \A t \in Tasks : starts[t] <= 1
    BY DEF OnceInv, Once
  <2>2. ASSUME NEW p \in Clients \cup {s \in SlotIds : th[s].pc \in Busy}, NEW t \in SpawnedBy(p)
        PROVE  starts[t] = 1 \/ \E s \in SlotIds : Pending(s) /\ slot[s].data = t
    <3>1. p \in Threads /\ Active(p) /\ ProgOK(p) /\ Body(p) = Script[Program(p)]
      BY DEF ProgInv, Programs, ProgOK, Threads, Active, Body, Program
    <3>2. PICK k \in 1 .. th[p].op - 1 : Body(p)[k].op = "spawn" /\ Body(p)[k].t = t
      BY DEF SpawnedBy
    <3>3. Program(p) \in Clients \cup Tasks /\ Len(Script[Program(p)]) \in Nat
      BY <3>1 DEF ProgOK, Program, WellFormed
    <3>4. SpawnsAt(Program(p), k, t) /\ k < th[p].op
      BY <3>1, <3>2, <3>3 DEF ProgOK, SpawnsAt, Calls
    <3>5. ~Fresh(t) /\ t \in Tasks
      BY <3>1, <3>3, <3>4 DEF OnceInv, SpawnsOK, HandedOver, WellFormed
    <3> QED BY <3>5 DEF OnceInv, Once, Fresh, Has
  <2> QED BY <2>1, <2>2 DEF StartedOnce
<1> QED BY <1>1, OnceAlways, ProgramsAlways, PTL

(* --------------- One thread spawns, in a pool that only grows ---------- *)

NoShrinking ==
  /\ "shutdown" \notin Advice
  /\ \A u \in Clients \cup Tasks : \A k : ~Calls(u, k, "setMaxPoolSize")

\* The slots in use are those that have a worker, but for one that is being added;
\* and sync, once it has seen that a slot is ready, need not look again.
Growing(c) ==
  /\ currentPoolSize \in 0 .. Slots /\ maxPoolSize \in 1 .. Slots
  /\ \A s \in SlotIds : ~slot[s].shutdown
  /\ \A s \in SlotIds : slot[s].initialized =>
       s <= currentPoolSize \/ (th[c].pc = "use" /\ s = currentPoolSize + 1)
  /\ th[c].pc \in {"grow", "activate", "use"} => currentPoolSize < Slots
  /\ th[c].pc = "sync" => /\ th[c].last = currentPoolSize /\ th[c].w \in Nat \ {0}
                          /\ \A s \in SlotIds : s < th[c].w => slot[s].ready

LEMMA OthersDoNotGrow ==
  ASSUME WellFormed, NEW c, SoleSpawner(c), NoShrinking, PoolInv, Programs, Growing(c),
         NEW p \in Threads, p # c, Step(p)
  PROVE  /\ UNCHANGED <<pool, broken>> /\ th'[c] = th[c]
         /\ \A s \in SlotIds : /\ slot'[s].initialized = slot[s].initialized
                               /\ slot'[s].shutdown = slot[s].shutdown
                               /\ slot[s].ready => slot'[s].ready
<1>1. PICK D : Shape(D, slot, th)
  BY DEF PoolInv, Shaped
<1>2. ProgOK(p) /\ c \in Threads
  BY DEF Programs, SoleSpawner, Threads
<1>3. th[p].pc \notin Spawning
  BY <1>2, OnlySpawner
<1>4. th[p].pc # "mark"
  BY <1>2 DEF NoShrinking, ProgOK, Program, Active, Busy
<1>5. ~At(p, "spawn")
  <2>1. At(p, "spawn") => Calls(Program(p), th[p].op, "spawn") /\ Active(p)
    BY <1>2, AtCalls DEF At, Active, Busy
  <2> QED BY <1>2, <2>1 DEF SoleSpawner, ProgOK, Program
<1>6. ~At(p, "setMaxPoolSize")
  <2>1. At(p, "setMaxPoolSize") => Calls(Program(p), th[p].op, "setMaxPoolSize") /\ Active(p)
    BY <1>2, AtCalls DEF At, Active, Busy
  <2> QED BY <1>2, <2>1 DEF NoShrinking, ProgOK, Program
<1>7. ~SpawnStep(p)
  BY <1>3, <1>5 DEF SpawnStep, Spawn, TryReadyWorker, Scan, HandOver, Started, EnterAdvice, ScanOver,
     SkipAdvice, LeaveAdvice, AdviceCreate, AdviceShutdown, AdviceNothing, TestInitialized, Activate,
     UseSlot, TryNewSlot, EnterSlaves, CountWaiting, ClientBlocks, SomeReady, CountWoken, Spawning, Busy
<1> USE <1>1, <1>2 DEF Shape, SlotRec, ThRec, Goto, NextOp, Loop
<1>8. CASE OtherStep(p)
  BY <1>4, <1>6, <1>8 DEF OtherStep, Await, Sync, SyncNext, SyncReturns, SetMaxPoolSize, Mark
<1>9. CASE IsSlave(p) /\ SlaveStep(p)
  <2>1. ~Shutdown(p)
    BY <1>9 DEF Shutdown, Growing, IsSlave
  <2>2. CASE SetReady(p)
    BY <2>2 DEF SetReady
  <2>3. CASE Announce(p) \/ CountRunning(p) \/ EndTask(p) \/ CountEnded(p)
    BY <2>3 DEF Announce, CountRunning, EndTask, CountEnded
  <2>4. CASE TaskArrived(p) \/ CopyArgs(p)
    BY <2>4 DEF TaskArrived, CopyArgs
  <2> QED BY <1>9, <2>1, <2>2, <2>3, <2>4 DEF SlaveStep
<1> QED BY <1>7, <1>8, <1>9 DEF Step

LEMMA GrowStep ==
  ASSUME WellFormed, NEW c, SoleSpawner(c), NoShrinking, PoolInv, Programs, Places, Growing(c),
         NEW p \in Threads, Step(p)
  PROVE  Growing(c)' /\ ~broken'
<1>1. CASE p # c
  <2>1. ~broken
    BY DEF Step
  <2> QED BY <1>1, <2>1, OthersDoNotGrow DEF Growing, pool
<1>2. CASE p = c
  <2>1. PICK D : Shape(D, slot, th)
    BY DEF PoolInv, Shaped
  <2>2. /\ c \in Threads /\ c \in Clients /\ ~IsSlave(c) /\ ~broken
        /\ \A s \in SlotIds : s \in Threads /\ s # c
    BY SlotsNoClients DEF SoleSpawner, Threads, IsSlave, Step
  <2>3. Slots \in Nat /\ SlotIds = 1 .. Slots /\ MinSize \in 1 .. Slots
    BY PoolAssumption DEF SlotIds
  <2>4. PlaceOK(c) /\ ProgOK(c)
    BY <2>2 DEF Places, Programs
  <2> USE <2>1, <2>2, <2>3 DEF Shape, SlotRec, ThRec, Goto, NextOp, Loop, pool
  <2> DEFINE SlotsSame == /\ UNCHANGED <<pool, broken>>
                          /\ \A s \in SlotIds : /\ slot'[s].initialized = slot[s].initialized
                                                /\ slot'[s].shutdown = slot[s].shutdown
  <2>5. ASSUME SlotsSame, th'[c].pc \notin {"grow", "activate", "use", "sync"}, th[c].pc # "use"
        PROVE  Growing(c)' /\ ~broken'
    BY <2>5 DEF Growing
  <2>6. CASE \/ Spawn(c) \/ SkipAdvice(c) \/ LeaveAdvice(c) \/ AdviceNothing(c) \/ HandOver(c)
             \/ Started(c) \/ ClientBlocks(c) \/ SomeReady(c) \/ CountWoken(c)
    <3>1. SlotsSame
      <4>1. CASE \/ Spawn(c) \/ SkipAdvice(c) \/ LeaveAdvice(c) \/ AdviceNothing(c)
                 \/ ClientBlocks(c) \/ SomeReady(c) \/ CountWoken(c)
        BY <4>1 DEF Spawn, SkipAdvice, LeaveAdvice, AdviceNothing, ClientBlocks, SomeReady, CountWoken
      <4>2. CASE HandOver(c)
        BY <4>2 DEF HandOver
      <4>3. CASE Started(c)
        BY <4>3 DEF Started
      <4> QED BY <2>6, <4>1, <4>2, <4>3
    <3>2. th'[c].pc \notin {"grow", "activate", "use", "sync"} /\ th[c].pc # "use"
      BY <2>6 DEF Spawn, SkipAdvice, LeaveAdvice, AdviceNothing, HandOver, Started, ClientBlocks,
         SomeReady, CountWoken, ScanOver, At
    <3> QED BY <2>5, <3>1, <3>2
  <2>7. CASE TryReadyWorker(c) \/ Scan(c) \/ TryNewSlot(c)
    <3>1. SlotsSame
      <4>1. UNCHANGED <<pool, broken>> /\ (slot' = slot \/ \E w : slot' = [slot EXCEPT ![w].ready = FALSE])
        BY <2>7 DEF TryReadyWorker, Scan, TryNewSlot, Claim
      <4>2. \A s \in SlotIds : /\ slot'[s].initialized = slot[s].initialized
                               /\ slot'[s].shutdown = slot[s].shutdown
        <5>1. ASSUME NEW w, slot' = [slot EXCEPT ![w].ready = FALSE], NEW s \in SlotIds
              PROVE  /\ slot'[s].initialized = slot[s].initialized
                     /\ slot'[s].shutdown = slot[s].shutdown
          BY <5>1
        <5> QED BY <4>1, <5>1
      <4> QED BY <4>1, <4>2
    <3>2. th[c].pc # "use" /\ th'[c].pc \notin {"grow", "activate", "use", "sync"}
      <4>1. CASE TryReadyWorker(c)
        BY <4>1 DEF TryReadyWorker, Claim
      <4>2. CASE Scan(c)
        BY <4>2 DEF Scan, Claim
      <4>3. CASE TryNewSlot(c)
        BY <4>3 DEF TryNewSlot, Claim, AfterGrowing
      <4> QED BY <2>7, <4>1, <4>2, <4>3
    <3> QED BY <2>5, <3>1, <3>2
  <2>8. CASE EnterAdvice(c) \/ AdviceCreate(c)
    <3>1. /\ UNCHANGED <<pool, broken, slot>> /\ th[c].pc \in {"scan", "advice"}
          /\ th'[c].pc \in {"grow", "advice", "advised"}
          /\ th'[c].pc = "grow" => currentPoolSize < MinSize \/ currentPoolSize < maxPoolSize
      BY <2>8 DEF EnterAdvice, AdviceCreate, ScanOver
    <3> QED BY <3>1 DEF Growing
  <2>9. CASE TestInitialized(c)
    <3>1. UNCHANGED <<pool, broken, slot>> /\ th[c].pc = "grow"
          /\ th'[c].pc = IF slot[currentPoolSize + 1].initialized THEN "use" ELSE "activate"
      BY <2>9 DEF TestInitialized
    <3> QED BY <3>1 DEF Growing
  <2>10. CASE Activate(c)
    <3> DEFINE s == currentPoolSize + 1
    <3>1. s \in SlotIds /\ th[c].pc = "activate" /\ ~slot[s].initialized /\ currentPoolSize < Slots
      BY <2>10 DEF Activate, Growing
    <3>2. /\ slot' = [slot EXCEPT ![s].initialized = TRUE, ![s].taskArrived = 0, ![s].taskStarted = 0]
          /\ UNCHANGED pool /\ broken' = FALSE
          /\ th' = [th EXCEPT ![c].pc = "use", ![s].pc = "top"]
      BY <2>10, <3>1 DEF Activate
    <3>3. th'[c].pc = "use"
      BY <3>1, <3>2
    <3>4. \A r \in SlotIds : /\ slot'[r].shutdown = slot[r].shutdown
                             /\ r # s => slot'[r].initialized = slot[r].initialized
      BY <3>2
    <3> QED BY <3>1, <3>2, <3>3, <3>4 DEF Growing
  <2>11. CASE UseSlot(c)
    <3>1. /\ th[c].pc = "use" /\ th'[c].pc = "try" /\ currentPoolSize' = currentPoolSize + 1
          /\ UNCHANGED <<slot, maxPoolSize, broken>>
      BY <2>11 DEF UseSlot
    <3> QED BY <3>1 DEF Growing
  <2>12. CASE Await(c)
    <3>1. SlotsSame /\ th[c].pc = "body" /\ th'[c].pc = "body"
      BY <2>12 DEF Await, At
    <3> QED BY <2>5, <3>1
  <2>13. CASE Sync(c)
    <3>1. UNCHANGED <<pool, broken, slot>> /\ th[c].pc = "body" /\ th'[c].pc = "sync"
          /\ th'[c].w = 1 /\ th'[c].last = currentPoolSize
      BY <2>13 DEF Sync, At
    <3> QED BY <3>1 DEF Growing
  <2>14. CASE SyncNext(c)
    <3>1. UNCHANGED <<pool, broken, slot>> /\ th[c].pc = "sync" /\ th[c].w <= th[c].last
      BY <2>14 DEF SyncNext
    <3>2. CASE slot[th[c].w].ready
      <4>1. th'[c].pc = "sync" /\ th'[c].w = th[c].w + 1 /\ th'[c].last = th[c].last
        BY <2>14, <3>2 DEF SyncNext
      <4>2. th[c].last = currentPoolSize /\ th[c].w \in Nat \ {0}
            /\ \A s \in SlotIds : s < th[c].w => slot[s].ready
        BY <3>1 DEF Growing
      <4>3. \A s \in SlotIds : s < th[c].w + 1 => slot[s].ready
        BY <3>2, <4>2
      <4> QED BY <3>1, <4>1, <4>2, <4>3 DEF Growing
    <3>3. CASE ~slot[th[c].w].ready
      <4>1. th'[c].pc = "body"
        BY <2>14, <3>3 DEF SyncNext
      <4> QED BY <3>1, <4>1 DEF Growing
    <3> QED BY <3>2, <3>3
  <2>15. CASE SyncReturns(c)
    <3>1. SlotsSame /\ th[c].pc = "sync" /\ th'[c].pc = "body"
      BY <2>15 DEF SyncReturns
    <3> QED BY <2>5, <3>1
  <2>16. ~AdviceShutdown(c)
    BY DEF AdviceShutdown, NoShrinking
  <2>17. ~SetMaxPoolSize(c) /\ ~Mark(c)
    <3>1. ~Calls(c, th[c].op, "setMaxPoolSize")
      BY DEF NoShrinking
    <3> QED BY <2>4, <3>1, AtCalls DEF SetMaxPoolSize, Mark, ProgOK, Program, Active, Busy
  <2>18. ~EnterSlaves(c) /\ ~CountWaiting(c)
    BY DEF EnterSlaves, CountWaiting, PoolInv, WaitsOK
  <2> QED
    BY <1>2, <2>6, <2>7, <2>8, <2>9, <2>10, <2>11, <2>12, <2>13, <2>14, <2>15, <2>16, <2>17, <2>18
    DEF Step, SpawnStep, OtherStep
<1> QED BY <1>1, <1>2

\* A task is with a worker, which has yet to start it or has yet to end it.
Held(t) == \E s \in SlotIds : Has(s, t) \/ (Active(s) /\ th[s].task = t)

\* What the spawner has handed over is done, or a worker has it.
KeptOK(c) ==
  \A k, t : SpawnsAt(c, k, t) /\ HandedOver(c, k) => t \in done \/ Held(t)

LEMMA KeptStep ==
  ASSUME WellFormed, NEW c, SoleSpawner(c), PoolInv, Programs, Places, KeptOK(c),
         NEW p \in Threads, TaskEffect(p)
  PROVE  KeptOK(c)' /\ done \subseteq done'
<1>1. /\ c \in Threads /\ c \in Clients
      /\ \A s \in SlotIds : s \in Threads /\ s # c
      /\ ProgOK(c) /\ Program(c) = c /\ Active(c)
  BY SlotsNoClients DEF SoleSpawner, Threads, Programs, ProgOK, Program
<1>2. done \subseteq done'
  BY DEF TaskEffect, Moves, Hands, Advances, Begins, Ends
<1>3. th[p].pc = "claimed" => p = c
  BY OnlySpawner DEF Programs, Spawning, Busy
<1>4. ASSUME NEW t, Held(t) PROVE t \in done' \/ Held(t)'
  <2>1. PICK s \in SlotIds : Has(s, t) \/ (Active(s) /\ th[s].task = t)
    BY <1>4 DEF Held
  <2>2. CASE Moves(p) \/ Advances(p)
    <3>1. Has(s, t)' <=> Has(s, t)
      BY <2>2 DEF Moves, Advances, SameData, SamePending, Has
    <3>2. (Active(s) => Active(s)') /\ th'[s].task = th[s].task
      BY <1>1, <2>2 DEF Moves, Advances, Others, Stays, Active, Busy
    <3> QED BY <2>1, <3>1, <3>2 DEF Held
  <2>3. CASE Hands(p)
    <3>1. Has(s, t) => Has(s, t)'
      BY <2>3 DEF Hands, Has
    <3>2. (Active(s) => Active(s)') /\ th'[s].task = th[s].task
      BY <1>1, <2>3 DEF Hands, Others, Stays, Active, Busy
    <3> QED BY <2>1, <3>1, <3>2 DEF Held
  <2>4. CASE p \in SlotIds /\ Begins(p)
    <3>1. CASE s = p
      <4>1. Active(p)' /\ th'[p].task = t
        BY <2>1, <2>4, <3>1 DEF Begins, Has, Active, Busy
      <4> QED BY <2>4, <4>1 DEF Held
    <3>2. CASE s # p
      <4>1. Has(s, t) => Has(s, t)'
        BY <2>4, <3>2 DEF Begins, SameData, Has
      <4>2. (Active(s) => Active(s)') /\ th'[s].task = th[s].task
        BY <1>1, <2>4, <3>2 DEF Begins, Others, Active, Busy
      <4> QED BY <2>1, <4>1, <4>2 DEF Held
    <3> QED BY <3>1, <3>2
  <2>5. CASE p \in SlotIds /\ Ends(p)
    <3>1. CASE s = p /\ ~Has(s, t)
      BY <2>1, <2>5, <3>1 DEF Ends
    <3>2. CASE s # p \/ Has(s, t)
      <4>1. Has(s, t) => Has(s, t)'
        BY <2>5 DEF Ends, SameData, SamePending, Has
      <4>2. s # p => (Active(s) => Active(s)') /\ th'[s].task = th[s].task
        BY <1>1, <2>5 DEF Ends, Others, Active, Busy
      <4> QED BY <2>1, <3>2, <4>1, <4>2 DEF Held
    <3> QED BY <3>1, <3>2
  <2> QED BY <2>2, <2>3, <2>4, <2>5 DEF TaskEffect
<1>5. ASSUME NEW k, NEW t, SpawnsAt(c, k, t), HandedOver(c, k)' PROVE t \in done' \/ Held(t)'
  <2>1. k \in Int /\ th[c].op \in Int
    BY <1>1, <1>5 DEF SpawnsAt, Calls, ProgOK
  <2>2. CASE HandedOver(c, k)
    BY <1>2, <1>4, <1>5, <2>2 DEF KeptOK
  <2>3. CASE ~HandedOver(c, k)
    <3>1. p = c
      <4>1. p # c => Others(p)
        BY DEF TaskEffect, Moves, Hands, Advances, Begins, Ends
      <4> QED BY <1>1, <1>5, <2>3, <4>1 DEF Others, HandedOver
    <3>2. ~Moves(c)
      BY <1>5, <2>3 DEF Moves, Stays, HandedOver
    <3>3. ~Advances(c)
      <4> SUFFICES ASSUME Advances(c) PROVE FALSE
        OBVIOUS
      <4>1. k = th[c].op /\ th[c].pc # "handed"
        BY <1>5, <2>1, <2>3 DEF Advances, HandedOver
      <4>2. CASE At(c, "await")
        BY <1>1, <1>5, <4>1, <4>2, AtCalls DEF SpawnsAt, Calls
      <4>3. CASE th[c].pc \in {"sync", "mark"}
        BY <1>1, <1>5, <4>1, <4>3 DEF ProgOK, SpawnsAt, Calls
      <4> QED BY <4>1, <4>2, <4>3 DEF Advances
    <3>4. Hands(c) /\ th[c].w \in SlotIds
      BY <1>1, <3>1, <3>2, <3>3 DEF TaskEffect, Hands, Places, PlaceOK
    <3>5. k = th[c].op
      BY <1>5, <2>1, <2>3, <3>4 DEF Hands, Stays, HandedOver
    <3>6. t = Arg(c)
      BY <1>1, <1>5, <3>5 DEF SpawnsAt, Arg, Body
    <3>7. Has(th[c].w, t)'
      BY <3>4, <3>6 DEF Hands, Has
    <3> QED BY <3>4, <3>7 DEF Held, Hands
  <2> QED BY <2>2, <2>3
<1> QED BY <1>2, <1>5 DEF KeptOK

\* sync returns when its pass is over.
LEMMA SyncEnds ==
  ASSUME WellFormed, PoolInv, NEW p \in Threads, ProgOK(p), Step(p), Advances(p),
         Calls(Program(p), th[p].op, "sync")
  PROVE  th[p].pc = "sync" /\ th[p].w > th[p].last
<1>1. th[p].pc = "sync"
  <2>1. ~At(p, "await")
    BY AtCalls DEF Calls
  <2> QED BY <2>1 DEF Advances, ProgOK, Spawning, Busy, Active, Calls
<1>2. ~SlaveStep(p) /\ ~SpawnStep(p)
  BY <1>1 DEF SlaveStep, Shutdown, SetReady, Announce, TaskArrived, CountRunning, CopyArgs, EndTask,
     CountEnded, SpawnStep, Spawn, At, TryReadyWorker, Scan, HandOver, Started, EnterAdvice, ScanOver,
     SkipAdvice, LeaveAdvice, AdviceCreate, AdviceShutdown, AdviceNothing, TestInitialized, Activate,
     UseSlot, TryNewSlot, EnterSlaves, CountWaiting, ClientBlocks, SomeReady, CountWoken
<1>3. SyncNext(p) \/ SyncReturns(p)
  BY <1>1, <1>2 DEF Step, OtherStep, Await, Sync, SetMaxPoolSize, Mark, At
<1>4. ~SyncNext(p)
  <2>1. PICK D : Shape(D, slot, th)
    BY DEF PoolInv, Shaped
  <2>2. SyncNext(p) => th'[p].op = th[p].op
    BY <2>1 DEF Shape, ThRec, SyncNext, Goto
  <2>3. th[p].op \in Nat /\ th'[p].op = th[p].op + 1
    BY <1>1 DEF Advances, ProgOK, Active, Busy
  <2> QED BY <2>2, <2>3
<1> QED BY <1>1, <1>3, <1>4 DEF SyncReturns

LEMMA NoneHeld ==
  ASSUME NEW c, SoleSpawner(c), PoolInv, Growing(c), th[c].pc = "sync", th[c].w > th[c].last, NEW t
  PROVE  ~Held(t)
<1> SUFFICES ASSUME NEW s \in SlotIds, Has(s, t) \/ Active(s) PROVE FALSE
  BY DEF Held
<1>1. SlotOK(s) /\ s \in Int
  BY DEF PoolInv, SlotIds
<1>2. th[s].pc # "none"
  BY <1>1 DEF SlotOK, Has, Pending, Active, Busy
<1>3. slot[s].initialized
  BY <1>1, <1>2 DEF SlotOK
<1>4. s < th[c].w
  BY <1>1, <1>3 DEF Growing
<1>5. slot[s].ready
  BY <1>4 DEF Growing
<1> QED BY <1>1, <1>5 DEF SlotOK, Has, Pending, Active, Busy

SyncOK(c) ==
  \A j, k \in 1 .. th[c].op - 1 :
    k < j /\ Script[c][k].op = "spawn" /\ Script[c][j].op = "sync" => Script[c][k].t \in done

LEMMA SyncStep ==
  ASSUME WellFormed, NEW c, SoleSpawner(c), PoolInv, Programs, Growing(c), KeptOK(c), SyncOK(c),
         NEW p \in Threads, Step(p), TaskEffect(p), done \subseteq done'
  PROVE  SyncOK(c)'
<1>1. /\ c \in Threads /\ c \in Clients /\ \A s \in SlotIds : s # c
      /\ ProgOK(c) /\ Program(c) = c /\ Active(c)
  BY SlotsNoClients DEF SoleSpawner, Threads, Programs, ProgOK, Program
<1>2. CASE th'[c].op = th[c].op
  BY <1>2 DEF SyncOK
<1>3. CASE th'[c].op # th[c].op
  <2>1. p = c /\ Advances(c)
    BY <1>1, <1>3 DEF TaskEffect, Moves, Hands, Advances, Begins, Ends, Others, Stays
  <2>2. th'[c].op = th[c].op + 1 /\ th[c].op \in Nat \ {0} /\ done' = done
        /\ th[c].op <= Len(Script[c]) + 1 /\ Len(Script[c]) \in Nat
    BY <1>1, <2>1 DEF Advances, ProgOK, WellFormed
  <2> SUFFICES ASSUME NEW j \in 1 .. th[c].op, NEW k \in 1 .. th[c].op,
                      k < j, Script[c][k].op = "spawn", Script[c][j].op = "sync"
               PROVE  Script[c][k].t \in done
    BY <2>2 DEF SyncOK
  <2>3. CASE j < th[c].op
    <3>1. j \in 1 .. th[c].op - 1 /\ k \in 1 .. th[c].op - 1
      BY <2>2, <2>3
    <3> QED BY <3>1 DEF SyncOK
  <2>4. CASE j = th[c].op
    <3>1. th[c].op <= Len(Script[c])
      <4>1. \E op : Calls(c, th[c].op, op)
        <5>1. CASE At(c, "await")
          BY <1>1, <5>1, AtCalls
        <5> QED BY <1>1, <2>1, <5>1 DEF Advances, ProgOK, Spawning, Busy
      <4> QED BY <2>2, <4>1 DEF Calls
    <3>2. Calls(c, th[c].op, "sync")
      BY <2>2, <2>4, <3>1 DEF Calls
    <3>3. th[c].pc = "sync" /\ th[c].w > th[c].last
      BY <1>1, <2>1, <3>2, SyncEnds
    <3>4. SpawnsAt(c, k, Script[c][k].t) /\ HandedOver(c, k)
      BY <2>2, <2>4, <3>1 DEF SpawnsAt, Calls, HandedOver
    <3> QED BY <3>3, <3>4, NoneHeld DEF KeptOK
  <2> QED BY <2>2, <2>3, <2>4
<1> QED BY <1>2, <1>3

SoleInv(c) == ActivatedOnce /\ Places /\ Growing(c) /\ KeptOK(c) /\ SyncOK(c)

LEMMA SoleAlways ==
  ASSUME WellFormed, NEW c, SoleSpawner(c), NoShrinking PROVE Spec => []SoleInv(c)
<1>1. Init => SoleInv(c)
  <2> SUFFICES ASSUME Init PROVE SoleInv(c)
    OBVIOUS
  <2>1. Places
    BY PoolAssumption DEF Init, Places, PlaceOK, SlotIds
  <2>2. c \in Threads /\ c \in Clients
    BY DEF SoleSpawner, Threads
  <2>3. Growing(c)
    <3>1. currentPoolSize \in 0 .. Slots /\ maxPoolSize \in 1 .. Slots
      BY PoolAssumption DEF Init
    <3>2. th[c].pc = "body"
      BY <2>2 DEF Init
    <3>3. \A s \in SlotIds : ~slot[s].shutdown /\ (slot[s].initialized => s <= currentPoolSize)
      BY DEF Init
    <3> QED BY <3>1, <3>2, <3>3 DEF Growing
  <2>4. KeptOK(c) /\ SyncOK(c)
    BY <2>2 DEF Init, KeptOK, SyncOK, HandedOver, SpawnsAt, Calls, WellFormed
  <2> QED BY <2>1, <2>3, <2>4 DEF Init, SoleInv, ActivatedOnce
<1>2. ProgInv /\ SoleInv(c) /\ [Next]_vars => SoleInv(c)'
  <2> SUFFICES ASSUME ProgInv, SoleInv(c), [Next]_vars PROVE SoleInv(c)'
    OBVIOUS
  <2>1. CASE UNCHANGED vars
    BY <2>1 DEF SoleInv, Places, PlaceOK, Growing, KeptOK, SyncOK, Held, Has, HandedOver, Active,
       Pending, ActivatedOnce, vars, history, pool
  <2>2. ASSUME NEW p \in Threads, Step(p) PROVE SoleInv(c)'
    <3>1. PoolInv /\ Programs
      BY DEF ProgInv, SoleInv
    <3>2. Growing(c)' /\ ActivatedOnce'
      BY <2>2, <3>1, GrowStep DEF SoleInv, ActivatedOnce
    <3>3. TaskEffect(p)
      BY <2>2, <3>2, ProgsStep
    <3>4. Places'
      BY <2>2, <3>1, <3>2, <3>3, PlaceStep DEF SoleInv, Growing, InArray
    <3>5. KeptOK(c)' /\ done \subseteq done'
      BY <2>2, <3>1, <3>3, KeptStep DEF SoleInv
    <3>6. SyncOK(c)'
      BY <2>2, <3>1, <3>3, <3>5, SyncStep DEF SoleInv
    <3> QED BY <3>2, <3>4, <3>5, <3>6 DEF SoleInv
  <2> QED BY <2>1, <2>2 DEF Next
<1> QED BY <1>1, <1>2, ProgramsAlways, PTL DEF Spec

\* Where one client spawns and the pool only grows, no slot gets a second thread.
THEOREM OneSpawnerActivates ==
  ASSUME WellFormed, NEW c, SoleSpawner(c), NoShrinking PROVE Spec => []ActivatedOnce
<1>1. SoleInv(c) => ActivatedOnce
  BY DEF SoleInv
<1> QED BY <1>1, SoleAlways, PTL

\* There the pool stays within its array, so that nothing is left to suppose:
\* the spawner waits for the arguments of its task to be copied.
THEOREM OneSpawnerWaits ==
  ASSUME WellFormed, NEW c, SoleSpawner(c), NoShrinking PROVE Spec => []ArgsAlive
BY ArgumentsLive, OneSpawnerActivates, PTL

\* And there sync is the barrier that its comment promises: it returns when every
\* task spawned before is done.
THEOREM SyncIsBarrier ==
  ASSUME WellFormed, NEW c, SoleSpawner(c), NoShrinking PROVE Spec => []SyncWaits
<1>1. ProgInv /\ SoleInv(c) => SyncWaits
  <2> SUFFICES ASSUME ProgInv, SoleInv(c), NEW p \in Clients,
                      NEW j \in 1 .. th[p].op - 1, NEW k \in 1 .. th[p].op - 1,
                      k < j, Body(p)[k].op = "spawn", Body(p)[j].op = "sync"
               PROVE  Body(p)[k].t \in done
    BY DEF SyncWaits
  <2>1. ProgOK(p) /\ Program(p) = p /\ Body(p) = Script[p]
    BY DEF ProgInv, SoleInv, Programs, Threads, Program, Body
  <2>2. Calls(p, k, "spawn")
    BY <2>1 DEF Calls, ProgOK, WellFormed
  <2>3. p = c
    BY <2>2 DEF SoleSpawner
  <2> QED BY <2>1, <2>3 DEF SoleInv, SyncOK
<1> QED BY <1>1, SoleAlways, ProgramsAlways, PTL

\* There, too, every task is started once.
THEOREM OneSpawnerStarts ==
  ASSUME WellFormed, DistinctSpawns, NEW c, SoleSpawner(c), NoShrinking
  PROVE  Spec => []StartedOnce
<1>1. SoleInv(c) => InArray /\ ActivatedOnce
  BY DEF SoleInv, Growing, InArray
<1> QED BY <1>1, SoleAlways, TasksStartOnce, PTL

(* ------------------------- What the fields hold ------------------------- *)

\* What the fields hold that no other argument looks at.
ThreadTyped(p) ==
  /\ th[p].pc \in Busy \cup WorkerLoop /\ th[p].task \in Tasks \cup {NoTask} /\ th[p].op \in Nat
  /\ th[p].w \in 0 .. Slots + 1 /\ th[p].last \in 0 .. Slots
LocksTyped ==
  /\ gSomeReady \in Nat
  /\ stateLock \in Threads \cup {NoThread} /\ numSlavesLock \in SlotIds \cup {NoThread}
FieldsOK ==
  /\ LocksTyped /\ done \subseteq Tasks
  /\ \A s \in SlotIds : slot[s].data \in Tasks \cup {NoTask}
  /\ \A p \in Threads : ThreadTyped(p)

LEMMA LocksStep ==
  ASSUME LocksTyped, NEW p \in Threads, Step(p) PROVE LocksTyped'
<1> USE DEF LocksTyped, locks
<1>1. CASE IsSlave(p) /\ SlaveStep(p)
  BY <1>1 DEF SlaveStep, Shutdown, SetReady, Announce, TaskArrived, CountRunning, CopyArgs, EndTask, CountEnded
<1>2. CASE Spawn(p) \/ TryReadyWorker(p) \/ Scan(p) \/ HandOver(p) \/ TestInitialized(p) \/ Activate(p)
           \/ UseSlot(p) \/ TryNewSlot(p)
  BY <1>2 DEF Spawn, TryReadyWorker, Scan, HandOver, TestInitialized, Activate, UseSlot, TryNewSlot
<1>3. CASE Started(p)
  BY <1>3 DEF Started, Unlocked
<1>4. CASE \/ EnterAdvice(p) \/ SkipAdvice(p) \/ LeaveAdvice(p)
           \/ AdviceCreate(p) \/ AdviceShutdown(p) \/ AdviceNothing(p)
  BY <1>4 DEF EnterAdvice, SkipAdvice, LeaveAdvice, AdviceCreate, AdviceShutdown, AdviceNothing
<1>5. CASE EnterSlaves(p) \/ CountWaiting(p) \/ ClientBlocks(p) \/ SomeReady(p) \/ CountWoken(p)
  BY <1>5 DEF EnterSlaves, CountWaiting, ClientBlocks, SomeReady, CountWoken, IsSlave
<1>6. CASE OtherStep(p)
  BY <1>6 DEF OtherStep, Await, Sync, SyncNext, SyncReturns, SetMaxPoolSize, Mark
<1> QED BY <1>1, <1>2, <1>3, <1>4, <1>5, <1>6 DEF Step, SpawnStep

LEMMA SizeGrows ==
  ASSUME NEW c, Growing(c), NEW p \in Threads, Step(p), currentPoolSize >= 1
  PROVE  currentPoolSize' >= 1
<1> USE DEF pool, Growing
<1>1. CASE IsSlave(p) /\ SlaveStep(p)
  <2>1. ~Shutdown(p)
    BY <1>1 DEF Shutdown, IsSlave
  <2> QED
    BY <1>1, <2>1 DEF SlaveStep, SetReady, Announce, TaskArrived, CountRunning, CopyArgs, EndTask, CountEnded
<1>2. CASE Spawn(p) \/ TryReadyWorker(p) \/ Scan(p) \/ HandOver(p) \/ Started(p)
  BY <1>2 DEF Spawn, TryReadyWorker, Scan, HandOver, Started
<1>3. CASE \/ EnterAdvice(p) \/ SkipAdvice(p) \/ LeaveAdvice(p)
           \/ AdviceCreate(p) \/ AdviceShutdown(p) \/ AdviceNothing(p)
  BY <1>3 DEF EnterAdvice, SkipAdvice, LeaveAdvice, AdviceCreate, AdviceShutdown, AdviceNothing
<1>4. CASE TestInitialized(p) \/ Activate(p) \/ UseSlot(p) \/ TryNewSlot(p)
  BY <1>4 DEF TestInitialized, Activate, UseSlot, TryNewSlot
<1>5. CASE EnterSlaves(p) \/ CountWaiting(p) \/ ClientBlocks(p) \/ SomeReady(p) \/ CountWoken(p)
  BY <1>5 DEF EnterSlaves, CountWaiting, ClientBlocks, SomeReady, CountWoken
<1>6. CASE OtherStep(p)
  BY <1>6 DEF OtherStep, Await, Sync, SyncNext, SyncReturns, SetMaxPoolSize, Mark
<1> QED BY <1>1, <1>2, <1>3, <1>4, <1>5, <1>6 DEF Step, SpawnStep

\* Where a thread is, and what it looks at.
LEMMA LoopStep ==
  ASSUME WellFormed, NEW c, SoleSpawner(c), NoShrinking, PoolInv, Programs, Places,
         Growing(c), Growing(c)', currentPoolSize >= 1, NEW p \in Threads, Step(p), ThreadTyped(p)
  PROVE  /\ th'[p].pc \in Busy \cup WorkerLoop
         /\ th'[p].w \in 0 .. Slots + 1 /\ th'[p].last \in 0 .. Slots
<1>1. PICK D : Shape(D, slot, th)
  BY DEF PoolInv, Shaped
<1>2. Slots \in Nat \ {0} /\ SlotIds = 1 .. Slots
  BY PoolAssumption DEF SlotIds
<1>3. PlaceOK(p) /\ ProgOK(p) /\ readyWorker \in SlotIds
  BY DEF Places, Programs
<1>4. currentPoolSize \in 1 .. Slots /\ currentPoolSize' \in 0 .. Slots /\ maxPoolSize \in 1 .. Slots
  BY <1>2 DEF Growing
<1>5. th[p].pc # "mark" /\ ~At(p, "setMaxPoolSize")
  <2>1. At(p, "setMaxPoolSize") => Calls(Program(p), th[p].op, "setMaxPoolSize") /\ Active(p)
    BY <1>3, AtCalls DEF At, Active, Busy
  <2> QED BY <1>3, <2>1 DEF NoShrinking, ProgOK, Program, Active, Busy
<1>6. th[p].pc \in Spawning => ~IsSlave(p)
  BY <1>3, OnlySpawner, SlotsNoClients DEF SoleSpawner, IsSlave
<1> USE <1>1, <1>2, <1>4 DEF Shape, ThRec, Goto, NextOp, Loop, ThreadTyped, Busy, WorkerLoop
<1>7. CASE \/ Spawn(p) \/ SkipAdvice(p) \/ LeaveAdvice(p) \/ AdviceNothing(p) \/ AdviceShutdown(p)
  BY <1>7 DEF Spawn, SkipAdvice, LeaveAdvice, AdviceNothing, AdviceShutdown
<1>8. CASE EnterAdvice(p)
  BY <1>8 DEF EnterAdvice
<1>9. CASE AdviceCreate(p)
  BY <1>9 DEF AdviceCreate
<1>10. CASE TestInitialized(p)
  BY <1>10 DEF TestInitialized
<1>11. CASE UseSlot(p)
  BY <1>11 DEF UseSlot
<1>12. CASE TryReadyWorker(p)
  <2>1. \/ th' = [th EXCEPT ![p].pc = "claimed", ![p].w = readyWorker]
        \/ th' = [th EXCEPT ![p].pc = "scan", ![p].w = 1, ![p].last = currentPoolSize]
    BY <1>12 DEF TryReadyWorker, Claim
  <2> QED BY <1>3, <2>1
<1>13. CASE Scan(p)
  BY <1>3, <1>13 DEF Scan, Claim, PlaceOK
<1>14. CASE TryNewSlot(p)
  BY <1>3, <1>14 DEF TryNewSlot, Claim, AfterGrowing, PlaceOK
<1>15. CASE HandOver(p) \/ Started(p)
  BY <1>15 DEF HandOver, Started
<1>16. CASE Activate(p)
  <2>1. th' = th \/ \E s : th' = [th EXCEPT ![p].pc = "use", ![s].pc = "top"]
    BY <1>16 DEF Activate
  <2> QED BY <2>1
<1>17. CASE CountWaiting(p) \/ ClientBlocks(p) \/ SomeReady(p) \/ CountWoken(p)
  BY <1>17 DEF CountWaiting, ClientBlocks, SomeReady, CountWoken
<1>18. ~EnterSlaves(p)
  BY <1>6 DEF EnterSlaves, Spawning
<1>19. CASE Await(p) \/ SyncReturns(p)
  BY <1>19 DEF Await, SyncReturns
<1>20. CASE Sync(p)
  BY <1>20 DEF Sync
<1>21. CASE SyncNext(p)
  BY <1>21 DEF SyncNext
<1>22. ~SetMaxPoolSize(p) /\ ~Mark(p)
  BY <1>5 DEF SetMaxPoolSize, Mark
<1>23. CASE IsSlave(p) /\ SlaveStep(p)
  BY <1>23 DEF SlaveStep, Shutdown, SetReady, Announce, TaskArrived, CountRunning, CopyArgs,
     EndTask, CountEnded
<1> QED
  BY <1>7, <1>8, <1>9, <1>10, <1>11, <1>12, <1>13, <1>14, <1>15, <1>16, <1>17, <1>18, <1>19,
     <1>20, <1>21, <1>22, <1>23 DEF Step, SpawnStep, OtherStep

LEMMA FieldsStep ==
  ASSUME WellFormed, NEW c, SoleSpawner(c), NoShrinking, PoolInv, Programs, Places,
         Growing(c), Growing(c)', currentPoolSize >= 1, FieldsOK,
         NEW p \in Threads, Step(p), TaskEffect(p)
  PROVE  FieldsOK'
<1>1. ProgOK(p) /\ ThreadTyped(p)
  BY DEF Programs, FieldsOK
<1>2. LocksTyped'
  BY LocksStep DEF FieldsOK
<1>3. p \in SlotIds => p \notin Clients
  BY SlotsNoClients
<1>4. done' \subseteq Tasks
  <2>1. CASE p \in SlotIds /\ Ends(p)
    <3>1. th[p].task \in Tasks
      BY <1>1, <1>3, <2>1 DEF Ends, ProgOK, Active, Busy, Program
    <3> QED BY <2>1, <3>1 DEF Ends, FieldsOK
  <2>2. CASE ~(p \in SlotIds /\ Ends(p))
    BY <2>2 DEF TaskEffect, Moves, Hands, Begins, Advances, FieldsOK
  <2> QED BY <2>1, <2>2
<1>5. ASSUME NEW s \in SlotIds PROVE slot'[s].data \in Tasks \cup {NoTask}
  <2>1. CASE Hands(p)
    <3>1. Arg(p) \in Tasks
      BY <1>1, <2>1, SpawnArg DEF Hands, Spawning, Busy
    <3> QED BY <2>1, <3>1 DEF Hands, FieldsOK
  <2>2. CASE ~Hands(p)
    BY <2>2 DEF TaskEffect, Moves, Begins, Ends, Advances, SameData, FieldsOK
  <2> QED BY <2>1, <2>2
<1>6. ASSUME NEW q \in Threads PROVE ThreadTyped(q)'
  <2>1. CASE q = p
    <3>1. /\ th'[p].pc \in Busy \cup WorkerLoop
          /\ th'[p].w \in 0 .. Slots + 1 /\ th'[p].last \in 0 .. Slots
      BY <1>1, LoopStep
    <3>2. th'[p].task \in Tasks \cup {NoTask} /\ th'[p].op \in Nat
      <4>1. CASE Moves(p) \/ Hands(p) \/ Advances(p)
        BY <1>1, <4>1 DEF Moves, Hands, Advances, Stays, ThreadTyped
      <4>2. CASE p \in SlotIds /\ (Begins(p) \/ Ends(p))
        BY <1>1, <4>2 DEF Begins, Ends, Stays, ThreadTyped, FieldsOK
      <4> QED BY <4>1, <4>2 DEF TaskEffect
    <3> QED BY <2>1, <3>1, <3>2 DEF ThreadTyped
  <2>2. CASE q # p
    <3>1. Others(p) /\ ThreadTyped(q)
      BY DEF TaskEffect, Moves, Hands, Begins, Ends, Advances, FieldsOK
    <3> QED BY <2>2, <3>1 DEF Others, ThreadTyped, WorkerLoop
  <2> QED BY <2>1, <2>2
<1> QED BY <1>2, <1>4, <1>5, <1>6 DEF FieldsOK

\* There every variable has its type: no loop over the slots leaves the array, no
\* task semaphore counts more than the one task under way in its slot, and a lock
\* is held by a thread that may take it.
THEOREM OneSpawnerTyped ==
  ASSUME WellFormed, NEW c, SoleSpawner(c), NoShrinking PROVE Spec => []TypeOK
<1> DEFINE I == currentPoolSize >= 1 /\ FieldsOK
<1>1. Init => I
  <2> SUFFICES ASSUME Init PROVE I
    OBVIOUS
  <2>1. currentPoolSize >= 1
    BY PoolAssumption DEF Init
  <2>2. LocksTyped /\ done \subseteq Tasks
    BY DEF Init, LocksTyped
  <2>3. \A s \in SlotIds : slot[s].data \in Tasks \cup {NoTask}
    BY DEF Init
  <2>4. ASSUME NEW p \in Threads PROVE ThreadTyped(p)
    <3>1. Slots \in Nat /\ 1 \in 0 .. Slots + 1 /\ 0 \in 0 .. Slots
      BY PoolAssumption
    <3>2. /\ th[p].pc \in {"body", "top", "none"} /\ th[p].task = NoTask /\ th[p].op = 1
          /\ th[p].w = 1 /\ th[p].last = 0
      BY DEF Init
    <3> QED BY <3>1, <3>2 DEF ThreadTyped, Busy, WorkerLoop
  <2> QED BY <2>1, <2>2, <2>3, <2>4 DEF FieldsOK
<1>2. ProgInv /\ SoleInv(c) /\ SoleInv(c)' /\ I /\ [Next]_vars => I'
  <2> SUFFICES ASSUME ProgInv, SoleInv(c), SoleInv(c)', I, [Next]_vars PROVE I'
    OBVIOUS
  <2>1. CASE UNCHANGED vars
    BY <2>1 DEF FieldsOK, LocksTyped, ThreadTyped, vars, history, locks, pool
  <2>2. ASSUME NEW p \in Threads, Step(p) PROVE I'
    <3>1. PoolInv /\ Programs /\ TaskEffect(p)
      BY <2>2, ProgsStep DEF ProgInv, SoleInv
    <3>2. Growing(c) /\ Growing(c)' /\ Places
      BY DEF SoleInv
    <3>3. currentPoolSize' >= 1
      BY <2>2, <3>2, SizeGrows
    <3>4. FieldsOK'
      BY <2>2, <3>1, <3>2, FieldsStep
    <3> QED BY <3>3, <3>4
  <2> QED BY <2>1, <2>2 DEF Next
<1>3. ProgInv /\ SoleInv(c) /\ HandInv /\ I => TypeOK
  <2> SUFFICES ASSUME ProgInv, SoleInv(c), HandInv, I PROVE TypeOK
    OBVIOUS
  <2>1. PICK D : Shape(D, slot, th)
    BY DEF ProgInv, PoolInv, Shaped
  <2>2. ASSUME NEW s \in SlotIds
        PROVE  slot[s] \in [ready : BOOLEAN, shutdown : BOOLEAN, initialized : BOOLEAN,
                            taskArrived : 0 .. 1, taskStarted : 0 .. 2, data : Tasks \cup {NoTask}]
    <3>1. slot[s] \in SlotRec(D)
      BY <2>1 DEF Shape
    <3>2. slot[s].taskArrived \in 0 .. 1
      BY DEF ProgInv, PoolInv, SlotOK
    <3>3. slot[s].taskStarted \in 0 .. 2
      <4>1. IsFiniteSet(Handing(s)) /\ Cardinality(Handing(s)) = Owed(s) /\ slot[s].taskStarted \in Nat
        BY DEF HandInv, HandOK, SoleInv
      <4>2. Handing(s) \subseteq {c}
        BY OnlySpawner DEF ProgInv, SoleInv, Programs, Handing, Spawning, Busy
      <4>3. IsFiniteSet({c}) /\ Cardinality({c}) = 1
        BY FS_Singleton
      <4>4. Cardinality(Handing(s)) <= 1
        BY <4>2, <4>3, FS_Subset
      <4> QED BY <4>1, <4>4 DEF Owed
    <3>4. slot[s].data \in Tasks \cup {NoTask}
      BY DEF FieldsOK
    <3> QED BY <3>1, <3>2, <3>3, <3>4 DEF SlotRec
  <2>3. slot \in [SlotIds -> [ready : BOOLEAN, shutdown : BOOLEAN, initialized : BOOLEAN,
                              taskArrived : 0 .. 1, taskStarted : 0 .. 2, data : Tasks \cup {NoTask}]]
    BY <2>1, <2>2 DEF Shape
  <2>4. th \in [Threads -> [pc : Busy \cup WorkerLoop, task : Tasks \cup {NoTask}, op : Nat,
                            w : 0 .. Slots + 1, last : 0 .. Slots]]
    BY <2>1 DEF Shape, ThRec, FieldsOK, ThreadTyped
  <2> QED BY <2>3, <2>4 DEF TypeOK, SoleInv, Growing, Places, FieldsOK, LocksTyped
<1> QED BY <1>1, <1>2, <1>3, SoleAlways, HandAlways, ProgramsAlways, PTL DEF Spec

(* ----------------------- The promise of the pool ----------------------- *)

\* A task that has started is done, or a worker runs it.
LifeOK(t) ==
  IF t \in done THEN starts[t] = 1 /\ Runners(t) = {}
  ELSE starts[t] = 1 => Runners(t) # {}
Lives == done \subseteq Tasks /\ \A t \in Tasks : LifeOK(t)

LEMMA RunnersStep ==
  ASSUME WellFormed, Programs, OnceInv, NEW p \in Threads, TaskEffect(p), NEW t
  PROVE  Runners(t)' = CASE p \in SlotIds /\ Begins(p) /\ t = slot[p].data -> Runners(t) \cup {p}
                         [] p \in SlotIds /\ Ends(p) /\ t = th[p].task -> {}
                         [] OTHER -> Runners(t)
<1>1. \A s \in SlotIds : s \in Threads /\ (s \in Runners(t) <=> Active(s) /\ th[s].task = t)
  BY SlotsNoClients DEF Runners, Active
<1>2. \A s \in SlotIds : s \in Runners(t)' <=> Active(s)' /\ th'[s].task = t
  BY DEF Runners, Active
<1>3. Runners(t) \subseteq SlotIds /\ Runners(t)' \subseteq SlotIds
  BY DEF Runners
<1>4. Others(p)
  BY DEF TaskEffect, Moves, Hands, Begins, Ends, Advances
<1>5. \A s \in SlotIds : s # p => (s \in Runners(t)' <=> s \in Runners(t))
  BY <1>1, <1>2, <1>4 DEF Others, Active, Busy
<1>6. CASE Moves(p) \/ Hands(p) \/ Advances(p)
  <2>1. p \in SlotIds => (p \in Runners(t)' <=> p \in Runners(t))
    BY <1>1, <1>2, <1>6 DEF Moves, Hands, Advances, Stays, Active, Busy, At
  <2>2. ~Begins(p) /\ ~Ends(p)
    BY <1>6 DEF Moves, Hands, Advances, Begins, Ends, Busy, At
  <2>3. Runners(t)' = Runners(t)
    BY <1>3, <1>5, <2>1
  <2> QED BY <2>2, <2>3
<1>7. CASE p \in SlotIds /\ Begins(p)
  <2>1. p \notin Runners(t) /\ (p \in Runners(t)' <=> t = slot[p].data) /\ ~Ends(p)
    BY <1>1, <1>2, <1>7 DEF Begins, Ends, Active, Busy
  <2> QED BY <1>3, <1>5, <1>7, <2>1
<1>8. CASE p \in SlotIds /\ Ends(p)
  <2>1. p \notin Runners(t)' /\ (p \in Runners(t) <=> t = th[p].task) /\ ~Begins(p) /\ Active(p)
    BY <1>1, <1>2, <1>8 DEF Begins, Ends, Active, Busy
  <2>2. t = th[p].task => \A s \in Runners(t) : s = p
    BY <1>1, <1>3, <1>8, <2>1 DEF OnceInv, RunsOK
  <2> QED BY <1>3, <1>5, <1>8, <2>1, <2>2
<1> QED BY <1>6, <1>7, <1>8 DEF TaskEffect

LEMMA LifeStep ==
  ASSUME WellFormed, Programs, OnceInv, Lives, NEW p \in Threads, TaskEffect(p)
  PROVE  Lives'
<1>0. done' \subseteq Tasks
  <2>1. ASSUME p \in SlotIds, Ends(p) PROVE th[p].task \in Tasks
    BY <2>1, SlotsNoClients DEF Ends, Programs, ProgOK, Program, Active, Busy
  <2> QED BY <2>1 DEF TaskEffect, Moves, Hands, Begins, Ends, Advances, Lives
<1> SUFFICES ASSUME NEW t \in Tasks PROVE LifeOK(t)'
  BY <1>0 DEF Lives
<1>1. LifeOK(t) /\ starts \in [Tasks -> Int] /\ starts[t] \in {0, 1}
  BY DEF Lives, OnceInv, Once
<1>2. CASE Moves(p) \/ Hands(p) \/ Advances(p)
  <2>1. ~Begins(p) /\ ~Ends(p) /\ done' = done /\ starts' = starts
    BY <1>2 DEF Moves, Hands, Advances, Begins, Ends, Busy, At
  <2>2. Runners(t)' = Runners(t)
    BY <2>1, RunnersStep
  <2> QED BY <1>1, <2>1, <2>2 DEF LifeOK
<1>3. CASE p \in SlotIds /\ Begins(p)
  <2>1. /\ slot[p].data \in Tasks /\ starts[slot[p].data] = 0
    BY <1>3 DEF Begins, Programs, DataOK, OnceInv, Once, Has
  <2>2. /\ done' = done /\ ~Ends(p)
        /\ starts'[t] = IF t = slot[p].data THEN 1 ELSE starts[t]
    BY <1>1, <1>3, <2>1 DEF Begins, Ends
  <2>3. Runners(t)' = IF t = slot[p].data THEN Runners(t) \cup {p} ELSE Runners(t)
    BY <1>3, <2>2, RunnersStep
  <2> QED BY <1>1, <2>1, <2>2, <2>3 DEF LifeOK
<1>4. CASE p \in SlotIds /\ Ends(p)
  <2>1. Active(p) /\ starts[th[p].task] = 1
    BY <1>4 DEF Ends, OnceInv, RunsOK, Active, Busy
  <2>2. starts' = starts /\ done' = done \cup {th[p].task} /\ ~Begins(p)
    BY <1>4 DEF Ends, Begins
  <2>3. Runners(t)' = IF t = th[p].task THEN {} ELSE Runners(t)
    BY <1>4, <2>2, RunnersStep
  <2> QED BY <1>1, <2>1, <2>2, <2>3 DEF LifeOK
<1> QED BY <1>2, <1>3, <1>4 DEF TaskEffect

\* Where the program of a thread is.
LEMMA TheOne == ASSUME NEW s PROVE (CHOOSE r \in {s} : TRUE) = s
OBVIOUS

LEMMA PosRuns ==
  ASSUME DistinctSpawns, Programs, OnceInv, Lives, NEW p \in Threads, Active(p)
  PROVE  /\ Program(p) \in Clients \cup Tasks /\ Pos[Program(p)] = th[p].op
         /\ Program(p) \in Clients \/ Fate[Program(p)] = "running"
<1>1. p \notin Clients => p \in SlotIds /\ Program(p) \in Tasks /\ Program(p) = th[p].task
  BY DEF Programs, ProgOK, Program, Threads
<1>2. CASE p \in Clients
  BY <1>2 DEF Program, Pos
<1>3. CASE p \notin Clients
  <2> DEFINE u == Program(p)
  <2>1. Runners(u) = {p}
    BY <1>1, <1>3 DEF OnceInv, RunsOK, Runners, Active
  <2>2. starts[u] = 1 /\ u \notin done
    BY <1>1, <1>3, <2>1 DEF OnceInv, RunsOK, Lives, LifeOK
  <2>3. u \notin Clients /\ u \in Tasks
    BY <1>1, <1>3 DEF DistinctSpawns
  <2> HIDE DEF u
  <2>4. Pos[u] = th[p].op
    BY <2>1, <2>2, <2>3, TheOne DEF Pos
  <2>5. Fate[u] = "running"
    BY <2>2, <2>3 DEF Fate
  <2> QED BY <2>3, <2>4, <2>5 DEF u
<1> QED BY <1>2, <1>3

LEMMA PosSame ==
  ASSUME OnceInv, NEW u \in Clients \cup Tasks,
         u \in Clients => th'[u].op = th[u].op,
         u \notin Clients => /\ u \in done' <=> u \in done
                             /\ Runners(u)' = Runners(u)
                             /\ \A s \in Runners(u) : th'[s].op = th[s].op
  PROVE  Pos'[u] = Pos[u]
<1>1. CASE u \in Clients \/ u \in done
  BY <1>1 DEF Pos
<1>2. CASE u \notin Clients /\ u \notin done /\ Runners(u) = {}
  BY <1>2 DEF Pos
<1>3. ASSUME u \notin Clients, u \notin done, NEW s \in Runners(u) PROVE Pos'[u] = Pos[u]
  <2>1. Runners(u) = {s}
    BY <1>3 DEF OnceInv, RunsOK, Runners, Active
  <2>2. Runners(u)' = {s} /\ u \notin done'
    BY <1>3, <2>1
  <2>3. Pos[u] = th[s].op
    BY <1>3, <2>1, TheOne DEF Pos
  <2>4. Pos'[u] = th'[s].op
    BY <1>3, <2>2, TheOne DEF Pos
  <2> QED BY <1>3, <2>3, <2>4
<1> QED BY <1>1, <1>2, <1>3

LEMMA PosAdvances ==
  ASSUME WellFormed, DistinctSpawns, Programs, OnceInv, Lives, Programs', OnceInv', Lives',
         NEW p \in Threads, Advances(p)
  PROVE  Pos' = [Pos EXCEPT ![Program(p)] = @ + 1]
<1>1. Active(p) /\ Active(p)' /\ Program(p)' = Program(p) /\ Others(p) /\ done' = done
  BY DEF Advances, Active, Busy, At, Program
<1>2. TaskEffect(p) /\ ~Begins(p) /\ ~Ends(p)
  BY DEF Advances, Begins, Ends, TaskEffect, Busy, At
<1>3. \A t : Runners(t)' = Runners(t)
  BY <1>2, RunnersStep
<1>4. /\ Program(p) \in Clients \cup Tasks /\ Pos[Program(p)] = th[p].op
  BY <1>1, PosRuns
<1>5. Pos'[Program(p)] = th[p].op + 1
  <2>1. CASE p \in Clients
    BY <1>4, <2>1 DEF Pos, Program, Advances
  <2>2. CASE p \notin Clients
    <3>0. PICK u : u = Program(p)
      OBVIOUS
    <3>1. /\ p \in SlotIds /\ u \in Tasks /\ u = th[p].task
      BY <1>1, <2>2, <3>0 DEF Programs, ProgOK, Program, Threads
    <3>2. Runners(u) = {p} /\ u \notin done /\ u \notin Clients
      BY <1>1, <3>1 DEF OnceInv, RunsOK, Runners, Active, Lives, LifeOK, DistinctSpawns
    <3>3. Runners(u)' = {p} /\ u \notin done'
      BY <1>1, <1>3, <3>2
    <3>4. th'[p].op = th[p].op + 1
      BY DEF Advances
    <3>5. Pos'[u] = th'[p].op
      BY <3>1, <3>2, <3>3, TheOne DEF Pos
    <3> QED BY <3>0, <3>4, <3>5
  <2> QED BY <2>1, <2>2
<1>6. ASSUME NEW u \in Clients \cup Tasks, u # Program(p) PROVE Pos'[u] = Pos[u]
  <2>1. u \in Clients => th'[u].op = th[u].op
    BY <1>1, <1>6 DEF Others, Program, Threads
  <2>2. \A s \in Runners(u) : s # p /\ s \in Threads
    BY <1>6, SlotsNoClients DEF Runners, Program
  <2>3. \A s \in Runners(u) : th'[s].op = th[s].op
    BY <1>1, <2>2 DEF Others
  <2> QED BY <1>1, <1>3, <2>1, <2>3, PosSame
<1>7. /\ Pos = [u \in Clients \cup Tasks |-> Pos[u]]
      /\ Pos' = [u \in Clients \cup Tasks |-> Pos'[u]]
  BY DEF Pos
<1> QED BY <1>4, <1>5, <1>6, <1>7

\* A step that advances no program.
LEMMA PosStays ==
  ASSUME WellFormed, DistinctSpawns, Programs, OnceInv, Lives, NEW p \in Threads, TaskEffect(p),
         ~Advances(p), Lives'
  PROVE  Pos' = Pos
<1> SUFFICES ASSUME NEW u \in Clients \cup Tasks PROVE Pos'[u] = Pos[u]
  <2>1. Pos' = [u \in Clients \cup Tasks |-> Pos'[u]] /\ Pos = [u \in Clients \cup Tasks |-> Pos[u]]
    BY DEF Pos
  <2> QED BY <2>1
<1>1. Others(p)
  BY DEF TaskEffect, Moves, Hands, Begins, Ends, Advances
<1>2. u \in Clients => th'[u].op = th[u].op
  <2>1. u \in Clients => u \in Threads /\ u \notin SlotIds
    BY SlotsNoClients DEF Threads
  <2> QED BY <1>1, <2>1 DEF TaskEffect, Moves, Hands, Stays, Others
<1>3. \A s \in SlotIds : s \in Threads /\ s \notin Clients
  BY SlotsNoClients
<1>4. CASE Moves(p) \/ Hands(p)
  <2>1. ~Begins(p) /\ ~Ends(p) /\ done' = done
    BY <1>4 DEF Moves, Hands, Begins, Ends, Busy, At
  <2>2. Runners(u)' = Runners(u)
    BY <2>1, RunnersStep
  <2>3. \A s \in SlotIds : th'[s].op = th[s].op
    BY <1>1, <1>3, <1>4 DEF Moves, Hands, Stays, Others
  <2>4. Runners(u) \subseteq SlotIds
    BY DEF Runners
  <2> QED BY <1>2, <2>1, <2>2, <2>3, <2>4, PosSame
<1>5. CASE p \in SlotIds /\ Begins(p)
  <2>0. PICK a : a = slot[p].data
    OBVIOUS
  <2>1. a \in Tasks /\ starts[a] = 0 /\ done' = done /\ ~Ends(p)
    BY <2>0, <1>5 DEF Begins, Ends, Programs, DataOK, OnceInv, Once, Has
  <2>2. CASE u # a
    <3>1. Runners(u)' = Runners(u)
      BY <2>0, <2>1, <2>2, RunnersStep
    <3>2. \A s \in Runners(u) : s # p /\ s \in SlotIds
      BY <1>5 DEF Runners, Begins, Busy
    <3>3. \A s \in Runners(u) : th'[s].op = th[s].op
      BY <1>1, <1>3, <3>2 DEF Others
    <3> QED BY <1>2, <2>1, <3>1, <3>3, PosSame
  <2>3. CASE u = a
    <3>1. u \notin done /\ u \notin done'
      BY <2>1, <2>3 DEF Lives, LifeOK
    <3>2. u \notin Clients
      BY <2>1, <2>3 DEF DistinctSpawns
    <3>3. Runners(u) = {}
      BY <2>1, <2>3 DEF Runners, OnceInv, RunsOK, Active
    <3>4. Runners(u)' = {p}
      BY <2>0, <1>5, <2>1, <2>3, <3>3, RunnersStep
    <3>5. th'[p].op = 1
      BY <1>5 DEF Begins
    <3>6. Pos[u] = 1
      BY <3>1, <3>2, <3>3 DEF Pos
    <3>7. Pos'[u] = th'[p].op
      BY <3>1, <3>2, <3>4, TheOne DEF Pos
    <3> QED BY <3>5, <3>6, <3>7
  <2> QED BY <2>2, <2>3
<1>6. CASE p \in SlotIds /\ Ends(p)
  <2>0. PICK a : a = th[p].task
    OBVIOUS
  <2>1. ~Begins(p) /\ done' = done \cup {a} /\ Active(p) /\ Program(p) = a
    BY <2>0, <1>3, <1>6 DEF Ends, Begins, Active, Busy, Program
  <2>2. CASE u # a
    <3>1. Runners(u)' = Runners(u)
      BY <2>0, <2>1, <2>2, RunnersStep
    <3>2. \A s \in Runners(u) : s # p /\ s \in SlotIds
      BY <2>0, <2>2 DEF Runners
    <3>3. \A s \in Runners(u) : th'[s].op = th[s].op
      BY <1>1, <1>3, <3>2 DEF Others
    <3> QED BY <1>2, <2>1, <2>2, <3>1, <3>3, PosSame
  <2>3. CASE u = a
    <3>1. Pos[u] = th[p].op
      BY <2>1, <2>3, PosRuns
    <3>2. th[p].op = Len(Script[u]) + 1
      <4>1. th[p].op > Len(Script[u])
        BY <2>0, <1>3, <1>6, <2>3 DEF Ends, Finished, Body
      <4>2. th[p].op <= Len(Script[u]) + 1 /\ th[p].op \in Nat /\ Len(Script[u]) \in Nat
        BY <2>1, <2>3 DEF Programs, ProgOK, WellFormed
      <4> QED BY <4>1, <4>2
    <3>3. u \notin Clients
      <4>1. u \in Tasks
        BY <1>3, <1>6, <2>1, <2>3 DEF Programs, ProgOK
      <4> QED BY <4>1 DEF DistinctSpawns
    <3>4. u \in done'
      BY <2>1, <2>3
    <3>5. Pos'[u] = Len(Script[u]) + 1
      BY <3>3, <3>4 DEF Pos
    <3> QED BY <3>1, <3>2, <3>5
  <2> QED BY <2>2, <2>3
<1> QED BY <1>4, <1>5, <1>6 DEF TaskEffect

\* How the fates of the tasks change.
LEMMA FateIs ==
  Fate = [t \in Tasks |->
            IF t \in done THEN "done" ELSE IF starts[t] > 0 THEN "running"
            ELSE IF \E s \in SlotIds : Has(s, t) THEN "waiting" ELSE "new"]
BY DEF Fate, Has

LEMMA FateSteps ==
  ASSUME WellFormed, Programs, OnceInv, OnceInv', Lives, Lives', NEW p \in Threads, TaskEffect(p),
         Hands(p) => th[p].w \in SlotIds
  PROVE  /\ Moves(p) \/ Advances(p) => Fate' = Fate
         /\ Hands(p) => Fate[Arg(p)] = "new" /\ Fate' = [Fate EXCEPT ![Arg(p)] = "waiting"]
         /\ p \in SlotIds /\ Begins(p) => /\ Fate[slot[p].data] = "waiting"
                                          /\ Fate' = [Fate EXCEPT ![slot[p].data] = "running"]
         /\ p \in SlotIds /\ Ends(p) => /\ Fate[th[p].task] = "running"
                                        /\ Fate' = [Fate EXCEPT ![th[p].task] = "done"]
<1> USE FateIs
<1>0. /\ DOMAIN Fate = Tasks /\ Fate = [t \in Tasks |-> Fate[t]]
      /\ DOMAIN Fate' = Tasks /\ Fate' = [t \in Tasks |-> Fate'[t]]
  BY DEF Fate
<1>f. Fate' = [r \in Tasks |->
                IF r \in done' THEN "done" ELSE IF starts'[r] > 0 THEN "running"
                ELSE IF \E s \in SlotIds : Has(s, r)' THEN "waiting" ELSE "new"]
  BY DEF Fate, Has
<1>1. ASSUME Moves(p) \/ Advances(p) PROVE Fate' = Fate
  <2>1. done' = done /\ starts' = starts /\ \A s \in SlotIds : \A t : Has(s, t)' <=> Has(s, t)
    BY <1>1 DEF Moves, Advances, SameData, SamePending, Has
  <2>2. \A t \in Tasks : Fate'[t] = Fate[t]
    BY <2>1 DEF Fate, Has
  <2> QED BY <1>0, <2>2
<1>2. ASSUME Hands(p) PROVE Fate[Arg(p)] = "new" /\ Fate' = [Fate EXCEPT ![Arg(p)] = "waiting"]
  <2>0. PICK a : a = Arg(p)
    OBVIOUS
  <2>1. /\ SpawnsAt(Program(p), th[p].op, a) /\ a \in Tasks /\ Active(p) /\ th[p].op \in Int
    BY <2>0, <1>2, SpawnArg DEF Programs, ProgOK, Hands, Spawning, Busy, Active
  <2>2. Fresh(a)
    BY <1>2, <2>1 DEF OnceInv, SpawnsOK, HandedOver, Hands
  <2>3. /\ done' = done /\ starts' = starts
        /\ \A s \in SlotIds : \A t : Has(s, t)' <=> IF s = th[p].w THEN t = a ELSE Has(s, t)
        /\ \A t : ~Has(th[p].w, t)
    BY <2>0, <1>2 DEF Hands, Has
  <2>4. a \notin done /\ starts[a] = 0 /\ \A s \in SlotIds : ~Has(s, a)
    BY <2>1, <2>2 DEF Fresh, Lives, LifeOK
  <2>5. Fate[a] = "new"
    BY <2>1, <2>4
  <2>6. Fate'[a] = "waiting"
    <3>1. \E s \in SlotIds : Has(s, a)'
      BY <1>2, <2>3
    <3> QED BY <1>f, <2>1, <2>3, <2>4, <3>1
  <2>7. ASSUME NEW t \in Tasks, t # a PROVE Fate'[t] = Fate[t]
    <3>1. (\E s \in SlotIds : Has(s, t)') <=> \E s \in SlotIds : Has(s, t)
      BY <1>2, <2>3, <2>7
    <3> QED BY <1>f, <2>3, <3>1
  <2>8. Fate' = [Fate EXCEPT ![a] = "waiting"]
    BY <1>0, <2>1, <2>6, <2>7
  <2> QED BY <2>0, <2>5, <2>8
<1>3. ASSUME p \in SlotIds, Begins(p)
      PROVE  /\ Fate[slot[p].data] = "waiting" /\ Fate' = [Fate EXCEPT ![slot[p].data] = "running"]
  <2>0. PICK a : a = slot[p].data
    OBVIOUS
  <2>1. a \in Tasks /\ Has(p, a) /\ starts[a] = 0 /\ a \notin done /\ starts \in [Tasks -> Int]
    BY <2>0, <1>3 DEF Begins, Programs, DataOK, OnceInv, Once, Has, Lives, LifeOK
  <2>2. /\ done' = done /\ starts' = [starts EXCEPT ![a] = @ + 1]
        /\ \A s \in SlotIds : \A t : Has(s, t)' <=> s # p /\ Has(s, t)
        /\ \A t : Has(p, t) => t = a
    BY <2>0, <1>3 DEF Begins, SameData, Has
  <2>4. Fate[a] = "waiting"
    BY <1>3, <2>1
  <2>5. Fate'[a] = "running"
    <3>1. starts'[a] > 0 /\ a \notin done'
      BY <2>1, <2>2
    <3> QED BY <2>1, <1>f, <3>1
  <2>6. ASSUME NEW t \in Tasks, t # a PROVE Fate'[t] = Fate[t]
    <3>1. (\E s \in SlotIds : Has(s, t)') <=> \E s \in SlotIds : Has(s, t)
      BY <2>2, <2>6
    <3>2. starts'[t] = starts[t] /\ (t \in done' <=> t \in done)
      BY <2>1, <2>2, <2>6
    <3> QED BY <1>f, <3>1, <3>2
  <2>7. Fate' = [Fate EXCEPT ![a] = "running"]
    BY <1>0, <2>1, <2>5, <2>6
  <2> QED BY <2>0, <2>4, <2>7
<1>4. ASSUME p \in SlotIds, Ends(p)
      PROVE  /\ Fate[th[p].task] = "running" /\ Fate' = [Fate EXCEPT ![th[p].task] = "done"]
  <2>0. PICK a : a = th[p].task
    OBVIOUS
  <2>1. Active(p) /\ a \in Tasks /\ starts[a] = 1 /\ a \notin done
    <3>1. Active(p) /\ p \notin Clients /\ p \in Runners(a)
      BY <2>0, <1>4, SlotsNoClients DEF Ends, Active, Busy, Runners
    <3>2. a \in Tasks
      BY <2>0, <3>1 DEF Programs, ProgOK, Program
    <3> QED BY <2>0, <1>4, <3>1, <3>2 DEF OnceInv, RunsOK, Lives, LifeOK
  <2>2. /\ done' = done \cup {a} /\ starts' = starts
        /\ \A s \in SlotIds : \A t : Has(s, t)' <=> Has(s, t)
    BY <2>0, <1>4 DEF Ends, SameData, SamePending, Has
  <2>4. Fate[a] = "running" /\ Fate'[a] = "done"
    BY <1>f, <2>1, <2>2
  <2>5. ASSUME NEW t \in Tasks, t # a PROVE Fate'[t] = Fate[t]
    <3>1. (\E s \in SlotIds : Has(s, t)') <=> \E s \in SlotIds : Has(s, t)
      BY <2>2
    <3>2. starts'[t] = starts[t] /\ (t \in done' <=> t \in done)
      BY <2>2, <2>5
    <3> QED BY <1>f, <3>1, <3>2
  <2>6. Fate' = [Fate EXCEPT ![a] = "done"]
    BY <1>0, <2>1, <2>4, <2>5
  <2> QED BY <2>0, <2>4, <2>6
<1> QED BY <1>1, <1>2, <1>3, <1>4

\* Where one client spawns and the pool only grows: spawn returns when its task
\* has started.
LEMMA SpawnWaits ==
  ASSUME WellFormed, NEW c, SoleSpawner(c), PoolInv, Programs, OnceInv, Lives, Places, KeptOK(c),
         HandInv, ActivatedOnce, NEW p \in Threads, Step(p), th[p].pc = "handed"
  PROVE  Arg(p) \in Tasks /\ starts[Arg(p)] = 1
<1>1. p = c /\ SpawnsAt(c, th[c].op, Arg(c)) /\ Arg(c) \in Tasks
  <2>1. ProgOK(p) /\ th[p].pc \in Spawning
    BY DEF Programs, Spawning, Busy
  <2>2. p = c
    BY <2>1, OnlySpawner
  <2>3. Program(c) = c
    BY DEF SoleSpawner, Program
  <2> QED BY <2>1, <2>2, <2>3, SpawnArg
<1>2. slot[th[p].w].taskStarted > 0
  <2>1. ~SlaveStep(p) /\ ~OtherStep(p)
    BY DEF SlaveStep, Shutdown, SetReady, Announce, TaskArrived, CountRunning, CopyArgs, EndTask,
       CountEnded, OtherStep, Await, Sync, SyncNext, SyncReturns, SetMaxPoolSize, Mark, At
  <2>2. Started(p)
    BY <2>1 DEF Step, SpawnStep, Spawn, At, TryReadyWorker, Scan, HandOver, EnterAdvice, ScanOver,
       SkipAdvice, LeaveAdvice, AdviceCreate, AdviceShutdown, AdviceNothing, TestInitialized, Activate,
       UseSlot, TryNewSlot, EnterSlaves, CountWaiting, ClientBlocks, SomeReady, CountWoken
  <2> QED BY <2>2 DEF Started
<1>3. ASSUME NEW s \in SlotIds, Pending(s) PROVE FALSE
  <2>1. IsFiniteSet(Handing(s)) /\ Cardinality(Handing(s)) = 1 + slot[s].taskStarted
        /\ slot[s].taskStarted \in Nat
    BY <1>3 DEF HandInv, HandOK, Owed
  <2>2. Handing(s) \subseteq {c}
    BY OnlySpawner DEF Programs, Handing, Spawning, Busy
  <2>3. IsFiniteSet({c}) /\ Cardinality({c}) = 1
    BY FS_Singleton
  <2>4. Cardinality(Handing(s)) <= 1 /\ (Cardinality(Handing(s)) = 1 => Handing(s) = {c})
    BY <2>2, <2>3, FS_Subset
  <2>5. c \in Handing(s) /\ slot[s].taskStarted = 0
    BY <2>1, <2>4
  <2> QED BY <1>1, <1>2, <2>5 DEF Handing
<1>4. Arg(c) \in done \/ Held(Arg(c))
  BY <1>1 DEF KeptOK, HandedOver
<1>5. CASE Arg(c) \in done
  BY <1>1, <1>5 DEF Lives, LifeOK
<1>6. CASE Held(Arg(c))
  <2>1. PICK s \in SlotIds : Active(s) /\ th[s].task = Arg(c)
    BY <1>3, <1>6 DEF Held, Has
  <2> QED BY <1>1, <2>1 DEF OnceInv, RunsOK
<1> QED BY <1>1, <1>4, <1>5, <1>6

\* ^ returns when the value is there.
LEMMA AwaitEnds ==
  ASSUME WellFormed, PoolInv, NEW p \in Threads, ProgOK(p), Step(p), Advances(p),
         Calls(Program(p), th[p].op, "await")
  PROVE  Arg(p) \in done
<1>1. th[p].pc = "body" /\ At(p, "await")
  BY DEF Advances, ProgOK, Spawning, Busy, Active, Calls, At
<1>2. ~SpawnStep(p)
  BY <1>1 DEF SpawnStep, Spawn, At, TryReadyWorker, Scan, HandOver, Started, EnterAdvice, ScanOver,
     SkipAdvice, LeaveAdvice, AdviceCreate, AdviceShutdown, AdviceNothing, TestInitialized, Activate,
     UseSlot, TryNewSlot, EnterSlaves, CountWaiting, ClientBlocks, SomeReady, CountWoken
<1>3. ~SlaveStep(p)
  BY <1>1 DEF SlaveStep, Shutdown, SetReady, Announce, TaskArrived, CountRunning, CopyArgs, EndTask,
     CountEnded, At
<1>4. Await(p)
  BY <1>1, <1>2, <1>3 DEF Step, OtherStep, Await, Sync, SyncNext, SyncReturns, SetMaxPoolSize, Mark, At
<1> QED BY <1>4 DEF Await

\* What spawn and sync wait for, before they return.
BarsSpawn(p) == th[p].pc = "handed" => Arg(p) \in Tasks /\ starts[Arg(p)] = 1
BarsSync(p) ==
  Calls(Program(p), th[p].op, "sync") =>
    \A k, t : SpawnsAt(Program(p), k, t) /\ k < th[p].op => t \in done

LEMMA PromiseAdvances ==
  ASSUME WellFormed, DistinctSpawns, PoolInv, Programs, OnceInv, Lives, Programs', OnceInv', Lives',
         NEW p \in Threads, Step(p), Advances(p),
         OneSpawner => BarsSpawn(p) /\ BarsSync(p)
  PROVE  \E u \in Clients \cup Tasks :
           Promise!Return(u) \/ Promise!Await(u) \/ Promise!Sync(u) \/ Promise!SetMaxPoolSize(u)
<1>1. ProgOK(p) /\ Active(p) /\ TaskEffect(p)
  BY DEF Programs, Advances, At, Active, Busy, TaskEffect
<1>2. PICK u : u = Program(p)
  OBVIOUS
<1>3. /\ u \in Clients \cup Tasks /\ Pos[u] = th[p].op
      /\ u \in Clients \/ Fate[u] = "running"
  BY <1>1, <1>2, PosRuns
<1>4. Fate' = Fate
  BY <1>1, FateSteps DEF Advances, Hands, At, Busy
<1>5. Pos' = [Pos EXCEPT ![u] = @ + 1]
  BY <1>2, PosAdvances
<1>6. Promise!GoesOn(u)
  BY <1>4, <1>5 DEF Promise!GoesOn
<1>7. /\ Promise!Arg(u) = Script[u][th[p].op].t /\ Arg(p) = Script[u][th[p].op].t
      /\ th[p].op \in Nat \ {0}
  BY <1>1, <1>2, <1>3 DEF Promise!Arg, Arg, Body, Program, ProgOK
<1>8. ASSUME NEW op, Calls(u, th[p].op, op) PROVE Promise!Calls(u, op)
  BY <1>3, <1>7, <1>8 DEF Promise!Calls, Calls, WellFormed
<1>9. CASE Calls(u, th[p].op, "spawn")
  <2>1. SpawnsAt(u, th[p].op, Arg(p)) /\ Arg(p) \in Tasks
    BY <1>3, <1>7, <1>9 DEF SpawnsAt, WellFormed
  <2>2. th[p].pc = "handed"
    <3>1. ~At(p, "await")
      BY <1>1, <1>2, <1>9, AtCalls DEF Calls
    <3> QED BY <1>1, <1>2, <1>9, <3>1 DEF Advances, ProgOK, Calls
  <2>3. ~Fresh(Arg(p))
    BY <1>1, <1>2, <2>1, <2>2 DEF OnceInv, SpawnsOK, HandedOver
  <2>4. /\ Fate[Arg(p)] \in {"running", "done", "waiting"}
        /\ starts[Arg(p)] = 1 => Fate[Arg(p)] # "waiting"
    <3>1. starts[Arg(p)] \in {0, 1}
      BY <2>1 DEF OnceInv, Once
    <3> QED BY <2>1, <2>3, <3>1, FateIs DEF Fresh
  <2>5. OneSpawner => Fate[Arg(p)] # "waiting"
    BY <2>2, <2>4 DEF BarsSpawn
  <2> QED BY <1>3, <1>6, <1>7, <1>8, <1>9, <2>4, <2>5 DEF Promise!Return
<1>10. CASE Calls(u, th[p].op, "await")
  <2>1. Arg(p) \in done
    BY <1>1, <1>2, <1>10, AwaitEnds
  <2>2. Fate[Arg(p)] = "done"
    BY <2>1, FateIs DEF Lives
  <2> QED BY <1>3, <1>6, <1>7, <1>8, <1>10, <2>2 DEF Promise!Await
<1>11. CASE Calls(u, th[p].op, "sync")
  <2>1. ASSUME OneSpawner, NEW t \in Promise!Before(u) PROVE Fate[t] = "done"
    <3>1. PICK k \in 1 .. th[p].op - 1 : Script[u][k].op = "spawn" /\ t = Script[u][k].t
      BY <1>3, <2>1 DEF Promise!Before
    <3>2. SpawnsAt(u, k, t) /\ k < th[p].op
      BY <1>3, <1>7, <1>11, <3>1 DEF SpawnsAt, Calls, WellFormed
    <3>3. t \in done /\ t \in Tasks
      BY <1>2, <1>3, <1>11, <2>1, <3>2 DEF BarsSync, WellFormed
    <3> QED BY <3>3, FateIs
  <2> QED BY <1>3, <1>6, <1>8, <1>11, <2>1 DEF Promise!Sync
<1>12. CASE Calls(u, th[p].op, "setMaxPoolSize")
  BY <1>3, <1>6, <1>8, <1>12 DEF Promise!SetMaxPoolSize
<1>13. \E op \in {"spawn", "await", "sync", "setMaxPoolSize"} : Calls(u, th[p].op, op)
  <2>1. CASE At(p, "await")
    BY <1>1, <1>2, <2>1, AtCalls
  <2> QED BY <1>1, <1>2, <2>1 DEF Advances, ProgOK, Spawning, Busy
<1> QED BY <1>3, <1>9, <1>10, <1>11, <1>12, <1>13

LEMMA PromiseStep ==
  ASSUME WellFormed, DistinctSpawns, PoolInv, Programs, OnceInv, Lives, Programs', OnceInv', Lives',
         NEW p \in Threads, Step(p), TaskEffect(p), Hands(p) => th[p].w \in SlotIds,
         OneSpawner /\ Advances(p) => BarsSpawn(p) /\ BarsSync(p)
  PROVE  [Promise!Next]_<<Fate, Pos>>
<1>1. CASE Moves(p)
  <2>1. ~Advances(p)
    BY <1>1 DEF Moves, Advances, Stays, Programs, ProgOK, Active, Busy, At
  <2> QED BY <1>1, <2>1, PosStays, FateSteps
<1>2. CASE Hands(p)
  <2>1. Active(p) /\ ProgOK(p) /\ th[p].pc \in Spawning /\ ~Advances(p)
    BY <1>2 DEF Hands, Advances, Active, Spawning, Busy, At, Programs
  <2>2. PICK u : u = Program(p)
    OBVIOUS
  <2>3. /\ u \in Clients \cup Tasks /\ Pos[u] = th[p].op
        /\ u \in Clients \/ Fate[u] = "running"
    BY <2>1, <2>2, PosRuns
  <2>4. SpawnsAt(u, th[p].op, Arg(p)) /\ th[p].op \in Nat
    BY <2>1, <2>2, SpawnArg DEF ProgOK
  <2>5. Promise!Calls(u, "spawn") /\ Promise!Arg(u) = Arg(p)
    BY <2>3, <2>4 DEF Promise!Calls, Promise!Arg, SpawnsAt, Calls, WellFormed
  <2>6. Promise!Give(u)
    BY <1>2, <2>1, <2>5, FateSteps, PosStays DEF Promise!Give, Promise!Becomes
  <2> QED BY <2>3, <2>6 DEF Promise!Next, Promise!Programs
<1>3. CASE Advances(p)
  BY <1>3, PromiseAdvances DEF Promise!Next, Promise!Programs
<1>4. CASE p \in SlotIds /\ Begins(p)
  <2>1. PICK a : a = slot[p].data
    OBVIOUS
  <2>2. a \in Tasks /\ ~Advances(p)
    BY <1>4, <2>1 DEF Begins, Advances, Programs, DataOK, At
  <2>3. Promise!Start(a)
    BY <1>4, <2>1, <2>2, FateSteps, PosStays DEF Promise!Start, Promise!Becomes
  <2> QED BY <2>2, <2>3 DEF Promise!Next
<1>5. CASE p \in SlotIds /\ Ends(p)
  <2>1. PICK a : a = th[p].task
    OBVIOUS
  <2>2. ProgOK(p) /\ Active(p) /\ Program(p) = a /\ ~Advances(p)
    BY <1>5, <2>1, SlotsNoClients DEF Ends, Advances, Programs, Active, Busy, Program
  <2>3. a \in Tasks /\ Pos[a] = th[p].op
    BY <1>5, <2>2, SlotsNoClients, PosRuns DEF ProgOK
  <2>4. Pos[a] > Len(Script[a])
    BY <1>5, <2>2, <2>3 DEF Ends, Finished, Body, Program
  <2>5. Promise!End(a)
    BY <1>5, <2>1, <2>2, <2>4, FateSteps, PosStays DEF Promise!End, Promise!Becomes
  <2> QED BY <2>3, <2>5 DEF Promise!Next
<1> QED BY <1>1, <1>2, <1>3, <1>4, <1>5 DEF TaskEffect

LEMMA OneSpawnerSole ==
  ASSUME DistinctSpawns, OneSpawner PROVE \E c \in Clients : SoleSpawner(c) /\ NoShrinking
<1>1. PICK c \in Clients : Calling("spawn") \subseteq {c}
  BY DEF OneSpawner
<1>2. \A u \in Clients \cup Tasks : \A k, op : Calls(u, k, op) => u \in Calling(op)
  BY DEF Calling, Calls
<1>3. SoleSpawner(c)
  BY <1>1, <1>2 DEF SoleSpawner, DistinctSpawns
<1>4. NoShrinking
  BY <1>2 DEF OneSpawner, NoShrinking
<1> QED BY <1>3, <1>4

\* A pool that neither leaves its array nor gives a slot a second thread does
\* what spawn and sync promise, however many threads spawn: no task is lost, run
\* twice or waited for in vain. Where one client spawns and the pool does not
\* shrink, spawn returns when its task has started and sync is a barrier.
THEOREM PoolKeepsPromise ==
  ASSUME WellFormed, DistinctSpawns
  PROVE  Spec /\ []InArray /\ []ActivatedOnce => ImplementsTaskPool
<1> DEFINE Sole == OneSpawner => \E c \in Clients : SoleSpawner(c) /\ SoleInv(c)
           All == ProgInv /\ HandInv /\ Places /\ OnceInv /\ ActivatedOnce /\ Sole
<1>1. Init => Lives /\ Promise!Init
  <2> SUFFICES ASSUME Init PROVE Lives /\ Promise!Init
    OBVIOUS
  <2>1. \A s \in SlotIds : ~Pending(s) /\ ~Active(s)
    BY SlotsNoClients DEF Init, Pending, Active, Busy
  <2>2. \A t : Runners(t) = {}
    BY <2>1 DEF Runners, Active
  <2>3. Lives
    BY <2>2 DEF Init, Lives, LifeOK
  <2>4. Fate = [t \in Tasks |-> "new"]
    <3>1. done = {} /\ \A t \in Tasks : starts[t] = 0
      BY DEF Init
    <3> QED BY <2>1, <3>1 DEF Fate
  <2>5. Pos = [u \in Clients \cup Tasks |-> 1]
    BY <2>2 DEF Init, Pos, Threads
  <2> QED BY <2>3, <2>4, <2>5 DEF Promise!Init, Promise!Programs
<1>2. All /\ All' /\ Lives /\ [Next]_vars => Lives' /\ [Promise!Next]_<<Fate, Pos>>
  <2> SUFFICES ASSUME All, All', Lives, [Next]_vars PROVE Lives' /\ [Promise!Next]_<<Fate, Pos>>
    OBVIOUS
  <2>1. CASE UNCHANGED vars
    <3>1. UNCHANGED <<Fate, Pos>>
      BY <2>1 DEF Fate, Pos, Pending, Runners, vars, history
    <3> QED BY <2>1, <3>1 DEF Lives, LifeOK, Runners, vars, history
  <2>2. ASSUME NEW p \in Threads, Step(p) PROVE Lives' /\ [Promise!Next]_<<Fate, Pos>>
    <3>1. PoolInv /\ Programs /\ TaskEffect(p) /\ Programs'
      BY <2>2, ProgsStep DEF ProgInv
    <3>2. Lives'
      BY <3>1, LifeStep
    <3>3. Hands(p) => th[p].w \in SlotIds
      BY DEF Places, PlaceOK, Hands
    <3>4. ASSUME OneSpawner, Advances(p) PROVE BarsSpawn(p) /\ BarsSync(p)
      <4>1. PICK c \in Clients : SoleSpawner(c) /\ SoleInv(c)
        BY <3>4
      <4>2. BarsSpawn(p)
        BY <2>2, <3>1, <4>1, SpawnWaits DEF SoleInv, BarsSpawn
      <4>3. BarsSync(p)
        <5> SUFFICES ASSUME Calls(Program(p), th[p].op, "sync"),
                            NEW k, NEW t, SpawnsAt(Program(p), k, t), k < th[p].op
                     PROVE  t \in done
          BY DEF BarsSync
        <5>1. ProgOK(p) /\ th[p].pc = "sync" /\ th[p].w > th[p].last
          BY <2>2, <3>1, <3>4, SyncEnds DEF Programs
        <5>2. Active(p) /\ Program(p) \in Clients \cup Tasks
          BY <5>1 DEF Active, Busy, ProgOK, Program
        <5>3. Program(p) = c
          BY <4>1, <5>2 DEF SoleSpawner, SpawnsAt
        <5>4. p = c
          <6>1. p \in Clients => Program(p) = p
            BY DEF Program
          <6>2. p \notin Clients => Program(p) \in Tasks
            BY <5>1, <5>2 DEF ProgOK
          <6> QED BY <5>3, <6>1, <6>2 DEF DistinctSpawns
        <5>5. ~Held(t)
          BY <3>1, <4>1, <5>1, <5>4, NoneHeld DEF SoleInv
        <5> QED BY <4>1, <5>3, <5>4, <5>5 DEF SoleInv, KeptOK, HandedOver
      <4> QED BY <4>2, <4>3
    <3> QED BY <2>2, <3>1, <3>2, <3>3, <3>4, PromiseStep
  <2> QED BY <2>1, <2>2 DEF Next
<1>3. CASE OneSpawner
  <2>1. PICK c \in Clients : SoleSpawner(c) /\ NoShrinking
    BY <1>3, OneSpawnerSole
  <2>2. Spec => []SoleInv(c)
    BY <2>1, SoleAlways
  <2>3. SoleInv(c) => Sole
    BY <2>1
  <2> QED BY <1>1, <1>2, <2>2, <2>3, OnceAlways, ProgramsAlways, HandAlways, PTL
          DEF Spec, ImplementsTaskPool, Promise!Spec, Promise!tasks
<1>4. CASE ~OneSpawner
  <2>1. Sole
    BY <1>4
  <2> QED BY <1>1, <1>2, <2>1, OnceAlways, ProgramsAlways, HandAlways, PTL
          DEF Spec, ImplementsTaskPool, Promise!Spec, Promise!tasks
<1> QED BY <1>3, <1>4

\* Where one client spawns and the pool does not shrink, nothing is left to
\* suppose.
THEOREM OneSpawnerKeepsPromise ==
  ASSUME WellFormed, DistinctSpawns, OneSpawner PROVE Spec => ImplementsTaskPool
<1>1. PICK c \in Clients : SoleSpawner(c) /\ NoShrinking
  BY OneSpawnerSole
<1>2. Spec => []SoleInv(c)
  BY <1>1, SoleAlways
<1>3. SoleInv(c) => InArray /\ ActivatedOnce
  BY DEF SoleInv, Growing, InArray
<1> QED BY <1>2, <1>3, PoolKeepsPromise, PTL
=============================================================================
