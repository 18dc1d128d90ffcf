----------------------------- MODULE ThreadPool -----------------------------
(***************************************************************************)
(* The thread pool behind spawn and sync, lib/pure/concurrency/              *)
(* threadpool.edl.  Workers sit in the slots of an array, of which the first *)
(* currentPoolSize are in use.  A thread that spawns a task claims a ready   *)
(* slot with a compare-and-swap, hands the task over and waits until its     *)
(* arguments are copied; if no slot is ready it may make the pool grow or    *)
(* shrink, and then waits for a worker to become ready.                     *)
(*                                                                         *)
(* A task is a sequence of operations of its own, so tasks spawn tasks.  The *)
(* semaphores taskArrived, taskStarted and gSomeReady are counters here      *)
(* (FlowVar has the semaphore in detail), and so is the arrival of a flow    *)
(* variable's value: done.  Reading readyWorker and claiming it are one step. *)
(***************************************************************************)
EXTENDS Integers, Sequences, FiniteSets

CONSTANTS Clients,     \* threads that are not of the pool
          Slots,       \* the size of workersData
          Tasks,
          Script,      \* what a client, or a task, does: a sequence of [op, t]
          InitialSize, \* min(countProcessors(), MaxThreadPoolSize)
          MinSize,     \* minPoolSize
          Advice,      \* what advice() may say: "nothing", "create", "shutdown"
          NoTask, NoThread

SlotIds == 1 .. Slots
Threads == Clients \cup SlotIds

ASSUME PoolAssumption ==
  /\ Slots \in Nat /\ InitialSize \in 1 .. Slots /\ MinSize \in 1 .. Slots
  /\ NoTask \notin Tasks /\ NoThread \notin Threads /\ Clients \cap Int = {}
  /\ Advice \subseteq {"nothing", "create", "shutdown"}

VARIABLES
  slot,        \* workersData: [ready, shutdown, initialized, taskArrived, taskStarted, data]
  currentPoolSize, maxPoolSize, readyWorker, gSomeReady,
  stateLock, numSlavesLock,     \* the holder, or NoThread
  numSlavesRunning, numSlavesWaiting,
  th,          \* each thread: [pc, task, op, w, last], its program counter, the
               \* task it runs and how far, and the local variables of a loop
  done,        \* the tasks whose value has been stored
  starts,      \* history: how often each task has been started
  broken       \* a slot in use was initialised a second time

pool == <<currentPoolSize, maxPoolSize>>
locks == <<stateLock, numSlavesLock>>
counts == <<numSlavesRunning, numSlavesWaiting>>
history == <<done, starts>>
vars == <<slot, pool, readyWorker, gSomeReady, locks, counts, th, history, broken>>

-----------------------------------------------------------------------------
Body(p) == Script[IF p \in Clients THEN p ELSE th[p].task]
Finished(p) == th[p].op > Len(Body(p))
At(p, op) == th[p].pc = "body" /\ ~Finished(p) /\ Body(p)[th[p].op].op = op
Arg(p) == Body(p)[th[p].op].t
IsSlave(p) == p \in SlotIds

Goto(p, label) == th' = [th EXCEPT ![p].pc = label]
NextOp(p) == th' = [th EXCEPT ![p].pc = "body", ![p].op = @ + 1]
Loop(p, label, first, last) ==
  th' = [th EXCEPT ![p].pc = label, ![p].w = first, ![p].last = last]

Init ==
  /\ slot = [s \in SlotIds |->
               [ready |-> FALSE, shutdown |-> FALSE, initialized |-> s <= InitialSize,
                taskArrived |-> 0, taskStarted |-> 0, data |-> NoTask]]
  /\ currentPoolSize = InitialSize /\ maxPoolSize \in InitialSize .. Slots
  /\ readyWorker = 1 /\ gSomeReady = 0
  /\ stateLock = NoThread /\ numSlavesLock = NoThread
  /\ numSlavesRunning = 0 /\ numSlavesWaiting = 0
  /\ th = [p \in Threads |->
             [pc |-> IF p \in Clients THEN "body" ELSE IF p <= InitialSize THEN "top" ELSE "none",
              task |-> NoTask, op |-> 1, w |-> 1, last |-> 0]]
  /\ done = {}
  /\ starts = [t \in Tasks |-> 0]
  /\ broken = FALSE

-----------------------------------------------------------------------------
(* slave(w): the loop of a worker thread.                                   *)

\* The thread ends, or sleeps for ever because its slot's data is not nil: it
\* takes no further task either way.  The slot stays initialized.
Shutdown(s) ==
  /\ th[s].pc = "top"
  /\ slot[s].shutdown
  /\ slot' = [slot EXCEPT ![s].shutdown = FALSE]
  /\ currentPoolSize' = currentPoolSize - 1
  /\ Goto(s, "gone")
  /\ UNCHANGED <<maxPoolSize, readyWorker, gSomeReady, locks, counts, history, broken>>

SetReady(s) ==
  /\ th[s].pc = "top"
  /\ ~slot[s].shutdown
  /\ slot' = [slot EXCEPT ![s].ready = TRUE]
  /\ Goto(s, "announce")
  /\ UNCHANGED <<pool, readyWorker, gSomeReady, locks, counts, history, broken>>

Announce_NoSignal(s) ==
  /\ th[s].pc = "announce"
  /\ readyWorker' = s
  /\ gSomeReady' = gSomeReady
  /\ Goto(s, "idle")
  /\ UNCHANGED <<slot, pool, locks, counts, history, broken>>

Announce(s) ==
  /\ th[s].pc = "announce"
  /\ readyWorker' = s
  /\ gSomeReady' = gSomeReady + 1
  /\ Goto(s, "idle")
  /\ UNCHANGED <<slot, pool, locks, counts, history, broken>>

TaskArrived(s) ==
  /\ th[s].pc = "idle"
  /\ slot[s].taskArrived > 0
  /\ slot' = [slot EXCEPT ![s].taskArrived = @ - 1]
  /\ Goto(s, "arrived")
  /\ UNCHANGED <<pool, readyWorker, gSomeReady, locks, counts, history, broken>>

CountRunning(s) ==
  /\ th[s].pc = "arrived"
  /\ numSlavesLock = NoThread
  /\ numSlavesRunning' = numSlavesRunning + 1
  /\ Goto(s, "call")
  /\ UNCHANGED <<slot, pool, readyWorker, gSomeReady, locks, numSlavesWaiting, history, broken>>

\* w.f(w, w.data) copies its arguments out of the spawner's stack frame and
\* says so with nimArgsPassingDone.
CopyArgs(s) ==
  /\ th[s].pc = "call"
  /\ th' = [th EXCEPT ![s].pc = "body", ![s].task = slot[s].data, ![s].op = 1]
  /\ starts' = [starts EXCEPT ![slot[s].data] = @ + 1]
  /\ slot' = [slot EXCEPT ![s].taskStarted = @ + 1]
  /\ UNCHANGED <<pool, readyWorker, gSomeReady, locks, counts, done, broken>>

\* The task's value is stored and announced.
EndTask(s) ==
  /\ IsSlave(s) /\ th[s].pc = "body" /\ Finished(s)
  /\ done' = done \cup {th[s].task}
  /\ Goto(s, "ended")
  /\ UNCHANGED <<slot, pool, readyWorker, gSomeReady, locks, counts, starts, broken>>

CountEnded(s) ==
  /\ th[s].pc = "ended"
  /\ numSlavesLock = NoThread
  /\ numSlavesRunning' = numSlavesRunning - 1
  /\ Goto(s, "top")
  /\ UNCHANGED <<slot, pool, readyWorker, gSomeReady, locks, numSlavesWaiting, history, broken>>

-----------------------------------------------------------------------------
(* nimSpawn3, by a client or by a task.  Choosing(pc): selectWorker may be  *)
(* tried on slot w there, and Claim is its compare-and-swap.                *)

Spawn(p) ==
  /\ At(p, "spawn")
  /\ Goto(p, "spawn")
  /\ UNCHANGED <<slot, pool, readyWorker, gSomeReady, locks, counts, history, broken>>

Claim_NotAtomic(p, w) ==
  /\ slot[w].ready
  /\ slot' = slot
  /\ th' = [th EXCEPT ![p].pc = "claimed", ![p].w = w]

Claim(p, w) ==
  /\ slot[w].ready
  /\ slot' = [slot EXCEPT ![w].ready = FALSE]
  /\ th' = [th EXCEPT ![p].pc = "claimed", ![p].w = w]

TryReadyWorker(p) ==
  /\ th[p].pc = "spawn"
  /\ \/ Claim(p, readyWorker)
     \/ /\ ~slot[readyWorker].ready
        /\ Loop(p, "scan", 1, currentPoolSize)
        /\ UNCHANGED slot
  /\ UNCHANGED <<pool, readyWorker, gSomeReady, locks, counts, history, broken>>

Scan(p) ==
  /\ th[p].pc = "scan"
  /\ th[p].w <= th[p].last
  /\ \/ Claim(p, th[p].w)
     \/ /\ ~slot[th[p].w].ready
        /\ th' = [th EXCEPT ![p].w = @ + 1]
        /\ UNCHANGED slot
  /\ UNCHANGED <<pool, readyWorker, gSomeReady, locks, counts, history, broken>>

\* w.data, w.f, signal(w.taskArrived).
HandOver(p) ==
  /\ th[p].pc = "claimed"
  /\ slot' = [slot EXCEPT ![th[p].w].data = Arg(p), ![th[p].w].taskArrived = @ + 1]
  /\ Goto(p, "handed")
  /\ UNCHANGED <<pool, readyWorker, gSomeReady, locks, counts, history, broken>>

\* blockUntil(w.taskStarted), and nimSpawn3 returns, giving back its lock.
Unlocked(p, lock) == IF lock = p THEN NoThread ELSE lock

Started_Early(p) ==
  /\ th[p].pc = "handed"
  /\ slot' = slot
  /\ stateLock' = Unlocked(p, stateLock)
  /\ numSlavesLock' = Unlocked(p, numSlavesLock)
  /\ NextOp(p)
  /\ UNCHANGED <<pool, readyWorker, gSomeReady, counts, history, broken>>

Started(p) ==
  /\ th[p].pc = "handed"
  /\ slot[th[p].w].taskStarted > 0
  /\ slot' = [slot EXCEPT ![th[p].w].taskStarted = @ - 1]
  /\ stateLock' = Unlocked(p, stateLock)
  /\ numSlavesLock' = Unlocked(p, numSlavesLock)
  /\ NextOp(p)
  /\ UNCHANGED <<pool, readyWorker, gSomeReady, counts, history, broken>>

-----------------------------------------------------------------------------
(* The advice section, under stateLock.                                     *)

ScanOver(p) == th[p].pc = "scan" /\ th[p].w > th[p].last

\* When the section is due (every call at first, then every 128th), and the
\* lock can be had.
EnterAdvice(p) ==
  /\ ScanOver(p)
  /\ stateLock = NoThread
  /\ stateLock' = p
  /\ IF currentPoolSize < MinSize THEN Loop(p, "grow", 0, 1) ELSE Goto(p, "advice")
  /\ UNCHANGED <<slot, pool, readyWorker, gSomeReady, numSlavesLock, counts, history, broken>>

SkipAdvice(p) ==
  /\ ScanOver(p)
  /\ Goto(p, "full")
  /\ UNCHANGED <<slot, pool, readyWorker, gSomeReady, locks, counts, history, broken>>

LeaveAdvice(p) ==
  /\ th[p].pc = "advised"
  /\ stateLock' = NoThread
  /\ Goto(p, "full")
  /\ UNCHANGED <<slot, pool, readyWorker, gSomeReady, numSlavesLock, counts, history, broken>>

AdviceCreate(p) ==
  /\ th[p].pc = "advice"
  /\ "create" \in Advice
  /\ IF currentPoolSize < maxPoolSize THEN Loop(p, "grow", 0, 2) ELSE Goto(p, "advised")
  /\ UNCHANGED <<slot, pool, readyWorker, gSomeReady, locks, counts, history, broken>>

AdviceShutdown(p) ==
  /\ th[p].pc = "advice"
  /\ "shutdown" \in Advice
  /\ slot' = IF currentPoolSize > MinSize THEN [slot EXCEPT ![currentPoolSize].shutdown = TRUE] ELSE slot
  /\ Goto(p, "advised")
  /\ UNCHANGED <<pool, readyWorker, gSomeReady, locks, counts, history, broken>>

AdviceNothing(p) ==
  /\ th[p].pc = "advice"
  /\ "nothing" \in Advice
  /\ Goto(p, "advised")
  /\ UNCHANGED <<slot, pool, readyWorker, gSomeReady, locks, counts, history, broken>>

-----------------------------------------------------------------------------
(* Growing the pool by a slot, under stateLock or under numSlavesLock.  Each  *)
(* step reads currentPoolSize anew.                                         *)

TestInitialized(p) ==
  /\ th[p].pc = "grow"
  /\ Goto(p, IF slot[currentPoolSize + 1].initialized THEN "use" ELSE "activate")
  /\ UNCHANGED <<slot, pool, readyWorker, gSomeReady, locks, counts, history, broken>>

\* activateWorkerThread: the semaphores are initialised and the thread created.
Activate(p) ==
  /\ th[p].pc = "activate"
  /\ LET s == currentPoolSize + 1
     IN  /\ broken' = slot[s].initialized
         /\ slot' = [slot EXCEPT ![s].initialized = TRUE, ![s].taskArrived = 0, ![s].taskStarted = 0]
         /\ th' = IF slot[s].initialized THEN th
                  ELSE [th EXCEPT ![p].pc = "use", ![s].pc = "top"]
  /\ UNCHANGED <<pool, readyWorker, gSomeReady, locks, counts, history>>

UseSlot(p) ==
  /\ th[p].pc = "use"
  /\ currentPoolSize' = currentPoolSize + 1
  /\ th' = [th EXCEPT ![p].pc = "try", ![p].w = currentPoolSize + 1]
  /\ UNCHANGED <<slot, maxPoolSize, readyWorker, gSomeReady, locks, counts, history, broken>>

\* What follows when the new slot is not to be had: after the minimum the
\* advice is taken (last = 1), after the advice its section ends (last = 2), and
\* a slave that grew the pool goes on to wait (last = 3).
AfterGrowing(p) == CASE th[p].last = 1 -> "advice" [] th[p].last = 2 -> "advised" [] OTHER -> "wait"

TryNewSlot(p) ==
  /\ th[p].pc = "try"
  /\ \/ Claim(p, th[p].w)
     \/ /\ ~slot[th[p].w].ready
        /\ Goto(p, AfterGrowing(p))
        /\ UNCHANGED slot
  /\ UNCHANGED <<pool, readyWorker, gSomeReady, locks, counts, history, broken>>

-----------------------------------------------------------------------------
(* Waiting for a ready worker: "a workaround for recursion deadlock issue".   *)

EnterSlaves(p) ==
  /\ th[p].pc = "full" /\ IsSlave(p)
  /\ numSlavesLock = NoThread
  /\ numSlavesLock' = p
  /\ IF numSlavesRunning <= numSlavesWaiting + 1 /\ currentPoolSize < maxPoolSize
     THEN Loop(p, "grow", 0, 3) ELSE Goto(p, "wait")
  /\ UNCHANGED <<slot, pool, readyWorker, gSomeReady, stateLock, counts, history, broken>>

CountWaiting(p) ==
  /\ th[p].pc = "wait"
  /\ numSlavesWaiting' = numSlavesWaiting + 1
  /\ numSlavesLock' = NoThread
  /\ Goto(p, "block")
  /\ UNCHANGED <<slot, pool, readyWorker, gSomeReady, stateLock, numSlavesRunning, history, broken>>

ClientBlocks(p) ==
  /\ th[p].pc = "full" /\ ~IsSlave(p)
  /\ Goto(p, "block")
  /\ UNCHANGED <<slot, pool, readyWorker, gSomeReady, locks, counts, history, broken>>

SomeReady(p) ==
  /\ th[p].pc = "block"
  /\ gSomeReady > 0
  /\ gSomeReady' = gSomeReady - 1
  /\ Goto(p, IF IsSlave(p) THEN "woken" ELSE "spawn")
  /\ UNCHANGED <<slot, pool, readyWorker, locks, counts, history, broken>>

CountWoken_Not(p) ==
  /\ th[p].pc = "woken"
  /\ numSlavesLock = NoThread
  /\ numSlavesWaiting' = numSlavesWaiting
  /\ Goto(p, "spawn")
  /\ UNCHANGED <<slot, pool, readyWorker, gSomeReady, locks, numSlavesRunning, history, broken>>

CountWoken(p) ==
  /\ th[p].pc = "woken"
  /\ numSlavesLock = NoThread
  /\ numSlavesWaiting' = numSlavesWaiting - 1
  /\ Goto(p, "spawn")
  /\ UNCHANGED <<slot, pool, readyWorker, gSomeReady, locks, numSlavesRunning, history, broken>>

-----------------------------------------------------------------------------
(* The other operations.                                                   *)

Await_Early(p) ==
  /\ At(p, "await")
  /\ NextOp(p)
  /\ UNCHANGED <<slot, pool, readyWorker, gSomeReady, locks, counts, history, broken>>

\* ^ of the flow variable of a task.
Await(p) ==
  /\ At(p, "await")
  /\ Arg(p) \in done
  /\ NextOp(p)
  /\ UNCHANGED <<slot, pool, readyWorker, gSomeReady, locks, counts, history, broken>>

\* sync: one pass over the slots in use, from the start again when one is not
\* ready.
Sync_OneShort(p) ==
  /\ At(p, "sync")
  /\ Loop(p, "sync", 1, currentPoolSize - 1)
  /\ UNCHANGED <<slot, pool, readyWorker, gSomeReady, locks, counts, history, broken>>

Sync(p) ==
  /\ At(p, "sync")
  /\ Loop(p, "sync", 1, currentPoolSize)
  /\ UNCHANGED <<slot, pool, readyWorker, gSomeReady, locks, counts, history, broken>>

SyncNext(p) ==
  /\ th[p].pc = "sync"
  /\ th[p].w <= th[p].last
  /\ IF slot[th[p].w].ready THEN th' = [th EXCEPT ![p].w = @ + 1] ELSE Goto(p, "body")
  /\ UNCHANGED <<slot, pool, readyWorker, gSomeReady, locks, counts, history, broken>>

SyncReturns(p) ==
  /\ th[p].pc = "sync"
  /\ th[p].w > th[p].last
  /\ NextOp(p)
  /\ UNCHANGED <<slot, pool, readyWorker, gSomeReady, locks, counts, history, broken>>

\* setMaxPoolSize: the limit, then the slots beyond it one by one.
SetMaxPoolSize(p) ==
  /\ At(p, "setMaxPoolSize")
  /\ maxPoolSize' = Arg(p)
  /\ Loop(p, "mark", Arg(p) + 1, currentPoolSize)
  /\ UNCHANGED <<slot, currentPoolSize, readyWorker, gSomeReady, locks, counts, history, broken>>

Mark(p) ==
  /\ th[p].pc = "mark"
  /\ IF th[p].w <= th[p].last
     THEN /\ slot' = [slot EXCEPT ![th[p].w].shutdown = TRUE]
          /\ th' = [th EXCEPT ![p].w = @ + 1]
     ELSE NextOp(p) /\ UNCHANGED slot
  /\ UNCHANGED <<pool, readyWorker, gSomeReady, locks, counts, history, broken>>

-----------------------------------------------------------------------------
SlaveStep(s) ==
  \/ Shutdown(s) \/ SetReady(s) \/ Announce(s) \/ TaskArrived(s)
  \/ CountRunning(s) \/ CopyArgs(s) \/ EndTask(s) \/ CountEnded(s)

SpawnStep(p) ==
  \/ Spawn(p) \/ TryReadyWorker(p) \/ Scan(p) \/ HandOver(p) \/ Started(p)
  \/ EnterAdvice(p) \/ SkipAdvice(p) \/ LeaveAdvice(p)
  \/ AdviceCreate(p) \/ AdviceShutdown(p) \/ AdviceNothing(p)
  \/ TestInitialized(p) \/ Activate(p) \/ UseSlot(p) \/ TryNewSlot(p)
  \/ EnterSlaves(p) \/ CountWaiting(p) \/ ClientBlocks(p) \/ SomeReady(p) \/ CountWoken(p)

OtherStep(p) ==
  \/ Await(p) \/ Sync(p) \/ SyncNext(p) \/ SyncReturns(p) \/ SetMaxPoolSize(p) \/ Mark(p)

Step(p) == ~broken /\ (SpawnStep(p) \/ OtherStep(p) \/ (IsSlave(p) /\ SlaveStep(p)))

Next == \E p \in Threads : Step(p)

Spec == Init /\ [][Next]_vars

\* The operating system runs every thread that can go on; here at most one
\* thread at a time wants a semaphore, so none is overtaken for ever.
FairSpec == Spec /\ \A p \in Threads : WF_vars(Step(p))

-----------------------------------------------------------------------------
(* Properties.                                                             *)

Busy == {"body", "spawn", "scan", "claimed", "handed", "advice", "advised", "grow", "activate",
         "use", "try", "full", "wait", "block", "woken", "sync", "mark"}
WorkerLoop == {"none", "top", "announce", "idle", "arrived", "call", "ended", "gone"}

\* What the variables range over; in particular a task semaphore of a slot never
\* counts more than the one task that is under way there.
TypeOK ==
  /\ slot \in [SlotIds -> [ready : BOOLEAN, shutdown : BOOLEAN, initialized : BOOLEAN,
                           taskArrived : 0 .. 1, taskStarted : 0 .. 2, data : Tasks \cup {NoTask}]]
  /\ currentPoolSize \in 0 .. Slots /\ maxPoolSize \in 1 .. Slots
  /\ readyWorker \in SlotIds /\ gSomeReady \in Nat
  /\ stateLock \in Threads \cup {NoThread} /\ numSlavesLock \in SlotIds \cup {NoThread}
  /\ th \in [Threads -> [pc : Busy \cup WorkerLoop, task : Tasks \cup {NoTask}, op : Nat,
                          w : 0 .. Slots + 1, last : 0 .. Slots]]
  /\ done \subseteq Tasks

\* A slot that has been told of a task whose arguments are not copied yet.
Pending(s) == slot[s].taskArrived > 0 \/ th[s].pc \in {"arrived", "call"}
Handing(s) == {p \in Threads : th[p].pc = "handed" /\ th[p].w = s}

\* The arguments of a task are in the stack frame of the thread that spawns it:
\* as long as they are to be copied that thread is still inside nimSpawn3.
ArgsAlive ==
  \A s \in SlotIds : Pending(s) => \E p \in Handing(s) : Arg(p) = slot[s].data

\* Every thread that waits on taskStarted of a slot is owed exactly one signal:
\* by the one task that may be pending there, or already counted.  With one
\* spawner per slot this is ArgsAlive.
Handshake ==
  \A s \in SlotIds :
    Cardinality(Handing(s)) = (IF Pending(s) THEN 1 ELSE 0) + slot[s].taskStarted

\* Once spawn returns its task is started or pending in a slot, and no task is
\* started twice: no two threads hand tasks to a slot at once, so none is lost.
SpawnedBy(p) == {Body(p)[k].t : k \in {j \in 1 .. th[p].op - 1 : Body(p)[j].op = "spawn"}}
StartedOnce ==
  /\ \A t \in Tasks : starts[t] <= 1
  /\ \A p \in Clients \cup {s \in SlotIds : th[s].pc \in Busy} : \A t \in SpawnedBy(p) :
       starts[t] = 1 \/ \E s \in SlotIds : Pending(s) /\ slot[s].data = t

\* "assert(not w.ready)", and it stays so until the worker is done: its slot is
\* not given away while it has a task.
NotReadyWithTask ==
  \A s \in SlotIds : th[s].pc \in Busy \cup {"arrived", "call", "ended"} => ~slot[s].ready

\* The counts the workaround for recursive spawns decides by are those of the
\* slaves that run a task, and of those of them that wait for a ready worker.
CountsExact ==
  /\ numSlavesRunning = Cardinality({s \in SlotIds : th[s].pc \in Busy \cup {"call", "ended"}})
  /\ numSlavesWaiting = Cardinality({s \in SlotIds : th[s].pc \in {"block", "woken"}})

\* "A simple barrier to wait for all `spawn`ed tasks": when sync returns to a
\* client, the tasks it spawned before are done.
SyncWaits ==
  \A p \in Clients : \A j, k \in 1 .. th[p].op - 1 :
    k < j /\ Body(p)[k].op = "spawn" /\ Body(p)[j].op = "sync" => Body(p)[k].t \in done

\* The same for the tasks that those tasks spawned in their turn.
Spawned(t) == {Script[t][k].t : k \in {j \in DOMAIN Script[t] : Script[t][j].op = "spawn"}}
SyncWaitsForAll ==
  \A p \in Clients : \A j, k \in 1 .. th[p].op - 1 :
    k < j /\ Body(p)[k].op = "spawn" /\ Body(p)[j].op = "sync" => Spawned(Body(p)[k].t) \subseteq done

\* A slave that makes the pool grow so as not to wait for ever does not, while
\* it holds numSlavesLock, wait for a worker that needs that lock to start.
GrowthProceeds ==
  \A p, s \in SlotIds :
    ~(numSlavesLock = p /\ th[p].pc = "handed" /\ th[p].w = s /\ th[s].pc = "arrived")

\* Where one client spawns and the pool does not shrink, spawn and sync wait.
Calling(op) == {u \in Clients \cup Tasks : \E k \in 1 .. Len(Script[u]) : Script[u][k].op = op}
OneSpawner ==
  /\ \E c \in Clients : Calling("spawn") \subseteq {c}
  /\ "shutdown" \notin Advice /\ Calling("setMaxPoolSize") = {}

\* A task as the program that spawns it sees it, and how far a program is.
Fate ==
  [t \in Tasks |->
     IF t \in done THEN "done" ELSE IF starts[t] > 0 THEN "running"
     ELSE IF \E s \in SlotIds : Pending(s) /\ slot[s].data = t THEN "waiting" ELSE "new"]

Runners(t) == {s \in SlotIds : th[s].pc \in Busy /\ th[s].task = t}
Pos ==
  [u \in Clients \cup Tasks |->
     IF u \in Clients THEN th[u].op
     ELSE IF u \in done THEN Len(Script[u]) + 1
     ELSE IF Runners(u) = {} THEN 1 ELSE th[CHOOSE s \in Runners(u) : TRUE].op]

\* The pool runs the tasks as spawn and sync promise it: whatever the workers and
\* the threads that spawn do to each other, a task goes from its spawn to its
\* start to its end, once, and its value is had when it is done.
Promise == INSTANCE TaskPool WITH fate <- Fate, pos <- Pos, Barring <- OneSpawner
ImplementsTaskPool == Promise!Spec

\* No slot in use gets a second thread.
ActivatedOnce == ~broken

\* Every client gets through its spawns, reads and syncs, and every task is done.
AllDone == <>(done = Tasks /\ \A p \in Clients : Finished(p))
=============================================================================
