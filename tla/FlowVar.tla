------------------------------ MODULE FlowVar ------------------------------
(***************************************************************************)
(* Flow variables of lib/pure/concurrency/threadpool.edl: the worker that   *)
(* computes a value and announces it (nimFlowVarSignal), and readers that   *)
(* wait for one variable (blockUntil, called by `^`) or for any of several  *)
(* (blockUntilAny).                                                         *)
(*                                                                         *)
(* A Semaphore is a counter under a lock with a condition variable that is  *)
(* signalled after the lock is given back, so signal is two steps: Count    *)
(* and Notify.  blockUntil tests the counter under the lock and, while it   *)
(* is not positive, sleeps until a signal or nothing at all wakes it.       *)
(* Between any two accesses to the unlocked fields of a FlowVar other       *)
(* threads run; the lock of an AwaitInfo is held over several of them.      *)
(***************************************************************************)
EXTENDS Naturals, Integers, Sequences, FiniteSets

CONSTANTS FlowVars,   \* each is computed by a worker of its own
          Readers,
          Tasks,      \* the flow variables each reader waits for, in order
          Nil

ASSUME FlowVarAssumption ==
  /\ Tasks \in [Readers -> Seq(FlowVars)]
  /\ Nil \notin Readers \cup FlowVars

VARIABLES value,     \* has the worker stored the value (fv.blob)?
          ai, idx,   \* fv.ai, the reader whose AwaitInfo is attached; fv.idx
          count,     \* fv.cv.counter
          awaited,   \* fv.awaited
          cvLive,    \* FALSE once destroySemaphore(fv.cv) has run
          wpc,       \* where each worker is
          target,    \* the reader whose AwaitInfo's lock it reaches for
          aiLock,    \* the worker that holds the lock of a reader's AwaitInfo
          aiCount, aiIdx,   \* the counter and idx of each reader's AwaitInfo
          tasks,     \* the flow variables a reader has still to wait for
          rpc,       \* where each reader is
          i, conflicts, result   \* the locals of blockUntilAny

fvVars == <<value, ai, idx, count, awaited, cvLive, wpc, target>>
rdVars == <<aiLock, aiCount, aiIdx, tasks, rpc, i, conflicts, result>>
vars == <<fvVars, rdVars>>

Init == /\ value = [f \in FlowVars |-> FALSE]
        /\ ai = [f \in FlowVars |-> Nil]
        /\ idx = [f \in FlowVars |-> 0]
        /\ count = [f \in FlowVars |-> 0]
        /\ awaited = [f \in FlowVars |-> FALSE]
        /\ cvLive = [f \in FlowVars |-> TRUE]
        /\ wpc = [f \in FlowVars |-> "compute"]
        /\ target = [f \in FlowVars |-> Nil]
        /\ aiLock = [r \in Readers |-> Nil]
        /\ aiCount = [r \in Readers |-> 0]
        /\ aiIdx = [r \in Readers |-> 0]
        /\ tasks = Tasks
        /\ rpc = [r \in Readers |-> "idle"]
        /\ i = [r \in Readers |-> 1]
        /\ conflicts = [r \in Readers |-> 0]
        /\ result = [r \in Readers |-> -1]

-----------------------------------------------------------------------------
(* The worker of flow variable f.                                          *)

WorkerTo(f, l) == wpc' = [wpc EXCEPT ![f] = l]

\* The wrapper of a spawned call stores the result and calls nimFlowVarSignal.
Compute_SignalsFirst(f) ==
  /\ wpc[f] = "compute"
  /\ WorkerTo(f, "testAi")
  /\ UNCHANGED <<value, ai, idx, count, awaited, cvLive, target, rdVars>>

Compute(f) ==
  /\ wpc[f] = "compute"
  /\ value' = [value EXCEPT ![f] = TRUE]
  /\ WorkerTo(f, "testAi")
  /\ UNCHANGED <<ai, idx, count, awaited, cvLive, target, rdVars>>

\* `if fv.ai != nil`, without a lock.
TestAi(f) ==
  /\ wpc[f] = "testAi"
  /\ WorkerTo(f, IF ai[f] = Nil THEN "count" ELSE "readAi")
  /\ UNCHANGED <<value, ai, idx, count, awaited, cvLive, target, rdVars>>

\* Every line after the test reads fv.ai again, which is nil once its reader has
\* left blockUntilAny, or the AwaitInfo of another reader.  First the address of
\* the lock ...
ReadAi(f) ==
  /\ wpc[f] = "readAi"
  /\ ai[f] # Nil
  /\ target' = [target EXCEPT ![f] = ai[f]]
  /\ WorkerTo(f, "lockAi")
  /\ UNCHANGED <<value, ai, idx, count, awaited, cvLive, rdVars>>

\* The AwaitInfo of a reader lives as long as its call of blockUntilAny.
InAny == {"claim", "attach", "wait", "asleepAny", "readIdx", "detach", "destroy"}

\* ... which may be gone before it is taken: acquire(fv.ai.cv.L).  What such a lock
\* does is undefined; the worker goes no further here.
LockAi(f) ==
  /\ wpc[f] = "lockAi"
  /\ IF rpc[target[f]] \in InAny
     THEN /\ aiLock[target[f]] = Nil
          /\ aiLock' = [aiLock EXCEPT ![target[f]] = f]
          /\ WorkerTo(f, "setIdx")
     ELSE WorkerTo(f, "usedDeadAi") /\ UNCHANGED aiLock
  /\ target' = [target EXCEPT ![f] = Nil]
  /\ UNCHANGED <<value, ai, idx, count, awaited, cvLive, aiCount, aiIdx, tasks, rpc,
                 i, conflicts, result>>

\* fv.ai.idx = fv.idx
SetIdx(f) ==
  /\ wpc[f] = "setIdx"
  /\ ai[f] # Nil
  /\ aiIdx' = [aiIdx EXCEPT ![ai[f]] = idx[f]]
  /\ WorkerTo(f, "countAi")
  /\ UNCHANGED <<value, ai, idx, count, awaited, cvLive, target, aiLock, aiCount, tasks,
                 rpc, i, conflicts, result>>

\* inc fv.ai.cv.counter
CountAi(f) ==
  /\ wpc[f] = "countAi"
  /\ ai[f] # Nil
  /\ aiCount' = [aiCount EXCEPT ![ai[f]] = @ + 1]
  /\ WorkerTo(f, "unlockAi")
  /\ UNCHANGED <<value, ai, idx, count, awaited, cvLive, target, aiLock, aiIdx, tasks,
                 rpc, i, conflicts, result>>

\* release(fv.ai.cv.L): a mutex does not ask who unlocks it.
UnlockAi(f) ==
  /\ wpc[f] = "unlockAi"
  /\ ai[f] # Nil
  /\ aiLock' = [aiLock EXCEPT ![ai[f]] = Nil]
  /\ WorkerTo(f, "notifyAi")
  /\ UNCHANGED <<value, ai, idx, count, awaited, cvLive, target, aiCount, aiIdx, tasks,
                 rpc, i, conflicts, result>>

\* signal(fv.ai.cv.c)
NotifyAi(f) ==
  /\ wpc[f] = "notifyAi"
  /\ ai[f] # Nil
  /\ rpc' = [rpc EXCEPT ![ai[f]] = IF @ = "asleepAny" THEN "wait" ELSE @]
  /\ WorkerTo(f, "count")
  /\ UNCHANGED <<value, ai, idx, count, awaited, cvLive, target, aiLock, aiCount, aiIdx,
                 tasks, i, conflicts, result>>

NilDeref(f) ==
  /\ wpc[f] \in {"readAi", "setIdx", "countAi", "unlockAi", "notifyAi"}
  /\ ai[f] = Nil
  /\ WorkerTo(f, "crashed")
  /\ UNCHANGED <<value, ai, idx, count, awaited, cvLive, target, rdVars>>

\* signal(fv.cv), first half.
Count_Silently(f) ==
  /\ wpc[f] = "count"
  /\ count' = [count EXCEPT ![f] = @ + 1]
  /\ WorkerTo(f, "done")
  /\ UNCHANGED <<value, ai, idx, awaited, cvLive, target, rdVars>>

Count(f) ==
  /\ wpc[f] = "count"
  /\ count' = [count EXCEPT ![f] = @ + 1]
  /\ WorkerTo(f, "notify")
  /\ UNCHANGED <<value, ai, idx, awaited, cvLive, target, rdVars>>

\* Which flow variable a reader reads: what blockUntilAny returned, or the first if
\* it calls `^` at once.
Index(r) == IF result[r] < 0 THEN 1 ELSE result[r] + 1
Chosen(r) == tasks[r][Index(r)]

Asleep(f) == {r \in Readers : rpc[r] = "asleep" /\ Chosen(r) = f}

\* signal(fv.cv), second half: one of those that sleep in blockUntil(fv.cv) goes
\* on, if there is any; the condition variable may be gone.
Notify(f) ==
  /\ wpc[f] = "notify"
  /\ IF cvLive[f]
     THEN /\ WorkerTo(f, "done")
          /\ IF Asleep(f) = {} THEN UNCHANGED rpc
             ELSE \E r \in Asleep(f) : rpc' = [rpc EXCEPT ![r] = "await"]
     ELSE WorkerTo(f, "usedDestroyed") /\ UNCHANGED rpc
  /\ UNCHANGED <<value, ai, idx, count, awaited, cvLive, target, aiLock, aiCount, aiIdx,
                 tasks, i, conflicts, result>>

-----------------------------------------------------------------------------
(* blockUntilAny, called by reader r with tasks[r].                        *)

ReaderTo(r, l) == rpc' = [rpc EXCEPT ![r] = l]
Fv(r) == tasks[r][i[r]]
Last(r) == i[r] = Len(tasks[r])

\* A fresh AwaitInfo on the reader's stack.
CallAny(r) ==
  /\ rpc[r] = "idle"
  /\ tasks[r] # << >>
  /\ aiLock' = [aiLock EXCEPT ![r] = Nil]
  /\ aiCount' = [aiCount EXCEPT ![r] = 0]
  /\ aiIdx' = [aiIdx EXCEPT ![r] = 0]
  /\ i' = [i EXCEPT ![r] = 1]
  /\ conflicts' = [conflicts EXCEPT ![r] = 0]
  /\ result' = [result EXCEPT ![r] = -1]
  /\ ReaderTo(r, "claim")
  /\ UNCHANGED <<fvVars, tasks>>

\* After the loop over the flow variables: nothing to do if all belong to
\* another blockUntilAny, otherwise wait.
AfterLoop(r, c) == IF c < Len(tasks[r]) THEN "wait" ELSE "destroy"

\* cas(addr flowVars[i].ai, nil, addr ai) succeeds ...
Claim(r) ==
  /\ rpc[r] = "claim"
  /\ ai[Fv(r)] = Nil
  /\ ai' = [ai EXCEPT ![Fv(r)] = r]
  /\ ReaderTo(r, "attach")
  /\ UNCHANGED <<value, idx, count, awaited, cvLive, wpc, target, aiLock, aiCount, aiIdx, tasks,
                 i, conflicts, result>>

\* ... or finds another AwaitInfo there.
Conflict(r) ==
  /\ rpc[r] = "claim"
  /\ ai[Fv(r)] # Nil
  /\ conflicts' = [conflicts EXCEPT ![r] = @ + 1]
  /\ i' = [i EXCEPT ![r] = @ + 1]
  /\ ReaderTo(r, IF Last(r) THEN AfterLoop(r, conflicts[r] + 1) ELSE "claim")
  /\ UNCHANGED <<fvVars, aiLock, aiCount, aiIdx, tasks, result>>

\* attach, under the lock of fv.cv, when the value has not been announced.
Attach(r) ==
  /\ rpc[r] = "attach" /\ cvLive[Fv(r)]
  /\ count[Fv(r)] <= 0
  /\ idx' = [idx EXCEPT ![Fv(r)] = i[r] - 1]
  /\ i' = [i EXCEPT ![r] = @ + 1]
  /\ ReaderTo(r, IF Last(r) THEN AfterLoop(r, conflicts[r]) ELSE "claim")
  /\ UNCHANGED <<value, ai, count, awaited, cvLive, wpc, target, aiLock, aiCount, aiIdx, tasks,
                 conflicts, result>>

\* attach, when it has: that variable is the answer and the loop ends.
AttachReady_KeepsAi(r) ==
  /\ rpc[r] = "attach" /\ cvLive[Fv(r)]
  /\ count[Fv(r)] > 0
  /\ result' = [result EXCEPT ![r] = i[r] - 1]
  /\ ReaderTo(r, "destroy")
  /\ UNCHANGED <<fvVars, aiLock, aiCount, aiIdx, tasks, i, conflicts>>

AttachReady(r) ==
  /\ rpc[r] = "attach" /\ cvLive[Fv(r)]
  /\ count[Fv(r)] > 0
  /\ result' = [result EXCEPT ![r] = i[r] - 1]
  /\ i' = [i EXCEPT ![r] = 1]
  /\ ReaderTo(r, "detach")
  /\ UNCHANGED <<fvVars, aiLock, aiCount, aiIdx, tasks, conflicts>>

\* attach takes the lock of a semaphore another reader has destroyed.
AttachDestroyed(r) ==
  /\ rpc[r] = "attach" /\ ~cvLive[Fv(r)]
  /\ ReaderTo(r, "usedDestroyed")
  /\ UNCHANGED <<fvVars, aiLock, aiCount, aiIdx, tasks, i, conflicts, result>>

\* blockUntil(ai.cv) finds the counter positive ...
WaitAny(r) ==
  /\ rpc[r] = "wait" /\ aiLock[r] = Nil
  /\ aiCount[r] > 0
  /\ aiCount' = [aiCount EXCEPT ![r] = @ - 1]
  /\ ReaderTo(r, "readIdx")
  /\ UNCHANGED <<fvVars, aiLock, aiIdx, tasks, i, conflicts, result>>

\* ... or sleeps.
SleepAny(r) ==
  /\ rpc[r] = "wait" /\ aiLock[r] = Nil
  /\ aiCount[r] <= 0
  /\ ReaderTo(r, "asleepAny")
  /\ UNCHANGED <<fvVars, aiLock, aiCount, aiIdx, tasks, i, conflicts, result>>

\* result = ai.idx, after the lock has been given back.
ReadIdx(r) ==
  /\ rpc[r] = "readIdx"
  /\ result' = [result EXCEPT ![r] = aiIdx[r]]
  /\ i' = [i EXCEPT ![r] = 1]
  /\ ReaderTo(r, "detach")
  /\ UNCHANGED <<fvVars, aiLock, aiCount, aiIdx, tasks, conflicts>>

\* cas(addr flowVars[i].ai, addr ai, nil), for every flow variable.
Detach_NotTheLast(r) ==
  /\ rpc[r] = "detach"
  /\ ai' = [ai EXCEPT ![Fv(r)] = IF @ = r /\ ~Last(r) THEN Nil ELSE @]
  /\ i' = [i EXCEPT ![r] = @ + 1]
  /\ ReaderTo(r, IF Last(r) THEN "destroy" ELSE "detach")
  /\ UNCHANGED <<value, idx, count, awaited, cvLive, wpc, target, aiLock, aiCount, aiIdx, tasks,
                 conflicts, result>>

Detach(r) ==
  /\ rpc[r] = "detach"
  /\ ai' = [ai EXCEPT ![Fv(r)] = IF @ = r THEN Nil ELSE @]
  /\ i' = [i EXCEPT ![r] = @ + 1]
  /\ ReaderTo(r, IF Last(r) THEN "destroy" ELSE "detach")
  /\ UNCHANGED <<value, idx, count, awaited, cvLive, wpc, target, aiLock, aiCount, aiIdx, tasks,
                 conflicts, result>>

\* destroySemaphore(ai.cv) and return.  The caller indexes its sequence with the
\* result, which may be out of bounds when fv.idx is of an earlier call.  What
\* the frame held is dead; it is cleared here to keep the states few.
ReturnAny(r) ==
  /\ rpc[r] = "destroy"
  /\ aiLock' = [aiLock EXCEPT ![r] = Nil]
  /\ aiCount' = [aiCount EXCEPT ![r] = 0]
  /\ aiIdx' = [aiIdx EXCEPT ![r] = 0]
  /\ i' = [i EXCEPT ![r] = 1]
  /\ conflicts' = [conflicts EXCEPT ![r] = 0]
  /\ ReaderTo(r, CASE result[r] < 0 -> "done"
                   [] result[r] \in 0 .. Len(tasks[r]) - 1 -> "read"
                   [] OTHER -> "indexDefect")
  /\ UNCHANGED <<fvVars, tasks, result>>

-----------------------------------------------------------------------------
(* `^`: blockUntil and finished.                                            *)

CallRead(r) ==
  /\ rpc[r] = "idle"
  /\ tasks[r] # << >>
  /\ ReaderTo(r, "read")
  /\ UNCHANGED <<fvVars, aiLock, aiCount, aiIdx, tasks, i, conflicts, result>>

\* `if fv.usesSemaphore and not fv.awaited`, without a lock: whoever finds it set
\* does not wait.
Read(r) ==
  /\ rpc[r] = "read"
  /\ ReaderTo(r, IF awaited[Chosen(r)] THEN "value" ELSE "setAwaited")
  /\ UNCHANGED <<fvVars, aiLock, aiCount, aiIdx, tasks, i, conflicts, result>>

\* fv.awaited = true
SetAwaited(r) ==
  /\ rpc[r] = "setAwaited"
  /\ awaited' = [awaited EXCEPT ![Chosen(r)] = TRUE]
  /\ ReaderTo(r, "await")
  /\ UNCHANGED <<value, ai, idx, count, cvLive, wpc, target, aiLock, aiCount, aiIdx, tasks,
                 i, conflicts, result>>

Await_WithoutLoop(r) ==
  LET f == Chosen(r)
  IN  /\ rpc[r] = "await" /\ cvLive[f]
      /\ count' = [count EXCEPT ![f] = @ - 1]
      /\ ReaderTo(r, "destroyCv")
      /\ UNCHANGED <<value, ai, idx, awaited, cvLive, wpc, target, aiLock, aiCount, aiIdx,
                     tasks, i, conflicts, result>>

\* blockUntil(fv.cv) finds the counter positive ...
Await(r) ==
  LET f == Chosen(r)
  IN  /\ rpc[r] = "await" /\ cvLive[f]
      /\ count[f] > 0
      /\ count' = [count EXCEPT ![f] = @ - 1]
      /\ ReaderTo(r, "destroyCv")
      /\ UNCHANGED <<value, ai, idx, awaited, cvLive, wpc, target, aiLock, aiCount, aiIdx,
                     tasks, i, conflicts, result>>

Sleep_BeforeTest(r) ==
  /\ rpc[r] = "await" /\ cvLive[Chosen(r)]
  /\ ReaderTo(r, "asleep")
  /\ UNCHANGED <<fvVars, aiLock, aiCount, aiIdx, tasks, i, conflicts, result>>

\* ... or sleeps ...
Sleep(r) ==
  /\ rpc[r] = "await" /\ cvLive[Chosen(r)]
  /\ count[Chosen(r)] <= 0
  /\ ReaderTo(r, "asleep")
  /\ UNCHANGED <<fvVars, aiLock, aiCount, aiIdx, tasks, i, conflicts, result>>

\* ... or takes the lock of a semaphore another reader has destroyed.
AwaitDestroyed(r) ==
  /\ rpc[r] = "await" /\ ~cvLive[Chosen(r)]
  /\ ReaderTo(r, "usedDestroyed")
  /\ UNCHANGED <<fvVars, aiLock, aiCount, aiIdx, tasks, i, conflicts, result>>

\* wait(cv.c, cv.L) may return without a signal.
SpuriousWakeup(r) ==
  /\ rpc[r] \in {"asleep", "asleepAny"}
  /\ ReaderTo(r, IF rpc[r] = "asleep" THEN "await" ELSE "wait")
  /\ UNCHANGED <<fvVars, aiLock, aiCount, aiIdx, tasks, i, conflicts, result>>

DestroyCv(r) ==
  LET f == Chosen(r)
  IN  /\ rpc[r] = "destroyCv"
      /\ cvLive' = [cvLive EXCEPT ![f] = FALSE]
      /\ ReaderTo(r, "value")
      /\ UNCHANGED <<value, ai, idx, count, awaited, wpc, target, aiLock, aiCount, aiIdx, tasks,
                     i, conflicts, result>>

\* `tasks.del(index)`: the last element takes the place of the deleted one.
Deleted(s, k) ==
  [j \in 1 .. Len(s) - 1 |-> IF j = k THEN s[Len(s)] ELSE s[j]]

\* The value is taken, finished() asserts that no blockUntilAny is attached,
\* and the reader goes on with its other flow variables.
TakeValue(r) ==
  /\ rpc[r] = "value"
  /\ IF ai[Chosen(r)] = Nil
     THEN /\ tasks' = [tasks EXCEPT ![r] = Deleted(@, Index(r))]
          /\ result' = [result EXCEPT ![r] = -1]
          /\ ReaderTo(r, "idle")
     ELSE /\ ReaderTo(r, "asserted")
          /\ UNCHANGED <<tasks, result>>
  /\ UNCHANGED <<fvVars, aiLock, aiCount, aiIdx, i, conflicts>>

-----------------------------------------------------------------------------
WorkerStep(f) == \/ Compute(f) \/ TestAi(f) \/ ReadAi(f) \/ LockAi(f) \/ SetIdx(f)
                 \/ CountAi(f) \/ UnlockAi(f) \/ NotifyAi(f) \/ NilDeref(f)
                 \/ Count(f) \/ Notify(f)

ReaderStep(r) == \/ CallAny(r) \/ Claim(r) \/ Conflict(r) \/ Attach(r)
                 \/ AttachReady(r) \/ AttachDestroyed(r) \/ WaitAny(r) \/ SleepAny(r)
                 \/ ReadIdx(r) \/ Detach(r) \/ ReturnAny(r)
                 \/ CallRead(r) \/ Read(r) \/ SetAwaited(r) \/ Await(r) \/ Sleep(r)
                 \/ AwaitDestroyed(r) \/ DestroyCv(r) \/ TakeValue(r)

\* A nil pointer ends the process.
Running == \A f \in FlowVars : wpc[f] # "crashed"

Next == /\ Running
        /\ \/ \E f \in FlowVars : WorkerStep(f)
           \/ \E r \in Readers : ReaderStep(r) \/ SpuriousWakeup(r)

Spec == Init /\ [][Next]_vars

\* Spawned calls terminate, and threads that can run do; nothing obliges a wait to
\* return without a signal.
FairSpec == /\ Spec
            /\ \A f \in FlowVars : WF_vars(WorkerStep(f))
            /\ \A r \in Readers : WF_vars(ReaderStep(r))

-----------------------------------------------------------------------------
(* Properties.                                                             *)

\* The values the variables range over; in particular blockUntil never takes a
\* semaphore's counter below zero.
TypeOK ==
  /\ value \in [FlowVars -> BOOLEAN]
  /\ ai \in [FlowVars -> Readers \cup {Nil}]
  /\ idx \in [FlowVars -> Nat]
  /\ count \in [FlowVars -> Nat]
  /\ awaited \in [FlowVars -> BOOLEAN]
  /\ cvLive \in [FlowVars -> BOOLEAN]
  /\ wpc \in [FlowVars -> {"compute", "testAi", "readAi", "lockAi", "setIdx", "countAi",
                           "unlockAi", "notifyAi", "crashed", "count", "notify",
                           "done", "usedDestroyed", "usedDeadAi"}]
  /\ target \in [FlowVars -> Readers \cup {Nil}]
  /\ aiLock \in [Readers -> FlowVars \cup {Nil}]
  /\ aiCount \in [Readers -> Nat]
  /\ aiIdx \in [Readers -> Nat]
  /\ tasks \in [Readers -> Seq(FlowVars)]
  /\ rpc \in [Readers -> InAny \cup {"idle", "read", "setAwaited", "await", "asleep",
                          "destroyCv", "value", "done", "asserted", "indexDefect",
                          "usedDestroyed"}]
  /\ i \in [Readers -> Nat]
  /\ conflicts \in [Readers -> Nat]
  /\ result \in [Readers -> Nat \cup {-1}]

\* The variables that more than one reader waits for.  (awaited is no
\* protection against a second reader: the README says what happens then.)
Shared(f) == \E r, s \in Readers : /\ r # s
                                   /\ \E j \in DOMAIN Tasks[r] : Tasks[r][j] = f
                                   /\ \E j \in DOMAIN Tasks[s] : Tasks[s][j] = f

\* `^`: "Blocks until the value is available and then returns this value": the
\* only reader of a variable never gets past blockUntil before its worker has
\* stored the value, whether it called `^` at once or blockUntilAny first.
ReadsValue ==
  \A r \in Readers :
    rpc[r] \in {"destroyCv", "value"} => value[Chosen(r)] \/ Shared(Chosen(r))

\* ... and so says the documentation of any reader.
EveryReadHasValue ==
  \A r \in Readers : rpc[r] \in {"destroyCv", "value"} => value[Chosen(r)]

\* The AwaitInfo lives on the stack of blockUntilAny: outside that call no
\* flow variable points to it.
NoDanglingAwaitInfo ==
  \A f \in FlowVars, r \in Readers :
    ai[f] = r => rpc[r] \in (InAny \ {"destroy"}) \cup {"usedDestroyed"}

\* Where a worker is that may still wake a reader in blockUntilAny.
BeforeNotifyAi == {"compute", "testAi", "readAi", "lockAi", "setIdx", "countAi",
                   "unlockAi", "notifyAi"}

\* A reader that sleeps in blockUntilAny has claimed a variable whose worker has
\* still to look at it: nobody sleeps there over values that have all arrived.
NoLostSignal ==
  \A r \in Readers :
    rpc[r] = "asleepAny" => \E f \in FlowVars : ai[f] = r /\ wpc[f] \in BeforeNotifyAi

\* Whoever sleeps in blockUntil until a value comes, and is its only reader, will
\* be woken: the worker has still to signal the variable, or was lost on the way
\* to it with the AwaitInfo of a blockUntilAny.
NoSleeperForgotten ==
  \A r \in Readers :
    rpc[r] = "asleep" => wpc[Chosen(r)] \notin {"done", "usedDestroyed"} \/ Shared(Chosen(r))

\* blockUntilAny "returns the index of one flowVar for which a value arrived".
IndexArrived ==
  \A r \in Readers :
    rpc[r] \in {"detach", "destroy", "read"} /\ result[r] >= 0 =>
      /\ result[r] < Len(tasks[r])
      /\ value[tasks[r][result[r] + 1]]

\* A worker that announces its value does not follow a pointer to an
\* AwaitInfo whose reader has gone.
NoNilDeref == Running

\* Nobody uses the lock or the condition variable of a destroyed semaphore.
NoUseAfterDestroy ==
  /\ \A f \in FlowVars : wpc[f] \notin {"usedDestroyed", "usedDeadAi"}
  /\ \A r \in Readers : rpc[r] # "usedDestroyed"

\* finished: `doAssert fv.ai.isNil, "flowVar is still attached to an
\* 'blockUntilAny'"` does not fail for a variable with one reader, however that
\* reader came to be satisfied.
FinishedDetached ==
  \A r \in Readers : rpc[r] = "asserted" => Shared(Chosen(r))

\* The only reader of a variable comes back from blockUntil: it sees the counter or
\* is woken, whatever other readers do meanwhile, unless a worker has crashed and
\* with it the program, or was lost with the AwaitInfo of a blockUntilAny.
AwaitReturns ==
  \A r \in Readers :
    rpc[r] \in {"await", "asleep"} /\ ~Shared(Chosen(r)) ~>
      \/ rpc[r] = "destroyCv"
      \/ ~Running
      \/ rpc[r] \in {"await", "asleep"} /\ wpc[Chosen(r)] = "usedDeadAi"
=============================================================================
