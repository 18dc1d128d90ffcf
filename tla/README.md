# A verification project for EDL

EDL is a programming language with its own toolchain (`edl/`), built on a compiler, a runtime and a
standard library inherited from Nim (`compiler/`, `lib/`). This directory holds TLA+ models of the
parts whose correctness depends on the order in which things happen, configurations that check them
with TLC, and proofs checked by TLAPS. Everything is translated from the source; a path below is
relative to the root of the repository.

## The system and its parts

| Part | Source | State | Operations | Hard because | Here |
|---|---|---|---|---|---|
| Channel | `lib/system/channels_builtin.edl` | ring buffer, lock, one condition variable, `maxItems`, `ready`, `elemType` | open, send, trySend, recv, tryRecv, peek, ready, close | threads, wake-ups, a ring that doubles while wrapped, close racing send | `Channel`, `ChannelFifo`, `ChannelProofs` |
| Flow variable | `lib/pure/concurrency/threadpool.edl` 36-57, 136-299; `compiler/spawn.edl` | value, semaphore, attached `AwaitInfo`, `awaited` | signal, blockUntil, `^`, blockUntilAny, finished | unlocked fields, a pointer into a reader's stack, overlapping readers | `FlowVar`, `FlowVarProofs` |
| Thread pool | `lib/pure/concurrency/threadpool.edl` 151-181, 312-608 | slots with flags and two semaphores, pool size and limits, two locks, two counters | spawn, slave loop, sync, setMaxPoolSize | claims by compare-and-swap, growth and shrinking under way, recursive spawns | `ThreadPool`, `TaskPool`, `PoolProofs` |
| Barrier of `parallel` | `threadpool.edl` 59-95; `compiler/semparallel.edl` | entered, left, interest, semaphore | enter, leave, open, close | relies on the pool's handshake, a semaphore destroyed while in use | `Barrier`, `BarrierProofs` |
| Line editor | `lib/wrappers/linenoise/linenoise.c` | buffer, cursor, screen position, escape sequence, completion | every key, completion, hints, two ways to draw | memmoves in a C buffer, deferred wrap, rows to clear, a completion shown in place of the line | `LineEditor`, `LineBuffer`, `LineScreen`, `LineEdit`, `LineEditProofs` |
| Line sessions | `linenoise.c`; `lib/impure/rdstdin.edl` | history and its limit, raw mode, buffer for pipes | read a line, add, limit, save, load, print key codes, exit | the line being edited lives in the history, many ways out of a call, limits that change | `LineSession`, `LineSessionProofs` |
| Genode locks | `lib/genode_cpp/syslocks.h`; `lib/std/private/syslocks.edl` | two mutexes and a flag; a semaphore | acquire, tryAcquire, release, wait, signal, broadcast | a guard held while waiting, a flag read without it | `GenodeLock`, `GenodeLockProofs` |
| EDL front end | `edl/src/edl/{ast,scopes,resolve,typecheck,driver}.edl` | scope chain, side table of bindings | declare, lookup, resolve, check | scoping, conservative analyses | `EdlSyntax`, `EdlFrontend` |
| EDL interpreter | `edl/src/edl/interp.edl` | frames, control flow, return value | the evaluator | names instead of bindings, every way out of nested constructs | `EdlInterp`, `EdlInterpProofs` |
| EDL lexer, parser, project, Nim backend | the rest of `edl/src` | none that lasts | | text processing, I/O | planned in part |
| Memory management | `lib/system/{arc,orc,yrc,alloc}.edl` | counts, colours, roots; chunks and shared free lists | | concurrent collection, cells freed by foreign threads | planned |
| Async runtime | `lib/pure/async*.edl` | futures, callbacks, timers, selector | | order of callbacks | planned |
| Compiler | `compiler/` | | | a batch program without concurrency | only the wrapper of spawn |
| Language service, formatter, analyzer, test runner, tools | `lsp/`, `formatter/`, `analyzer/`, `testament/`, `tools/` | | | front ends of the compiler, scripts | not modelled |

How they interact: `spawn f(x)` compiles (`compiler/spawn.edl`) to a wrapper procedure, a scratch
object on the spawner's stack that holds the arguments, and a call of `nimSpawn3`. The pool hands
wrapper and object to a worker; the wrapper copies the arguments, calls `nimArgsPassingDone`, runs
`f`, stores the value in the flow variable and signals it. The spawner may then wait on the flow
variable. Channels are independent of the pool; both use the operating system's locks and condition
variables directly (on Genode those of `syslocks.h`). A `parallel` section wraps the spawns in a
barrier on the spawner's stack. `linenoise.c` is the C library behind `readLineFromStdin`: one
thread, a terminal, a history that outlives its calls. The EDL toolchain is one sequential process:
text, tokens, tree, bindings, types, IR, and either the interpreter or a generated Nim program.

What makes each part correct:

- *Channel*: a FIFO queue that loses, duplicates and overwrites nothing; the bound; no thread waits
  for what is there; `ready` is exact, also across a close.
- *Flow variable*: a reader gets the value and gets it in the end; what is attached is detached; no
  worker writes through a dead pointer; no semaphore is used after it is destroyed.
- *Pool*: each task runs once, its arguments live until they are copied, sync waits for the tasks,
  spawners do not wait for ever, the pool keeps to its limits.
- *Barrier*: the section ends when all its tasks have left, and it ends.
- *Line editor and sessions*: the buffer is a text with a cursor, the screen shows it and overwrites
  nothing else, the history loses no line and keeps its bounds, the terminal is restored on every
  way out.
- *Genode locks*: one holder, and its release gets through.
- *Toolchain*: what the front end accepts runs without losing a frame, a loop exit or a return
  value, and a name means the declaration that scoping says.

## Modules

### `ChannelFifo`, `Channel`, `MCChannel`, `ChannelProofs`

`ChannelFifo` is what a channel promises: a queue and whether it is closed. `Channel` has the fields
of `RawChannel` in the record `q` (`rd`, `wr`, `count`, `mask`, `maxItems`, `data`; `open` chooses
`maxItems` from the set `MaxItems`, 0 is no bound; `mask` is -1 while nothing was ever sent and
`ChannelDeadMask` after close), the lock, the set of threads blocked on the condition variable,
`ready` and `elemType`. A call is cut where another thread can act: the unlocked test of `mask`
(`CallSend`, `CallRecv`), taking the lock (`Acquire`), the critical section (`SendWait`, `SendPut`,
`RecvWait`, `RecvTake`, `RecvWrongType`, ...), giving it back (`Release`). `waitSysCond` lets go of
the lock and blocks in one step; a signal moves one waiter, any one, to competing for the lock;
`SpuriousWakeup` wakes one for no reason, up to `MaxSpurious` times. The deep copy of a message is
the message itself. The owner closes between any two of its own calls, whatever the others are
doing: waiting for the lock, asleep, or past the test of `mask`. A call on a closed channel is a
fatal error and its thread stops; but `close` itself tests nothing, so a second one, like a sender
that has passed its test, takes the destroyed lock, which leads to the state "undefined".

### `FlowVar`, `MCFlowVar`, `FlowVarProofs`

A semaphore in full: a counter under a lock, and a signal given after the lock is released (`Count`,
then `Notify`, which wakes one of those that sleep, if there are any). `blockUntil` finds the
counter positive (`Await`) or sleeps (`Sleep`) until `Notify` or `SpuriousWakeup` lets it test
again.

The worker stores the value and tests `fv.ai` without a lock (`TestAi`). Each of the lines that
follow reads `fv.ai` again, and each is an action, for the reader may go, and another come, between
any two: `ReadAi` and `LockAi` take the lock of the `AwaitInfo`, `SetIdx` and `CountAi` write to it,
`UnlockAi` gives the lock back, `NotifyAi` signals. A nil pointer ends the process (`NilDeref`); a
worker that reaches for the lock of an `AwaitInfo` that is gone does nothing more (`usedDeadAi`).
Then it signals the variable.

A reader with a list of variables chooses, for each value it wants, between `^` at once and
`blockUntilAny` first. `blockUntilAny` claims each variable in turn (`Claim`, `Attach`,
`AttachReady`), waits (`WaitAny`, `SleepAny`), reads the index after the lock has been given back
(`ReadIdx`), and detaches from the first to the last (`Detach`). `^` tests `awaited` (`Read`) and
sets it in a step of its own (`SetAwaited`), for no lock joins the two; then it waits, destroys the
semaphore and takes the value. The variable is then deleted from the list, the way the documentation
of `blockUntilAny` and `tests/parallel/twaitany.edl` do it. `FlowVarProofs` has the theorems.

### `TaskPool`, `ThreadPool`, `MCThreadPool`, `PoolProofs`

`slot` is `workersData`, `th` the program counter and local variables of every thread, clients and
slaves alike: a task is a sequence of operations (spawn, await, sync, setMaxPoolSize), so tasks
spawn tasks. `Claim` is the compare-and-swap of `selectWorker`, used in the four places that the
code uses it (`TryReadyWorker`, `Scan`, `TryNewSlot` after either reason to grow); `HandOver` and
`Started` are its second half. `EnterAdvice` to `LeaveAdvice` is the section under `stateLock`,
`EnterSlaves` to `CountWaiting` the one under `numSlavesLock`. What `advice()` computes from the
load of the machine, and whether the section is due, are choices. The semaphores `taskArrived`,
`taskStarted`, `gSomeReady` are counters here: `FlowVar` shows what is inside one, and none of these
is destroyed. When a slot in use is initialised a second time its semaphores are reset and it has
two threads; the model stops there (`broken`).

`TaskPool` is what the pool promises to the program that uses it: a task is new, waiting, running or
done (`fate`), each program is somewhere in its script (`pos`), and that is all the state. There
`Return` is the return of spawn, which with `Barring` comes only when the task has started, as sync
then waits for all tasks spawned before. `Fate` and `Pos` of `ThreadPool` are the refinement
mapping: a task is waiting when some slot has it pending, running when its wrapper has begun, and a
running program is where the worker that runs it is. `Barring` is `OneSpawner`, a condition on the
instance, for with a second spawner the code does not keep that part of the promise.

`PoolProofs` has the theorems about slots, counts and signals, those about tasks and their spawners,
and the refinement.

### `Barrier`, `MCBarrier`, `BarrierProofs`

One master runs sections one after the other; `openBarrier`, each test and assignment of
`closeBarrier`, and each read of `barrierLeave` is an action: `TestInterest`, `ReadLeft` and
`Compare` are the three reads of `b.interest and b.left >= b.entered`. Between `Spawn` and
`BarrierEnter` a task is `"handed"` over. With `OwnSignal` the master goes on only when no task is,
which is what the handshake of `ThreadPool` gives a pool with one spawner (`ArgsAlive`); without it
spawn returns early, as it may with two. A task of an earlier section may still be inside
`barrierLeave` while the next section, with a barrier in the same place, is under way.

### `LineEditor`, `LineBuffer`, `LineScreen`, `LineEdit`, `MCLineEdit`, `LineEditProofs`

`LineBuffer` has `buf` byte by byte with `pos` and `len`, and the memmoves (`Moved`) of every
operation. `LineScreen` is a terminal (external: cells, a cursor that waits behind the last column
until the next character) and what the two refresh functions write to it; `maxrows` and `oldpos`
stand in `scr`. `LineEdit` is the loop of `linenoiseEdit`: which key is which command, the bytes of
an escape sequence one at a time, `completeLine` with the completion shown in place of the line and
the key that leaves it, which may be any (`AcceptingKeys`: a NUL among them, after which the loop
goes on without a redraw). An operation and the refresh after it are one action. `LineEditor` is the
abstract specification: a text to the left and one to the right of a cursor. Characters are single
bytes. The width is what the system or the terminal tells (`GetColumns`); where neither answers the
code assumes 80 columns, which draws wrongly on a terminal of another width.

### `LineSession`, `MCLineSession`, `LineSessionProofs`

A program that calls the library, exits at any moment and is started again. `history` is the array's
first `history_len` entries; while a line is edited its newest entry stands for it (`Entry(index)`
is the one the user is at). `Enter`, `CtrlD`, `CtrlC`, `WriteFails`, `ReadFails` and `Exit` are the
ways out of `linenoiseEdit`, `RawModeFails` and the second disjunct of `DisableRawMode` what
`tcsetattr` may do. `PipeChar` to `PipeFails` are `linenoiseNoTTY` with its doubling buffer. What
keys do to a line is `LineEdit`'s: here `Edit(l)` gives any line. `Cut` is what `strncpy` makes of a
line that fills the buffer, `InFile` what `fgets` makes of a stored line.

### `GenodeLock`, `MCGenodeLock`, `GenodeLockProofs`

`SysLock` and `SysCond`, one action per wait on a mutex or on the semaphore. Genode's Mutex and
Semaphore are external.

### `EdlSyntax`, `EdlFrontend`, `EdlInterp`, `MCEdlInterp`, `EdlInterpProofs`

`EdlSyntax` says what statements and expressions are and how a name is found in a scope or a frame.
`EdlFrontend` is pure: `Placed` numbers the nodes, `Resolved` is the resolver with its chain of
scopes and side table, `TypeChecks` has the rules about `let`, loops and returns. `EdlInterp` starts
from any program in `Programs` that its constant `FrontEnd` accepts and executes it in small steps:
`frames` is `interp.frames`, `ctl` stands for the recursion of `evalStmt`, `execBody` and
`evalCall`. The history variable `env` keeps the value of every *declaration* that the current calls
have executed, which is what resolution says a name means; comparing it with what the interpreter
looks up by name is `NamesMeanDeclarations`. Expressions are literals, a variable, a variable plus a
literal, a test `n < v`, and a call; print is a list `out`. Types, structs, enums, strings, floats
and diagnostics are left out.

The second half of `EdlSyntax` says what the interpreter relies on, without the recursion of the
front end: a judgement is about a body, or what is left of one, with the declaration that each name
visible there denotes (`sym`), how many bare blocks are around it, whether it is in a loop, whether
its function is void, and whether it has to end by a return. A program and its side table are
`Judged` by a set of them when each keeps the rules for its first statement, the set has those that
it rests on, the occurrences of names are bound to what they denote, and no two declarations are at
one place. `Compile` is the front end as the driver calls it, and `AllDerived` what can be derived
for the functions of a program; they are the `FrontEnd` and the `Judgements` of the configurations.
`RulesKept` says that an accepted program is judged by what can be derived. `PlainNames` is about
the programs that are `Plain`: no loop declares a name in its frame, no `if` one that is visible
around it or declared after it, and nothing is declared twice. Of the accepted programs of
`edl_interp` that is more than half, with shadowing across functions and bare blocks.

## Runs

| Run | Instance | What it shows |
|---|---|---|
| `channel_bounded` | 2 senders, 2 receivers of different types, one item or no bound, every call, a close at any time and a second one | `TypeOK`, `Exclusive`, `RingOK`, and the channel implements `ChannelFifo` (`ImplementsFifo`) |
| `channel_pair` | 1 sender, 1 receiver, one item, two, or no bound, five messages: the ring grows to four slots, also while wrapped | the documented use: `ReadyIfWaiting`, `ReadyOnlyIfWaiting`, `NoStrandedWaiter`, and under fairness `AllDelivered`, unless the channel is closed; a close at any time |
| `channel_stranded` | 2 senders, 1 receiver, bounded | **violated** `NoStrandedWaiter` |
| `flowvar_overlap` | 2 variables; one reader wants a and b, a second b, each time with `^` at once or with blockUntilAny first | `TypeOK`, `ReadsValue`, `NoDanglingAwaitInfo`, `FinishedDetached`, `NoSleeperForgotten`, and `AwaitReturns` under fairness: no wake-up of a variable's only reader is lost |
| `flowvar_lost` | 2 variables, 1 reader with blockUntilAny | **violated** `NoLostSignal` |
| `threadpool_flat` | one spawner, 3 tasks, the pool grows to 2 or 3 | the pool implements `TaskPool` with both barriers (`ImplementsTaskPool`): spawn returns when the arguments have been copied, sync when the tasks are done; and `AllDone` under fairness |
| `threadpool_recursive` | a task that spawns and awaits, a client that spawns, shrinks and syncs, all advice | `TypeOK`, `Handshake`, `StartedOnce`, `NotReadyWithTask`, `CountsExact`, and the pool implements `TaskPool` (`ImplementsTaskPool`) |
| `threadpool_args` | two spawners, one or two slots | **violated** `ArgsAlive` |
| `edl_interp` | all programs of `AllPrograms` (several thousand accepted) | `RulesKept` of the front end; `TypeOK`, `FramesMatch`, `StaysInCall`, `FlowCaught`, `ValueReturned`, `PlainNames` |
| `edl_names` | programs of `FewPrograms` | **violated** `NamesMeanDeclarations` |
| `line_edit` | lines of up to 4 characters, prompts of 1 and 2, terminals of 3 and 4 columns, both modes, hints, completions | `BufferOK`, `ImplementsEditor`: the buffer implements a text with a cursor; `ScreenOK`: the screen shows it after every key; `OutputKept`, `EnteredLineStays`: nothing else is overwritten, before or after Enter |
| `line_session` | 4 lines, limits of 1 to 3 entries, three files, a terminal, a dumb one or a pipe, restarts | `HistoryOK`, `WalkKeepsLines`, `CallKeepsHistory`, `SavedComesBack`, `TerminalRestored`, `RoomForNul` |

Bounds. Two threads of each kind are enough for every pair to race, and a third party (owner, second
reader, worker) is always there. Five messages through one or two slots, or through a ring that
grows from nothing, wrap and double it. The pool's instances have one or two workers at first so
that spawners do find none ready, and one slot more than they need. A line of four characters and a
prompt of two on three columns take three rows, scroll a single row, and reach the margin with the
cursor at each place; a hint and a completion of the same sizes do it, too. Three history entries
have an oldest, a middle and a newest; two of the four lines are those that a buffer or a file
changes. `MaxInput` = 5 doubles a pipe's buffer three times. Values in EDL programs go up to
`MaxInt`, calls nest `MaxCalls` deep, a program prints `MaxOut` values and a frame holds
`MaxBindings` bindings; a program that would go on is cut there, which hides no state below the
bound. `MaxSpurious` bounds spurious wake-ups, `MaxSignals` those that Genode's semaphore remembers.
`CHECK_DEADLOCK FALSE` is set where all threads may be done, or a line has been entered;
`line_session` checks for deadlock.

Fairness. `FairSpec` is weak fairness of each thread's steps: the operating system schedules every
thread that can run. Locks and semaphores are not assumed fair, and nothing obliges a wait to return
without a signal. The liveness runs hold without that, because threads make finitely many calls
(Channel), are a variable's only reader (FlowVar) or have the barrier to themselves, or there is one
spawner (ThreadPool). Nothing is assumed of a user at a terminal, so linenoise has no liveness.

## What the violations show

- **Stranded waiters** (`llRecv`, channels_builtin.edl:407). One condition variable serves senders
  and receivers, and `recv` signals only when the item it took had made the ring full. Of two
  blocked senders one is woken, the other's chance goes by, and it sleeps although there is room.
- **A lost announcement** (`nimFlowVarSignal`, threadpool.edl:227). `fv.ai` is tested without a
  lock; a reader that attaches between the test and the increment of the variable's own counter is
  never counted.
- **Arguments read after spawn has returned** (`selectWorker`, threadpool.edl:156). `taskStarted`
  belongs to the worker: a worker that has signalled, finished and become ready again before its
  spawner is scheduled is claimed by a second thread, which takes the first one's signal and returns
  while its own scratch object has yet to be copied. `Handshake` shows that the number of signals is
  right; only whose they are is not.
- **A shadowing name finds the outer variable** (`lookup`, interp.edl:101). Bodies of `if` and
  `while` push no frame and the first binding in a frame wins. `PlainNames` states for which
  programs names are right.

More configurations are kept beside the runs. Two find no error: `MCGenodeLock.cfg` (`TypeOK`,
`MutualExclusion`, `FlagExact`) and `MCBarrier.cfg` (`MasterWaits`, `NoLostWakeup` and, under
fairness, `SectionEnds`: three tasks in up to four sections). The
others are for properties that the code does not have; TLC finds each violated:

| Configuration | Property | What happens |
|---|---|---|
| `MCChannelClose.cfg` | `SafeAgainstSenders` | `close` takes the lock "to be safe against sending threads" (:172), but a sender that has passed the test of `mask` takes the lock after it was destroyed (:350) |
| `MCChannelReady.cfg` | `ReadyIfWaiting` | with two receivers the first to leave clears `ready` for the other (:402) |
| `MCChannelWrongType.cfg` | `NoStrandedWaiter` | a receiver of another type uses up the signal and raises, having taken nothing; the one the item was for sleeps on (:403) |
| `MCFlowVarIndex.cfg` | `IndexArrived` | `fv.ai` is published before `fv.idx` is written: the index returned may be another's (:287) |
| `MCFlowVarShared.cfg` | `EveryReadHasValue` | a second reader finds `awaited` set and takes the value before it is there (:146) |
| `MCFlowVarDestroy.cfg` | `NoUseAfterDestroy` | the reader destroys the semaphore while the worker is about to signal it (:149) |
| `MCThreadPoolGrowth.cfg` | `GrowthProceeds` | a slave waits for a new worker while holding the lock that worker needs (:563, :371) |
| `MCThreadPoolTwice.cfg` | `ActivatedOnce` | the two locks under which the pool grows do not exclude each other (:512, :559) |
| `MCThreadPoolSync.cfg` | `SyncWaits` | with two spawners, a worker can be claimed before the pool's size counts it, and sync does not look at it (:515, :599) |
| `MCThreadPoolSyncAll.cfg` | `SyncWaitsForAll` | sync reads the flags one by one: a task spawned by a task lands on a worker it has passed (:601) |
| `MCBarrierArgs.cfg` | `MasterWaits` | when spawn returns on another's signal, the master closes the barrier before its task has entered (:70, :156) |
| `MCBarrierDestroy.cfg` | `NoUseAfterDestroy` | the master sees that all have left and destroys the semaphore that the last task is about to signal (:80, :95) |
| `MCGenodeLockRelease.cfg` | `ReleaseProceeds` | a thread that waits for the lock holds the guard that its holder needs to release it (syslocks.h:32, :53) |

`NoNilDeref` of `FlowVar` (a worker follows `fv.ai` after its reader has detached) does not hold
either. Because `awaited` is no protection against a second reader (`MCFlowVarShared.cfg`),
`ReadsValue`, `FinishedDetached`, `NoSleeperForgotten` and `AwaitReturns` are about variables with
one reader. Where several spawners compete, the pool's promise that spawn and sync are barriers
fails (`threadpool_args`, `MCThreadPoolSync.cfg`); `threadpool_recursive` therefore says nothing of
it (`Barring` is FALSE there), and that promise is what `threadpool_flat` shows for one spawner.

## Hazards without a property

`PROJECT.json` lists what is hardest to test, with the properties that cover it. What follows was
seen while modelling as well, and nothing here checks it.

- `linenoise.c`: a byte above 127 after Tab ends the line, for `char` is signed (:807); Escape that
  ends a completion also starts an escape sequence (:387), both as in `LineEdit`; a prompt as wide
  as the terminal lets `len` underflow (:511); `l.cols` is read once per line (:782); keys typed
  ahead become part of the answer to the cursor query (:271); a hint without colour leaves `seq`
  uninitialised (:487); `strdup` may fail in `linenoiseHistoryAdd`, after which Enter takes off a
  line of the user's (:1126); Ctrl-C after a walk leaves the abandoned line and edits of older ones
  behind (:828); a completion longer than the buffer sets `len` beyond it (:395, in `PROJECT.json`).
- `threadpool.edl`: a worker is ready, and may be claimed, before it has published `readyWorker`
  (:361) and before `currentPoolSize` counts it (:515); the pool may outgrow its limit (:527); a
  slave blocked in `^` counts as running (:554); `gSomeReady` counts past events and not ready
  workers, so that `preferSpawn` is a hint (:365); `finished` clears `owner.data` of a worker that may
  have another task (:213).
- `interp.edl`: overflow and division by zero (:207), `and` and `or` that evaluate both operands
  (:347), comparison of strings by `intVal` (:236), a binding per turn of a loop (:110).
- `syslocks.h`: broadcast wakes one (:77), a signal nobody waited for is remembered (:72).
  `alloc.edl`: the shared free list (:913).

## Proofs

Every theorem holds for all values of the constants that satisfy the module's assumption
(`ChannelAssumption`, `FlowVarAssumption`, ...) and the hypotheses in its statement, which are in
the table. They are about how a channel or a pool is used: how many threads receive, whether one
client does all the spawning.

| Theorem | Says |
|---|---|
| `ChannelProofs!TypeCorrect` | `Spec => []TypeOK`: in particular no receiver is handed an unset slot |
| `MutualExclusion` | `Spec => []Exclusive` |
| `RingCorrect` | `Spec => []RingOK`: the window fits the ring and keeps to `maxItems` |
| `ChannelImplementsFifo` | `Spec => ImplementsFifo`: the ring implements the abstract queue |
| `WaitingIsAnnounced` | with one receiver, `Spec => []ReadyIfWaiting` |
| `AnnouncedIsWaiting` | `Spec => []ReadyOnlyIfWaiting`: while the channel is open, `ready` is true only if a receiver waits, whoever uses it and whenever it is closed |
| `PairIsNotStranded` | with one sender and one receiver, `Spec => []NoStrandedWaiter`, whatever the bound |
| `UnboundedIsNotStranded` | without a bound and with one type, `Spec => []NoStrandedWaiter`, for any finite number of receivers and any number of senders |
| `FlowVarProofs!TypeCorrect` | `Spec => []TypeOK`: in particular `blockUntil` takes no semaphore below zero |
| `AwaitInfoIsDetached` | `Spec => []NoDanglingAwaitInfo` |
| `ReadersFindNoAwaitInfo` | `Spec => []FinishedDetached` |
| `ReadersGetTheValue` | `Spec => []ReadsValue` |
| `SleepersAreWoken` | `Spec => []NoSleeperForgotten`: for any number of readers and variables, the only reader of a variable does not sleep on after the worker's last signal |
| `PoolProofs!SlotsAreNotShared` | `Spec => []NotReadyWithTask` |
| `CountsAreExact` | `Spec => []CountsExact` |
| `SignalsMatchWaiters` | `Spec => [](ActivatedOnce => Handshake)` |
| `ArgumentsLive` | if one client spawns, `Spec => [](ActivatedOnce => ArgsAlive)` |
| `TasksStartOnce` | `Spec /\ []InArray => [](ActivatedOnce => StartedOnce)`, whoever spawns, if no two spawns are given one task |
| `OneSpawnerActivates` | if one client spawns and nobody calls `setMaxPoolSize`, or is advised to shrink, `Spec => []ActivatedOnce` |
| `OneSpawnerWaits` | in the same pool, `Spec => []ArgsAlive` |
| `SyncIsBarrier` | in the same pool, `Spec => []SyncWaits` |
| `OneSpawnerStarts` | in the same pool, if no two spawns are given one task, `Spec => []StartedOnce` |
| `OneSpawnerTyped` | in the same pool, `Spec => []TypeOK` |
| `PoolKeepsPromise` | `Spec /\ []InArray /\ []ActivatedOnce => ImplementsTaskPool`, whoever spawns, if no two spawns are given one task |
| `OneSpawnerKeepsPromise` | if one client spawns in a pool that only grows, `Spec => ImplementsTaskPool`, spawn and sync being barriers |
| `BarrierProofs!MasterLeavesLast` | with `OwnSignal`, `Spec => []MasterWaits` |
| `LastTaskWakesMaster` | with `OwnSignal`, `Spec => []NoLostWakeup` |
| `LineEditProofs!BufferCorrect` | `Spec => []BufferOK` |
| `BufferIsAText` | `Spec => ImplementsEditor`: every key does to the text what it means |
| `ScreenIsRight` | if no terminal is wider than 1000 columns, `Spec => []ScreenOK` |
| `OutputIsKept` | under the same hypothesis, `Spec => []OutputKept` |
| `EnteredLinesStay` | if also a full line fits on the terminal below the output, and the hint's characters are not the line's, `Spec => []EnteredLineStays` |
| `LineSessionProofs!HistoryInBounds` | `Spec => []HistoryOK` |
| `WalksKeepLines` | `Spec => []WalkKeepsLines` |
| `TerminalIsRestored` | `Spec => []TerminalRestored` |
| `PipeLineFits` | `Spec => []RoomForNul` |
| `CallsKeepHistory` | `Spec => CallKeepsHistory`, an action property: a call that does not walk leaves the history as it was |
| `SavedHistoryComesBack` | `Spec => SavedComesBack`, an action property |
| `GenodeLockProofs!LockExcludes` | `MutualExclusion` and `FlagExact`, if `Free` is not a thread |
| `EdlInterpProofs!TypeIsRight` | if accepted programs keep the rules (`FrontEndRules`), `Spec => []TypeOK`: every name looked up is found, every call gives a value |
| `FramesAreOpen` | under the same hypothesis, `Spec => []FramesMatch` |
| `NamesStayInCall` | under the same hypothesis, `Spec => []StaysInCall` |
| `JumpsAreCaught` | under the same hypothesis, `Spec => []FlowCaught` |
| `CallsReturnValues` | under the same hypothesis, `Spec => []ValueReturned` |
| `PlainNamesMean` | under the same hypothesis, `Spec => []PlainNames`: in a plain program every name has the value of the declaration it is bound to |

*Channel.* `RingOK` is not inductive, because taking an item needs to know that the window holds
messages, and because only the lock keeps two threads from working on one ring. The inductive
invariant is

    Inv == TypeOK /\ Exclusive /\ WaitersBlocked /\ ClosedDestroyed /\ RingSound

where `RingSound` says of an open ring that its fields are numbers, its window fits and every slot
in the window holds a message. First come lemmas about slots (`SlotInside`, `SlotWraps`, `SlotNext`,
`SlotsDiffer`: `%` in place of the code's `and mask`), then what `Grow`, `Store`, `RawSend`,
`RawRecv` do to a sound ring and to `Contents`, then one lemma per action, then `NextInv`.
For the refinement each step is shown to be one step of `ChannelFifo` or to leave queue and `closed`
alone. `close` may come at any time: `ClosedStays` says that nothing opens a closed channel again.

Who waits for what is argued from the kinds of steps (`Meets`, with `StepMeets`: a thread walks on,
goes to sleep, puts a message, takes one, fails, is woken for no reason), each with whom it wakes. A
pair is not stranded because the two never sleep at once: a sender sleeps in a full channel, a
receiver in an empty one, and the call that ends either state signals the only thread there can be.
Without a bound only receivers sleep; there `EnoughWoken` counts: as long as one does, there are as
many receivers woken and not yet back as there are messages. Neither holds of two senders at a
bounded channel, where one signal stands for several free slots (run `channel_stranded`).

*Flow variables.* Four invariants, each resting on the one before. `ListInv` says what each place in
a reader's program means for its list and its index; `AiInv` that a variable points to a reader's
`AwaitInfo` only if that reader has claimed it and has not come to it in detaching; `FlowInv` that a
value is there before it is announced, and that a reader past its wait looks at such a variable or
at one with two readers; `SleepInv` that nobody has taken the signal, or destroyed the semaphore, of
a variable not marked as awaited (`FreshOK`), so that its only reader finds in `blockUntil` what the
worker has announced and sleeps only while the worker's signal is still to come (`SleepOK`). `Left`
is what keeps everybody else out of the argument: whatever step is taken, a reader that does not
take it is at most woken.

*Pool.* Slots and threads are records, the fields that no argument looks at being in some set `D`
(`Shaped`), and `SlotForms` says once what any step does to the slots. `PoolInv` adds that a waiting
worker is ready, or claimed by one thread, or has one task before it, and a working one none of
these (`SlotOK`), and that only slaves wait for `numSlavesLock` (`WaitsOK`). `CountInv` follows the
two counts through each step. `HandInv` counts, per slot, the spawners between `HandOver` and
`Started` against the signals given and owed. It needs `ActivatedOnce`: activating a slot a second
time resets its semaphores, which the code does not exclude (see `MCThreadPoolTwice.cfg`).

The second half follows the tasks. Seen from them a step moves a thread on, hands a task to a
worker, begins it, ends it, or advances a program (`TaskEffect`, with `StepTasks`), and `ProgInv`
says that a thread is in `nimSpawn3` or in sync only where its program says so. `OnceInv` says of
every thread that it has handed over exactly what its program spawns before the point where it is,
and that a worker runs what it started itself. That needs slots to be slots: two growers that hold
different locks may find the same room and pass `maxPoolSize` together, after which the code writes
beyond `workersData` (`InArray` excludes it), and `ActivatedOnce` is supposed as before. With one
client that spawns and a pool that only grows neither has to be supposed: `SoleInv` shows that the
slots in use are those with a worker but for the one being added (`Growing`), that what has been
handed over is with a worker or done (`KeptOK`), and that sync has not passed a slot that still has
a task (`SyncOK`). `TypeOK` is proved there only, because with several spawners a slot can owe as
many signals as there are spawners, which `TypeOK` counts for the instances (`taskStarted` at most
2). The instance of run `threadpool_flat` meets all these hypotheses; those of `threadpool_args` and
`MCThreadPoolSync.cfg` have two spawners and do not have the properties.

The refinement needs that a task has one runner at most, and that `Pos` follows a program from the
slot that runs it to `done`. `LifeOK` says how `starts`, `done` and the runners of a task agree, and
`TheOne` names the runner. Of the effects of a step on tasks, handing over is `Give`, beginning
`Start` and ending `End`; an advance of a program (`PromiseAdvances`) is `Return`, `Await`, `Sync`
or `SetMaxPoolSize`, by where the thread was: `SpawnWaits` shows that spawn has handed its task over
and, with one spawner, that the task has begun, which is where `HandInv` and `SyncOK` come in.
Every other step leaves `Fate` and `Pos` alone (`PosStays`, `FateIs`).

*Barrier.* `entered` and `left` are the cardinalities of the sets of tasks that have, so `left =
entered` means that the sets are equal, and with nobody handed over that all have left. `Waking`
follows a task that has seen `interest` to its signal: all it may compare with has been set before.

*Line editor.* `BufferOK`, with `LoopOK` about the completion on offer, is inductive; the work is in
the memmoves. The refinement maps `buf`, `pos` to the text on either side of the cursor, one lemma
per operation.

The screen has an invariant of its own, `ScreenInv`, whose heart is `Drawn(s, tp, text, p, n)`: from
row `tp` on there is the prompt, the text and `n` characters of hint and nothing else, the cursor is
at `p`, and in multi-line mode `maxrows` and `oldpos` tell truly how many rows that takes and which
one the cursor is in. `ScreenOK` is not inductive because a redraw relies on the last part, which
nobody sees. `RowsNeeded` computes the rows of a text, with one more for a cursor that waits at the
margin; `RowsCleared` and `DrawnCleared` show that `refreshMultiLine` clears the rows that were used
and ends in the row of the prompt; `MultiDraws`, `SingleDraws` and `TrivialDraws` that what is then
written is `Drawn` again, and `PromptDrawn` that the prompt is at the start. `NextScreen` reduces
each key to a redraw, a character typed at the end, Ctrl-L, Enter or nothing. The width must be at
most 1000 because `getColumns` moves 999 columns right to find the margin (linenoise.c:298).
`EnoughRows` is what the model asks of its terminal anyway, which does not scroll; `HintsDiffer`
only lets a mark of a hint be told from a letter. The instance of run `line_edit` meets all three.

*Line sessions.* Six invariants that do not need one another but for the first: `HistoryInv`,
`WalkInv` (the entries are the user's lines up to `Cut`, the one at the cursor being in the buffer),
`CallInv` (until the user walks, the history is what the call began with and the entry of the line),
`LoadInv` (what has been loaded and what is still in the file make up what was saved), `TermInv`
(the mode to restore is the cooked one, and is recorded whenever the terminal is raw), `PipeInv`
(`used` is at most `size`, and below it once a line is returned).

*Genode.* `LockInv`: `mutexA` is held by a thread exactly when it waits for `mutexB`, `mutexB` by
the holder.

*EDL interpreter.* What the theorems suppose is `FrontEndRules`: each program that `FrontEnd`
accepts, with its side table, is judged by its `Judgements`. Nothing else is supposed of programs,
which may be of any size and nest in any way. That the resolver and the type checker see to it is
`RulesKept`, and TLC's part, for both are recursive and out of the prover's reach; the proof is that
an interpreter that looks names up in everybody's frames and shares `flow` and `returnValue` among
all calls is right when they do. None of the five properties is inductive, for none of them says
what is still to be executed, and they need one another: a name that is looked up has a value only
if it is found, it is found only if its frame is still there, and a frame goes when a body ends,
which depends on the flow. The invariant `IInv(J)` therefore justifies each item of `ctl` by a
judgement of `J`. `Items`: what is left of each body, and each loop, `Fits` one: its names are
`Seen` in frames its own call has pushed (all but one that a declaration is still to bind when the
call in its initialiser returns, `Owed`), and it is in a loop, or void, where the judgement says so.
`Endings`: each call waits for a body that has to end by a return, with only blocks and finished
bodies between, or is returning already. `FlowOK`: a break or continue has its loop, and a return
inside a call has stored a value. `Agreed` and `FitsKept` say which changes of the stack below an
item leave it justified; then there is one lemma per action.

`PlainNames` needs more: not that a name is found, but which binding is. The second invariant,
`Meaning`, says that there is a description `D` of the frames: the call each belongs to, the bare
blocks around it and the declaration each of its names stands for, such that three things hold.
`Layout`: calls and blocks lie in `D` as they are open in `ctl`, so no two frames agree in both
call and level, and since a declaration has one level and one name, no two bindings stand for one
declaration. `Views`: each frame has exactly the names `D` gives it, and the binding that lookup
finds for a name (the first in its frame) holds the value of its declaration in that frame's call.
`Scopes`: each body and each loop under way has a judgement that it `Sees` its names' declarations
through, none of the names it has still to declare is in its frame (`Own`), and nothing above it in
the same frame is going to declare one of those or one it sees. The last clause is where a program
has to be `Plain`: without it an `if` leaves a name behind that a later declaration does not
replace. A loop that declares is ruled out because its second turn would bind the name again behind
the first. The theorem holds for any operator `Local` that satisfies `Plain`; the runs use the one
that collects the declarations of a body, its ifs and its loops.

Only model-checked: liveness (`AllDelivered`, `AwaitReturns`, `AllDone`, `SectionEnds`) and `RulesKept`,
which is about the recursion of the front end. Liveness and ENABLED are beyond the prover, and so
are recursive operators.

## Plan

In this order, the most important behaviour first:

1. Done: `ChannelFifo`, `Channel`, `ChannelProofs`; `FlowVar`, `FlowVarProofs`; `TaskPool`,
   `ThreadPool`, `PoolProofs`; `Barrier`, `BarrierProofs`; `LineEditor`, `LineBuffer`,
   `LineScreen`, `LineEdit`, `LineEditProofs`; `LineSession`, `LineSessionProofs`; `GenodeLock`,
   `GenodeLockProofs`; `EdlSyntax`, `EdlFrontend`, `EdlInterp`, `EdlInterpProofs`.
2. `Barrier` composed with `ThreadPool` instead of `OwnSignal`.
3. `pinnedSpawn` and the distinguished threads; the queue of references that `finished` hands back
   (`ToFreeQueue`) with `wakeupWorkerToProcessQueue`.
4. `SharedFree`: cells freed by a foreign thread in `alloc.edl`; runs with two threads and two
   chunks; theorem: a cell is in one list at a time.
5. `Orc`: trial deletion of `orc.edl` on graphs of three or four cells, against reachability.
6. `Futures` and `FutureStream` of the async runtime: callbacks, completion, reads that wait.
7. The EDL parser's error recovery (progress on every token sequence), the Nim backend's evaluation
   order compared with the interpreter's.

## Not modelled

Pure text processing (lexer, parser, diagnostics, formatter), I/O and external processes (project
files, driver's call of the bootstrap compiler, tools), the inherited compiler, the containers and
text modules of the library, and memory management and the async runtime, which are in the plan.
`lib/nimbase.h` and `lib/cycle.h` are macros and inline assembly that adapt generated code to
compilers and processors, without state; Genode's `threads.h` and `signals.h` hand a procedure to
the operating system. `PROJECT.json` lists each with its reason. Memory models weaker than
sequential consistency are not modelled: flags that the code reads without a lock are read and
written in program order.
