------------------------------ MODULE Barrier ------------------------------
(***************************************************************************)
(* The barrier of the parallel statement,                                   *)
(* lib/pure/concurrency/threadpool.edl 62-95.  compiler/semparallel.edl puts *)
(* it on the stack of the thread that runs the section (the master here),   *)
(* opens it, spawns the section's tasks and closes it; the wrapper of each   *)
(* task (compiler/spawn.edl) enters it before it lets the spawner go on and  *)
(* leaves it at its end.  The master may run any number of sections.        *)
(*                                                                         *)
(* The pool is ThreadPool's subject: here a task is handed over and starts   *)
(* some time later.  OwnSignal is what ThreadPool shows of pools with one    *)
(* spawner (ArgsAlive under MCThreadPoolFlat) and refutes for two.          *)
(***************************************************************************)
EXTENDS Integers, FiniteSets

CONSTANTS Tasks,     \* each is spawned at most once
          OwnSignal  \* does spawn return only when its own task has entered?

VARIABLES entered, left, interest,   \* the fields of the Barrier
          counter, cvLive,           \* b.cv: its counter, is it initialised?
          mpc,       \* where the master is
          tpc, seen, \* where each task is, and what it has read of left
          section    \* (history variable) the tasks of the section

barVars == <<entered, left, interest, counter, cvLive>>
vars == <<barVars, mpc, tpc, seen, section>>

Init == /\ entered = 0 /\ left = 0 /\ interest = FALSE
        /\ counter = 0 /\ cvLive = FALSE
        /\ mpc = "outside"
        /\ tpc = [t \in Tasks |-> "none"] /\ seen = [t \in Tasks |-> 0]
        /\ section = {}

-----------------------------------------------------------------------------
(* The master.                                                              *)

MasterTo(l) == mpc' = l

\* openBarrier, on a variable that its declaration has set to zero.
OpenBarrier ==
  /\ mpc = "outside"
  /\ entered' = 0 /\ left' = 0 /\ interest' = FALSE /\ counter' = 0
  /\ section' = {}
  /\ MasterTo("inside")
  /\ UNCHANGED <<cvLive, tpc, seen>>

Handed == {t \in section : tpc[t] = "handed"}

\* nimSpawn3, up to the end of its handshake.
Spawn(t) ==
  /\ mpc = "inside" /\ (OwnSignal => Handed = {})
  /\ tpc[t] = "none"
  /\ tpc' = [tpc EXCEPT ![t] = "handed"]
  /\ section' = section \cup {t}
  /\ UNCHANGED <<barVars, mpc, seen>>

\* closeBarrier: `if b.left != b.entered`.
CloseBarrier ==
  /\ mpc = "inside" /\ (OwnSignal => Handed = {})
  /\ MasterTo(IF left # entered THEN "initSemaphore" ELSE "outside")
  /\ UNCHANGED <<barVars, tpc, seen, section>>

InitSemaphore ==
  /\ mpc = "initSemaphore"
  /\ cvLive' = TRUE
  /\ MasterTo("interest")
  /\ UNCHANGED <<entered, left, interest, counter, tpc, seen, section>>

SetInterest ==
  /\ mpc = "interest"
  /\ interest' = TRUE
  /\ MasterTo("loop")
  /\ UNCHANGED <<entered, left, counter, cvLive, tpc, seen, section>>

Loop ==
  /\ mpc = "loop"
  /\ MasterTo(IF left # entered THEN "block" ELSE "destroy")
  /\ UNCHANGED <<barVars, tpc, seen, section>>

BlockUntil ==
  /\ mpc = "block" /\ counter > 0
  /\ counter' = counter - 1
  /\ MasterTo("loop")
  /\ UNCHANGED <<entered, left, interest, cvLive, tpc, seen, section>>

DestroySemaphore ==
  /\ mpc = "destroy"
  /\ cvLive' = FALSE
  /\ MasterTo("outside")
  /\ UNCHANGED <<entered, left, interest, counter, tpc, seen, section>>

-----------------------------------------------------------------------------
(* The wrapper of task t.                                                   *)

TaskTo(t, l) == tpc' = [tpc EXCEPT ![t] = l]

BarrierEnter(t) ==
  /\ tpc[t] = "handed"
  /\ entered' = entered + 1
  /\ TaskTo(t, "running")
  /\ UNCHANGED <<left, interest, counter, cvLive, mpc, seen, section>>

\* The call has returned: barrierLeave, atomicInc b.left.
Leave(t) ==
  /\ tpc[t] = "running"
  /\ left' = left + 1
  /\ TaskTo(t, "left")
  /\ UNCHANGED <<entered, interest, counter, cvLive, mpc, seen, section>>

\* `b.interest and b.left >= b.entered`, read one after the other.
TestInterest(t) ==
  /\ tpc[t] = "left"
  /\ TaskTo(t, IF interest THEN "interested" ELSE "done")
  /\ UNCHANGED <<barVars, mpc, seen, section>>

ReadLeft(t) ==
  /\ tpc[t] = "interested"
  /\ seen' = [seen EXCEPT ![t] = left]
  /\ TaskTo(t, "compare")
  /\ UNCHANGED <<barVars, mpc, section>>

Compare(t) ==
  /\ tpc[t] = "compare"
  /\ TaskTo(t, IF seen[t] >= entered THEN "signal" ELSE "done")
  /\ UNCHANGED <<barVars, mpc, seen, section>>

\* signal(b.cv): under its lock the counter, then the condition variable.
Count(t) ==
  /\ tpc[t] = "signal" /\ cvLive
  /\ counter' = counter + 1
  /\ TaskTo(t, "notify")
  /\ UNCHANGED <<entered, left, interest, cvLive, mpc, seen, section>>

Notify(t) ==
  /\ tpc[t] = "notify" /\ cvLive
  /\ TaskTo(t, "done")
  /\ UNCHANGED <<barVars, mpc, seen, section>>

\* The master has destroyed the semaphore, or not yet initialised another one.
UseDestroyed(t) ==
  /\ tpc[t] \in {"signal", "notify"} /\ ~cvLive
  /\ TaskTo(t, "usedDestroyed")
  /\ UNCHANGED <<barVars, mpc, seen, section>>

-----------------------------------------------------------------------------
Close == CloseBarrier \/ InitSemaphore \/ SetInterest \/ Loop \/ BlockUntil \/ DestroySemaphore

TaskStep(t) == \/ BarrierEnter(t) \/ Leave(t) \/ TestInterest(t) \/ ReadLeft(t)
               \/ Compare(t) \/ Count(t) \/ Notify(t) \/ UseDestroyed(t)

Next == \/ OpenBarrier
        \/ \E t \in Tasks : Spawn(t)
        \/ Close
        \/ \E t \in Tasks : TaskStep(t)

Spec == Init /\ [][Next]_vars

\* Threads that can run do; the section's own code ends.
FairSpec == Spec /\ WF_vars(Close) /\ \A t \in Tasks : WF_vars(TaskStep(t))

-----------------------------------------------------------------------------
(* Properties.                                                             *)

\* What closeBarrier is for: once the section is over, none of its tasks runs
\* any more, nor has yet to start.
MasterWaits == mpc = "outside" => \A t \in section : tpc[t] \notin {"handed", "running"}

\* "We may not have seen the final value of b.entered yet, so we need to check
\* for >= instead of ==.": the master does not sleep when all tasks have left,
\* unless one of them is about to wake it.
AboutToSignal(t) == \/ tpc[t] \in {"left", "interested"} /\ interest
                    \/ tpc[t] = "compare" /\ seen[t] >= entered
                    \/ tpc[t] \in {"signal", "notify"}
NoLostWakeup ==
  mpc = "block" /\ left = entered => counter > 0 \/ \E t \in section : AboutToSignal(t)

\* Nobody signals a semaphore that is gone.
NoUseAfterDestroy == \A t \in Tasks : tpc[t] # "usedDestroyed"

\* Every section ends.
SectionEnds == mpc = "inside" ~> mpc = "outside"
=============================================================================
