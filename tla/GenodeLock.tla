----------------------------- MODULE GenodeLock -----------------------------
(***************************************************************************)
(* The locks and condition variables that the runtime uses on Genode,       *)
(* lib/genode_cpp/syslocks.h: a SysLock is two mutexes and a flag, so that  *)
(* tryAcquireSys can answer without blocking, and a SysCond is a counting   *)
(* semaphore.  Everything under one mutex guard that does not block is one  *)
(* step; a thread waits at each acquire of a mutex and at down.            *)
(***************************************************************************)
EXTENDS Naturals

CONSTANTS Threads, Free,
          MaxSignals    \* bound on the semaphore's counter

VARIABLES mutexA, mutexB,   \* the thread that holds each, or Free
          locked,           \* _locked
          semaphore,        \* the counter of the SysCond
          pc                \* where each thread is

vars == <<mutexA, mutexB, locked, semaphore, pc>>

Places == {"idle", "acquire", "acquireB", "tryAcquire", "holds",
           "release", "releaseWait", "down"}

Init == /\ mutexA = Free /\ mutexB = Free
        /\ locked = FALSE
        /\ semaphore = 0
        /\ pc = [t \in Threads |-> "idle"]

Goto(t, l) == pc' = [pc EXCEPT ![t] = l]

\* acquireSys; it keeps mutex_a while it waits for mutex_b.
CallAcquire(t) == /\ pc[t] = "idle"
                  /\ Goto(t, "acquire")
                  /\ UNCHANGED <<mutexA, mutexB, locked, semaphore>>

AcquireA(t) == /\ pc[t] = "acquire" /\ mutexA = Free
               /\ mutexA' = t
               /\ locked' = TRUE
               /\ Goto(t, "acquireB")
               /\ UNCHANGED <<mutexB, semaphore>>

AcquireB(t) == /\ pc[t] = "acquireB" /\ mutexB = Free
               /\ mutexB' = t
               /\ mutexA' = Free
               /\ Goto(t, "holds")
               /\ UNCHANGED <<locked, semaphore>>

\* tryAcquireSys, after a first look at _locked without the mutex: a thread
\* that sees it set returns false at once.
CallTryAcquire(t) == /\ pc[t] = "idle" /\ ~locked
                     /\ Goto(t, "tryAcquire")
                     /\ UNCHANGED <<mutexA, mutexB, locked, semaphore>>

TryFails(t) == /\ pc[t] = "tryAcquire" /\ mutexA = Free /\ locked
               /\ Goto(t, "idle")
               /\ UNCHANGED <<mutexA, mutexB, locked, semaphore>>

TryAcquires(t) == /\ pc[t] = "tryAcquire" /\ mutexA = Free /\ ~locked
                  /\ mutexA' = t
                  /\ locked' = TRUE
                  /\ Goto(t, "acquireB")
                  /\ UNCHANGED <<mutexB, semaphore>>

\* releaseSys, called by the program or by waitSysCond.
CallRelease(t) == /\ pc[t] = "holds"
                  /\ Goto(t, "release")
                  /\ UNCHANGED <<mutexA, mutexB, locked, semaphore>>

CallWait(t) == /\ pc[t] = "holds"
               /\ Goto(t, "releaseWait")
               /\ UNCHANGED <<mutexA, mutexB, locked, semaphore>>

Release(t) == /\ pc[t] \in {"release", "releaseWait"} /\ mutexA = Free
              /\ locked' = FALSE
              /\ mutexB' = Free
              /\ Goto(t, IF pc[t] = "release" THEN "idle" ELSE "down")
              /\ UNCHANGED <<mutexA, semaphore>>

\* waitSysCond goes on to acquireSys.
Down(t) == /\ pc[t] = "down" /\ semaphore > 0
           /\ semaphore' = semaphore - 1
           /\ Goto(t, "acquire")
           /\ UNCHANGED <<mutexA, mutexB, locked>>

\* signalSysCond, and broadcastSysCond just the same.
Signal(t) == /\ pc[t] \in {"idle", "holds"} /\ semaphore < MaxSignals
             /\ semaphore' = semaphore + 1
             /\ UNCHANGED <<mutexA, mutexB, locked, pc>>

Step(t) == \/ CallAcquire(t) \/ AcquireA(t) \/ AcquireB(t)
           \/ CallTryAcquire(t) \/ TryFails(t) \/ TryAcquires(t)
           \/ CallRelease(t) \/ CallWait(t) \/ Release(t)
           \/ Down(t) \/ Signal(t)

Next == \E t \in Threads : Step(t)

Spec == Init /\ [][Next]_vars

-----------------------------------------------------------------------------
(* Properties.                                                             *)

Holding == {"holds", "release", "releaseWait"}

TypeOK == /\ mutexA \in Threads \cup {Free}
          /\ mutexB \in Threads \cup {Free}
          /\ locked \in BOOLEAN
          /\ semaphore \in Nat
          /\ pc \in [Threads -> Places]

\* A SysLock excludes: two threads never hold it at once, however they mix
\* acquireSys, tryAcquireSys and waits.
MutualExclusion ==
  \A s, t \in Threads : pc[s] \in Holding /\ pc[t] \in Holding => s = t

\* The flag that tryAcquireSys trusts: while nobody is under the guard of mutex_a
\* it is set exactly if the lock is held, so that a thread that tries, and has
\* seen it clear under the guard, never waits for mutex_b.
FlagExact == mutexA = Free => (locked <=> mutexB # Free)

\* The holder can give the lock back.  (It cannot once another thread waits for
\* it: acquireSys blocks on mutex_b under the guard that releaseSys needs.)
ReleaseProceeds ==
  \A s, t \in Threads :
    pc[s] \in {"release", "releaseWait"} => pc[t] # "acquireB"
=============================================================================
