-------------------------- MODULE GenodeLockProofs --------------------------
(***************************************************************************)
(* Theorems about GenodeLock, for any threads and any number of signals.    *)
(***************************************************************************)
EXTENDS GenodeLock, TLAPS

\* Mutex_a is held only by a thread that waits for mutex_b, with the flag set;
\* mutex_b exactly by the holder of the lock.
LockInv ==
  /\ TypeOK
  /\ \A t \in Threads : mutexA = t <=> pc[t] = "acquireB"
  /\ \A t \in Threads : mutexB = t <=> pc[t] \in Holding
  /\ mutexA # Free => locked
  /\ FlagExact

\* A step that only moves one thread, and neither to nor from a lock.
LEMMA Moves ==
  ASSUME LockInv, NEW t \in Threads, NEW l \in Places, Goto(t, l),
         UNCHANGED <<mutexA, mutexB, locked>>, semaphore' \in Nat,
         pc[t] = "acquireB" <=> l = "acquireB", pc[t] \in Holding <=> l \in Holding
  PROVE  LockInv'
BY DEF LockInv, TypeOK, FlagExact, Goto

LEMMA LockStep ==
  ASSUME Free \notin Threads, LockInv, [Next]_vars PROVE LockInv'
<1>1. UNCHANGED vars => LockInv'
  BY DEF vars, LockInv, TypeOK, FlagExact
<1>2. ASSUME NEW t \in Threads, Step(t) PROVE LockInv'
  <2> USE DEF Holding, Places
  <2>0. semaphore \in Nat
    BY DEF LockInv, TypeOK
  <2>1. CASE CallAcquire(t)
    BY <2>0, <2>1, Moves DEF CallAcquire
  <2>2. CASE CallTryAcquire(t)
    BY <2>0, <2>2, Moves DEF CallTryAcquire
  <2>3. CASE TryFails(t)
    BY <2>0, <2>3, Moves DEF TryFails
  <2>4. CASE CallRelease(t)
    BY <2>0, <2>4, Moves DEF CallRelease
  <2>5. CASE CallWait(t)
    BY <2>0, <2>5, Moves DEF CallWait
  <2>6. CASE Down(t)
    <3>1. semaphore' \in Nat
      BY <2>0, <2>6 DEF Down
    <3> QED BY <2>6, <3>1, Moves DEF Down
  <2>7. CASE Signal(t)
    BY <2>7 DEF Signal, LockInv, TypeOK, FlagExact
  <2>8. CASE AcquireA(t)
    BY <2>8 DEF AcquireA, Goto, LockInv, TypeOK, FlagExact
  <2>9. CASE TryAcquires(t)
    BY <2>9 DEF TryAcquires, Goto, LockInv, TypeOK, FlagExact
  <2>10. CASE AcquireB(t)
    BY <2>10 DEF AcquireB, Goto, LockInv, TypeOK, FlagExact
  <2>11. CASE Release(t)
    BY <2>11 DEF Release, Goto, LockInv, TypeOK, FlagExact
  <2> QED
    BY <1>2, <2>1, <2>2, <2>3, <2>4, <2>5, <2>6, <2>7, <2>8, <2>9, <2>10, <2>11 DEF Step
<1> QED BY <1>1, <1>2 DEF Next

LEMMA LockInit == ASSUME Free \notin Threads, Init PROVE LockInv
BY DEF Init, LockInv, TypeOK, FlagExact, Places, Holding

\* Two threads never hold a SysLock at once, and _locked is exact whenever a thread
\* may read it under the guard of mutex_a.
THEOREM LockExcludes ==
  ASSUME Free \notin Threads PROVE Spec => [](MutualExclusion /\ FlagExact)
<1>1. LockInv => MutualExclusion /\ FlagExact
  BY DEF LockInv, MutualExclusion
<1>2. LockInv /\ [Next]_vars => LockInv'
  BY LockStep
<1>3. Init => LockInv
  BY LockInit
<1> QED BY <1>1, <1>2, <1>3, PTL DEF Spec

=============================================================================
