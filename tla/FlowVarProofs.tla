---------------------------- MODULE FlowVarProofs ----------------------------
(***************************************************************************)
(* Theorems about FlowVar, for any flow variables and readers and any lists *)
(* of variables they wait for.                                             *)
(***************************************************************************)
EXTENDS FlowVar, SequenceTheorems, TLAPS

(* -------------------------------- Types -------------------------------- *)

\* The types, and the position of a reader in its list, which starts at 1.
Typed == TypeOK /\ \A r \in Readers : i[r] >= 1

LEMMA DeletedOK ==
  ASSUME NEW s \in Seq(FlowVars), NEW k
  PROVE  /\ Deleted(s, k) \in Seq(FlowVars)
         /\ \A j \in 1 .. Len(Deleted(s, k)) : \E m \in 1 .. Len(s) : Deleted(s, k)[j] = s[m]
<1>1. Len(s) \in Nat /\ \A j \in 1 .. Len(s) : s[j] \in FlowVars
  BY LenProperties, ElementOfSeq
<1>2. CASE Len(s) = 0
  <2>1. Deleted(s, k) = << >>
    BY <1>2 DEF Deleted
  <2> QED BY <2>1, <1>2, EmptySeq
<1>3. CASE Len(s) > 0
  <2> DEFINE n == Len(s) - 1
  <2>1. n \in Nat /\ \A j \in 1 .. n : j \in 1 .. Len(s) /\ Len(s) \in 1 .. Len(s)
    BY <1>1, <1>3
  <2> HIDE DEF n
  <2>2. Deleted(s, k) = [j \in 1 .. n |-> IF j = k THEN s[Len(s)] ELSE s[j]]
    BY DEF Deleted, n
  <2> QED BY <2>1, <2>2, <1>1
<1> QED BY <1>1, <1>2, <1>3

\* Where TypeOK has a reader.
ReaderPcs == InAny \cup {"idle", "read", "setAwaited", "await", "asleep",
                         "destroyCv", "value", "done", "asserted", "indexDefect",
                         "usedDestroyed"}

LEMMA WokenTyped ==
  ASSUME rpc \in [Readers -> ReaderPcs],
         \/ rpc' = rpc
         \/ \E r \in Readers : rpc' = [rpc EXCEPT ![r] = "await"]
         \/ \E r \in Readers : rpc' = [rpc EXCEPT ![r] = "wait"]
  PROVE  rpc' \in [Readers -> ReaderPcs]
BY DEF ReaderPcs, InAny

LEMMA WorkerTyped ==
  ASSUME Typed, NEW f \in FlowVars, WorkerStep(f) PROVE Typed'
<1> USE DEF Typed, TypeOK, WorkerTo, rdVars
<1>1. CASE Compute(f)
  BY <1>1 DEF Compute
<1>2. CASE TestAi(f)
  BY <1>2 DEF TestAi
<1>3. CASE ReadAi(f)
  BY <1>3 DEF ReadAi
<1>4. CASE LockAi(f)
  BY <1>4 DEF LockAi
<1>5. CASE SetIdx(f)
  BY <1>5 DEF SetIdx
<1>6. CASE CountAi(f)
  <2>1. ai[f] \in Readers /\ aiCount[ai[f]] + 1 \in Nat
    BY <1>6 DEF CountAi
  <2>2. /\ aiCount' = [aiCount EXCEPT ![ai[f]] = aiCount[ai[f]] + 1]
        /\ wpc' = [wpc EXCEPT ![f] = "unlockAi"]
        /\ UNCHANGED <<value, ai, idx, count, awaited, cvLive, target, aiLock, aiIdx, tasks,
                        rpc, i, conflicts, result>>
    BY <1>6 DEF CountAi
  <2>3. aiCount' \in [Readers -> Nat]
    BY <2>1, <2>2
  <2> QED BY <2>2, <2>3
<1>7. CASE UnlockAi(f)
  BY <1>7 DEF UnlockAi
<1>8. CASE NotifyAi(f)
  <2>1. /\ wpc' = [wpc EXCEPT ![f] = "count"]
        /\ UNCHANGED <<value, ai, idx, count, awaited, cvLive, target, aiLock, aiCount, aiIdx,
                        tasks, i, conflicts, result>>
    BY <1>8 DEF NotifyAi
  <2>2. rpc' = rpc \/ \E r \in Readers : rpc' = [rpc EXCEPT ![r] = "wait"]
    <3>1. rpc' = [rpc EXCEPT ![ai[f]] = IF rpc[ai[f]] = "asleepAny" THEN "wait" ELSE rpc[ai[f]]]
      BY <1>8 DEF NotifyAi
    <3>2. ai[f] \in Readers
      BY <1>8 DEF NotifyAi
    <3>3. rpc \in [Readers -> ReaderPcs]
      BY DEF ReaderPcs
    <3> QED BY ONLY <3>1, <3>2, <3>3
  <2>3. rpc \in [Readers -> ReaderPcs]
    BY DEF ReaderPcs
  <2>4. rpc' \in [Readers -> ReaderPcs]
    BY ONLY <2>2, <2>3, WokenTyped
  <2> QED BY <2>1, <2>4 DEF ReaderPcs
<1>9. CASE NilDeref(f)
  BY <1>9 DEF NilDeref
<1>10. CASE Count(f)
  BY <1>10 DEF Count
<1>11. CASE Notify(f)
  <2>1. /\ \E l \in {"done", "usedDestroyed"} : wpc' = [wpc EXCEPT ![f] = l]
        /\ UNCHANGED <<value, ai, idx, count, awaited, cvLive, target, aiLock, aiCount, aiIdx,
                        tasks, i, conflicts, result>>
    BY <1>11 DEF Notify
  <2>2. rpc' = rpc \/ \E r \in Readers : rpc' = [rpc EXCEPT ![r] = "await"]
    BY <1>11 DEF Notify, Asleep
  <2>3. rpc \in [Readers -> ReaderPcs]
    BY DEF ReaderPcs
  <2>4. rpc' \in [Readers -> ReaderPcs]
    BY ONLY <2>2, <2>3, WokenTyped
  <2> QED BY <2>1, <2>4 DEF ReaderPcs
<1> QED
  BY <1>1, <1>2, <1>3, <1>4, <1>5, <1>6, <1>7, <1>8, <1>9, <1>10, <1>11 DEF WorkerStep

LEMMA ReaderTyped ==
  ASSUME Typed, NEW r \in Readers, ReaderStep(r) \/ SpuriousWakeup(r) PROVE Typed'
<1> USE DEF Typed, TypeOK, ReaderTo, fvVars, InAny
<1>1. CASE CallAny(r)
  BY SMTT(60), <1>1 DEF CallAny
<1>2. CASE Claim(r)
  BY <1>2 DEF Claim
<1>3. CASE Conflict(r)
  <2>1. i[r] + 1 \in Nat /\ i[r] + 1 >= 1 /\ conflicts[r] + 1 \in Nat
    OBVIOUS
  <2>2. /\ i' = [i EXCEPT ![r] = i[r] + 1]
        /\ conflicts' = [conflicts EXCEPT ![r] = conflicts[r] + 1]
        /\ \E l \in {"wait", "destroy", "claim"} : rpc' = [rpc EXCEPT ![r] = l]
        /\ UNCHANGED <<value, ai, idx, count, awaited, cvLive, wpc, target, aiLock, aiCount,
                        aiIdx, tasks, result>>
    BY <1>3 DEF Conflict, AfterLoop
  <2>3. i' \in [Readers -> Nat] /\ \A q \in Readers : i'[q] >= 1
    BY <2>1, <2>2
  <2>4. conflicts' \in [Readers -> Nat]
    BY <2>1, <2>2
  <2> QED BY <2>2, <2>3, <2>4
<1>4. CASE Attach(r)
  <2>1. i[r] - 1 \in Nat /\ i[r] + 1 \in Nat /\ i[r] + 1 >= 1
    OBVIOUS
  <2>2. /\ idx' = [idx EXCEPT ![Fv(r)] = i[r] - 1]
        /\ i' = [i EXCEPT ![r] = i[r] + 1]
        /\ \E l \in {"wait", "destroy", "claim"} : rpc' = [rpc EXCEPT ![r] = l]
        /\ UNCHANGED <<value, ai, count, awaited, cvLive, wpc, target, aiLock, aiCount,
                        aiIdx, tasks, conflicts, result>>
    BY <1>4 DEF Attach, AfterLoop
  <2>3. idx' \in [FlowVars -> Nat]
    BY <2>1, <2>2
  <2>4. i' \in [Readers -> Nat] /\ \A q \in Readers : i'[q] >= 1
    BY <2>1, <2>2
  <2> QED BY <2>2, <2>3, <2>4
<1>5. CASE AttachReady(r)
  <2>1. i[r] - 1 \in Nat
    OBVIOUS
  <2>2. /\ result' = [result EXCEPT ![r] = i[r] - 1]
        /\ i' = [i EXCEPT ![r] = 1] /\ rpc' = [rpc EXCEPT ![r] = "detach"]
        /\ UNCHANGED <<value, ai, idx, count, awaited, cvLive, wpc, target, aiLock, aiCount,
                        aiIdx, tasks, conflicts>>
    BY <1>5 DEF AttachReady
  <2>3. result' \in [Readers -> Nat \cup {-1}]
    BY <2>1, <2>2
  <2> QED BY <2>2, <2>3
<1>6. CASE AttachDestroyed(r)
  BY <1>6 DEF AttachDestroyed
<1>7. CASE WaitAny(r)
  BY <1>7 DEF WaitAny
<1>8. CASE Detach(r)
  <2>1. /\ ai' = [ai EXCEPT ![Fv(r)] = IF ai[Fv(r)] = r THEN Nil ELSE ai[Fv(r)]]
        /\ i' = [i EXCEPT ![r] = i[r] + 1]
        /\ \E l \in {"detach", "destroy"} : rpc' = [rpc EXCEPT ![r] = l]
        /\ UNCHANGED <<value, idx, count, awaited, cvLive, wpc, target, aiLock, aiCount,
                        aiIdx, tasks, conflicts, result>>
    BY <1>8 DEF Detach
  <2>2. ai' \in [FlowVars -> Readers \cup {Nil}]
    BY <2>1
  <2>3. i' \in [Readers -> Nat] /\ \A q \in Readers : i'[q] >= 1
    BY <2>1
  <2> QED BY <2>1, <2>2, <2>3
<1>9. CASE ReturnAny(r)
  <2> DEFINE l == CASE result[r] < 0 -> "done"
                    [] result[r] \in 0 .. Len(tasks[r]) - 1 -> "read"
                    [] OTHER -> "indexDefect"
  <2>2. l \in {"done", "read", "indexDefect"}
    OBVIOUS
  <2>1. /\ aiLock' = [aiLock EXCEPT ![r] = Nil] /\ aiCount' = [aiCount EXCEPT ![r] = 0]
        /\ aiIdx' = [aiIdx EXCEPT ![r] = 0] /\ i' = [i EXCEPT ![r] = 1]
        /\ conflicts' = [conflicts EXCEPT ![r] = 0]
        /\ rpc' = [rpc EXCEPT ![r] = l]
        /\ UNCHANGED <<value, ai, idx, count, awaited, cvLive, wpc, target, tasks, result>>
    BY <1>9 DEF ReturnAny
  <2> HIDE DEF l
  <2> QED BY <2>1, <2>2
<1>10. CASE CallRead(r)
  BY <1>10 DEF CallRead
<1>11. CASE Read(r)
  BY <1>11 DEF Read
<1>12. CASE Await(r)
  <2> DEFINE f == Chosen(r)
  <2>1. /\ count[f] > 0
        /\ count' = [count EXCEPT ![f] = count[f] - 1]
        /\ rpc' = [rpc EXCEPT ![r] = "destroyCv"]
        /\ UNCHANGED <<value, ai, idx, awaited, cvLive, wpc, target, aiLock, aiCount,
                        aiIdx, tasks, i, conflicts, result>>
    BY <1>12 DEF Await
  <2> HIDE DEF f
  <2>2. CASE f \in FlowVars
    <3>1. count[f] - 1 \in Nat
      BY <2>1, <2>2
    <3> QED BY <2>1, <2>2, <3>1
  <2>3. CASE f \notin FlowVars
    <3>1. count' = count
      BY <2>1, <2>3
    <3> QED BY <2>1, <3>1
  <2> QED BY <2>2, <2>3
<1>13. CASE DestroyCv(r)
  BY <1>13 DEF DestroyCv
<1>14. CASE TakeValue(r)
  <2> DEFINE rest == Deleted(tasks[r], Index(r))
  <2>1. rest \in Seq(FlowVars)
    BY DeletedOK
  <2>2. /\ tasks' \in {tasks, [tasks EXCEPT ![r] = rest]}
        /\ result' \in {result, [result EXCEPT ![r] = -1]}
        /\ \E l \in {"idle", "asserted"} : rpc' = [rpc EXCEPT ![r] = l]
        /\ UNCHANGED <<value, ai, idx, count, awaited, cvLive, wpc, target, aiLock, aiCount, aiIdx,
                        i, conflicts>>
    BY <1>14 DEF TakeValue
  <2> HIDE DEF rest
  <2>3. tasks' \in [Readers -> Seq(FlowVars)]
    BY <2>1, <2>2
  <2> QED BY <2>2, <2>3
<1>15. CASE SleepAny(r)
  BY <1>15 DEF SleepAny
<1>19. CASE ReadIdx(r)
  <2>1. /\ result' = [result EXCEPT ![r] = aiIdx[r]]
        /\ i' = [i EXCEPT ![r] = 1] /\ rpc' = [rpc EXCEPT ![r] = "detach"]
        /\ UNCHANGED <<value, ai, idx, count, awaited, cvLive, wpc, target, aiLock, aiCount,
                        aiIdx, tasks, conflicts>>
    BY <1>19 DEF ReadIdx
  <2>2. result' \in [Readers -> Nat \cup {-1}]
    BY <2>1
  <2> QED BY <2>1, <2>2
<1>16. CASE SetAwaited(r)
  BY <1>16 DEF SetAwaited
<1>17. CASE Sleep(r) \/ AwaitDestroyed(r)
  BY <1>17 DEF Sleep, AwaitDestroyed
<1>18. CASE SpuriousWakeup(r)
  BY <1>18 DEF SpuriousWakeup
<1> QED
  BY <1>1, <1>2, <1>3, <1>4, <1>5, <1>6, <1>7, <1>8, <1>9, <1>10, <1>11, <1>12, <1>13,
     <1>14, <1>15, <1>16, <1>17, <1>18, <1>19 DEF ReaderStep

LEMMA TypedStep == ASSUME Typed, [Next]_vars PROVE Typed'
<1>1. UNCHANGED vars => Typed'
  BY DEF vars, fvVars, rdVars, Typed, TypeOK
<1> QED BY <1>1, WorkerTyped, ReaderTyped DEF Next

LEMMA TypedInit == Init => Typed
BY FlowVarAssumption DEF Init, Typed, TypeOK

(* ------------------------ What a step leaves alone --------------------- *)

\* A reader that takes no step of its own is at most woken.
Left(q) ==
  /\ \/ rpc'[q] = rpc[q]
     \/ rpc[q] = "asleep" /\ rpc'[q] = "await"
     \/ rpc[q] = "asleepAny" /\ rpc'[q] = "wait"
  /\ tasks'[q] = tasks[q] /\ i'[q] = i[q]
  /\ conflicts'[q] = conflicts[q] /\ result'[q] = result[q]

LEMMA WorkersLeaveReaders ==
  ASSUME Typed, NEW f \in FlowVars, WorkerStep(f)
  PROVE  /\ UNCHANGED <<ai, awaited, cvLive>>
         /\ \A q \in Readers : Left(q)
<1> USE DEF Typed, TypeOK, rdVars, Left
<1>1. CASE NotifyAi(f)
  BY <1>1 DEF NotifyAi
<1>2. CASE Notify(f)
  <2>1. \/ rpc' = rpc
        \/ \E r \in Readers : rpc[r] = "asleep" /\ rpc' = [rpc EXCEPT ![r] = "await"]
    BY <1>2 DEF Notify, Asleep
  <2>2. UNCHANGED <<ai, awaited, cvLive, tasks, i, conflicts, result>>
    BY <1>2 DEF Notify
  <2> QED BY <2>1, <2>2
<1>3. CASE ~NotifyAi(f) /\ ~Notify(f)
  BY <1>3 DEF WorkerStep, Compute, TestAi, ReadAi, LockAi, SetIdx, CountAi, UnlockAi, NilDeref,
     Count
<1> QED BY <1>1, <1>2, <1>3

LEMMA WakingLeavesReaders ==
  ASSUME Typed, NEW r \in Readers, SpuriousWakeup(r)
  PROVE  UNCHANGED fvVars /\ \A q \in Readers : Left(q)
BY DEF SpuriousWakeup, ReaderTo, Left, Typed, TypeOK

LEMMA ReadersLeaveReaders ==
  ASSUME Typed, NEW r \in Readers, ReaderStep(r), NEW q \in Readers, q # r
  PROVE  Left(q) /\ rpc'[q] = rpc[q]
<1> USE DEF Typed, TypeOK, ReaderTo, fvVars, Left
<1>1. CASE CallAny(r) \/ Claim(r) \/ Conflict(r) \/ CallRead(r)
  BY <1>1 DEF CallAny, Claim, Conflict, CallRead
<1>2. CASE Attach(r) \/ AttachReady(r) \/ AttachDestroyed(r)
  BY <1>2 DEF Attach, AttachReady, AttachDestroyed
<1>3. CASE WaitAny(r) \/ SleepAny(r) \/ ReadIdx(r) \/ Detach(r) \/ ReturnAny(r)
  BY <1>3 DEF WaitAny, SleepAny, ReadIdx, Detach, ReturnAny
<1>4. CASE Read(r) \/ SetAwaited(r) \/ Await(r) \/ Sleep(r) \/ AwaitDestroyed(r)
  BY <1>4 DEF Read, SetAwaited, Await, Sleep, AwaitDestroyed
<1>5. CASE DestroyCv(r) \/ TakeValue(r)
  BY <1>5 DEF DestroyCv, TakeValue
<1> QED BY <1>1, <1>2, <1>3, <1>4, <1>5 DEF ReaderStep

LEMMA ReadersLeaveValues ==
  ASSUME NEW r \in Readers, ReaderStep(r) PROVE UNCHANGED <<value, wpc>>
BY DEF ReaderStep, CallAny, Claim, Conflict, CallRead, Attach, AttachReady,
   AttachDestroyed, WaitAny, SleepAny, ReadIdx, Detach, ReturnAny, Read, SetAwaited, Await,
   Sleep, AwaitDestroyed, DestroyCv, TakeValue, fvVars

(* ----------------------- The lists of the readers ---------------------- *)

\* What a reader has still to wait for is part of what it began with, and it is
\* inside that list wherever it looks at it.
ListOK(r) ==
  /\ \A j \in 1 .. Len(tasks[r]) : \E m \in 1 .. Len(Tasks[r]) : tasks[r][j] = Tasks[r][m]
  /\ rpc[r] \in {"claim", "attach", "detach"} => i[r] <= Len(tasks[r])
  /\ rpc[r] \in {"wait", "asleepAny", "readIdx"} => Len(tasks[r]) >= 1
  /\ rpc[r] = "idle" => result[r] = -1
  /\ rpc[r] \in {"read", "setAwaited", "await", "asleep", "destroyCv", "value", "asserted"} =>
       Index(r) \in 1 .. Len(tasks[r])

ListInv == Typed /\ \A r \in Readers : ListOK(r)

LEMMA ListKept ==
  ASSUME NEW q \in Readers, ListOK(q), Left(q) PROVE ListOK(q)'
BY DEF ListOK, Index, Left

LEMMA ReaderList ==
  ASSUME ListInv, NEW r \in Readers, ReaderStep(r) PROVE ListOK(r)'
<1> USE DEF ListInv, Typed, TypeOK, ReaderTo, fvVars, ListOK, Index
<1>1. /\ Len(tasks[r]) \in Nat /\ i[r] \in Nat /\ i[r] >= 1 /\ tasks[r] \in Seq(FlowVars)
      /\ ListOK(r) /\ (tasks[r] # << >> => Len(tasks[r]) >= 1)
  <2> DEFINE t == tasks[r]
  <2>1. t \in Seq(FlowVars) /\ i[r] \in Nat /\ i[r] >= 1 /\ ListOK(r)
    OBVIOUS
  <2> HIDE DEF t
  <2>2. Len(t) \in Nat
    BY <2>1, LenProperties
  <2>3. t # << >> => Len(t) # 0
    BY <2>1, EmptySeq
  <2>4. t # << >> => Len(t) >= 1
    BY <2>2, <2>3
  <2> QED BY <2>1, <2>2, <2>4 DEF t
<1>2. CASE CallAny(r)
  BY <1>1, <1>2 DEF CallAny
<1>3. CASE Claim(r)
  BY <1>1, <1>3 DEF Claim
<1>4. CASE Conflict(r)
  BY <1>1, <1>4 DEF Conflict, AfterLoop, Last
<1>5. CASE Attach(r)
  BY <1>1, <1>5 DEF Attach, AfterLoop, Last
<1>6. CASE AttachReady(r) \/ AttachDestroyed(r)
  <2>1. CASE AttachReady(r)
    <3>1. rpc[r] = "attach" /\ rpc' = [rpc EXCEPT ![r] = "detach"] /\ i'[r] = 1 /\ tasks' = tasks
      BY <2>1 DEF AttachReady
    <3>2. rpc'[r] = "detach" /\ i[r] <= Len(tasks[r])
      BY <3>1, <1>1
    <3>3. 1 <= Len(tasks[r])
      BY <3>2, <1>1
    <3> QED BY <3>1, <3>2, <3>3, <1>1
  <2>2. CASE AttachDestroyed(r)
    <3>1. rpc'[r] = "usedDestroyed" /\ tasks' = tasks
      BY <2>2 DEF AttachDestroyed
    <3> QED BY <3>1, <1>1
  <2> QED BY <1>6, <2>1, <2>2
<1>7. CASE WaitAny(r)
  BY <1>1, <1>7 DEF WaitAny
<1>8. CASE Detach(r)
  <2>1. tasks' = tasks /\ rpc[r] = "detach" /\ i' = [i EXCEPT ![r] = @ + 1]
    BY <1>8 DEF Detach
  <2>2. rpc'[r] = IF i[r] = Len(tasks[r]) THEN "destroy" ELSE "detach"
    BY <1>8 DEF Detach, Last
  <2>3. i'[r] = i[r] + 1 /\ i[r] <= Len(tasks[r])
    BY <2>1, <1>1
  <2>4. rpc'[r] = "detach" => i'[r] <= Len(tasks[r])
    BY <2>2, <2>3, <1>1
  <2>5. rpc'[r] \in {"detach", "destroy"}
    BY <2>2
  <2> QED BY <2>1, <2>4, <2>5, <1>1
<1>9. CASE ReturnAny(r)
  BY <1>1, <1>9 DEF ReturnAny
<1>10. CASE CallRead(r)
  BY <1>1, <1>10 DEF CallRead
<1>11. CASE Read(r)
  BY <1>1, <1>11 DEF Read
<1>12. CASE SetAwaited(r) \/ Await(r) \/ Sleep(r) \/ AwaitDestroyed(r) \/ DestroyCv(r)
  <2>1. /\ rpc[r] \in {"setAwaited", "await", "destroyCv"} /\ UNCHANGED <<tasks, result>>
        /\ rpc'[r] \in {"await", "asleep", "usedDestroyed", "destroyCv", "value"}
    BY <1>12 DEF SetAwaited, Await, Sleep, AwaitDestroyed, DestroyCv
  <2>2. tasks'[r] = tasks[r] /\ Index(r) \in 1 .. Len(tasks[r]) /\ Index(r)' = Index(r)
    BY <2>1, <1>1
  <2>3. \A j \in 1 .. Len(tasks[r]) : \E m \in 1 .. Len(Tasks[r]) : tasks[r][j] = Tasks[r][m]
    BY <1>1
  <2> HIDE DEF ListInv, Typed, TypeOK, Index
  <2> QED BY <2>1, <2>2, <2>3
<1>14. CASE SleepAny(r)
  BY <1>1, <1>14 DEF SleepAny
<1>15. CASE ReadIdx(r)
  BY <1>1, <1>15 DEF ReadIdx
<1>13. CASE TakeValue(r)
  <2>1. CASE tasks' = tasks /\ rpc' = [rpc EXCEPT ![r] = "asserted"]
    BY <2>1, <1>1, <1>13 DEF TakeValue
  <2>2. CASE /\ tasks' = [tasks EXCEPT ![r] = Deleted(tasks[r], Index(r))]
             /\ result' = [result EXCEPT ![r] = -1]
             /\ rpc' = [rpc EXCEPT ![r] = "idle"]
    <3> DEFINE t == tasks[r]
               rest == Deleted(t, Index(r))
    <3>1. t \in Seq(FlowVars) /\ \A j \in 1 .. Len(t) : \E m \in 1 .. Len(Tasks[r]) : t[j] = Tasks[r][m]
      BY <1>1
    <3>2. \A j \in 1 .. Len(rest) : \E m \in 1 .. Len(t) : rest[j] = t[m]
      BY <3>1, DeletedOK
    <3> HIDE DEF t, rest
    <3>3. ASSUME NEW j \in 1 .. Len(rest)
          PROVE  \E m \in 1 .. Len(Tasks[r]) : rest[j] = Tasks[r][m]
      <4>1. PICK n \in 1 .. Len(t) : rest[j] = t[n]
        BY <3>2
      <4>2. PICK m \in 1 .. Len(Tasks[r]) : t[n] = Tasks[r][m]
        BY <3>1
      <4> QED BY <4>1, <4>2
    <3>4. tasks'[r] = rest /\ rpc'[r] = "idle" /\ result'[r] = -1
      BY <2>2 DEF t, rest
    <3> QED BY <3>3, <3>4
  <2> QED BY <2>1, <2>2, <1>13 DEF TakeValue
<1> QED
  BY <1>2, <1>3, <1>4, <1>5, <1>6, <1>7, <1>8, <1>9, <1>10, <1>11, <1>12, <1>13, <1>14,
     <1>15 DEF ReaderStep

LEMMA ListStep == ASSUME ListInv, [Next]_vars PROVE ListInv'
<1>1. Typed'
  BY TypedStep DEF ListInv
<1>2. ASSUME NEW q \in Readers PROVE ListOK(q)'
  <2>1. CASE UNCHANGED vars
    BY <2>1, ListKept DEF ListInv, Left, vars, rdVars
  <2>2. ASSUME NEW f \in FlowVars, WorkerStep(f) PROVE ListOK(q)'
    BY <2>2, WorkersLeaveReaders, ListKept DEF ListInv
  <2>5. ASSUME NEW r \in Readers, SpuriousWakeup(r) PROVE ListOK(q)'
    BY <2>5, WakingLeavesReaders, ListKept DEF ListInv
  <2>3. ASSUME NEW r \in Readers, ReaderStep(r), r = q PROVE ListOK(q)'
    BY <2>3, ReaderList
  <2>4. ASSUME NEW r \in Readers, ReaderStep(r), r # q PROVE ListOK(q)'
    BY <2>4, ReadersLeaveReaders, ListKept DEF ListInv
  <2> QED BY <2>1, <2>2, <2>3, <2>4, <2>5 DEF Next
<1> QED BY <1>1, <1>2 DEF ListInv

LEMMA ListInit == Init => ListInv
BY TypedInit DEF Init, ListInv, ListOK

(* ----------------------- Where an AwaitInfo is known ------------------- *)

\* A flow variable that points to the AwaitInfo of r is one r waits for: one it
\* has claimed already, and not yet detached.  While every variable so far
\* belonged to somebody else, none points to it; so r leaves blockUntilAny
\* without detaching only when there is nothing to detach.
AiOK(r) ==
  /\ \A f \in FlowVars : ai[f] = r =>
       /\ rpc[r] \in {"claim", "attach", "wait", "asleepAny", "readIdx", "detach",
                     "usedDestroyed"}
       /\ \E j \in 1 .. Len(tasks[r]) :
            /\ tasks[r][j] = f
            /\ rpc[r] = "claim" => j < i[r]
            /\ rpc[r] = "attach" => j <= i[r]
            /\ rpc[r] = "detach" => j >= i[r]
  /\ rpc[r] \in {"claim", "attach"} => conflicts[r] < i[r]
  /\ rpc[r] = "claim" /\ conflicts[r] = i[r] - 1 => \A f \in FlowVars : ai[f] # r

AiInv == ListInv /\ \A r \in Readers : AiOK(r)

LEMMA AiKept ==
  ASSUME NEW q \in Readers, AiOK(q), Left(q),
         \A f \in FlowVars : ai'[f] = q => ai[f] = q
  PROVE  AiOK(q)'
BY DEF AiOK, Left

LEMMA ReadersLeaveOthersAi ==
  ASSUME Typed, NEW r \in Readers, ReaderStep(r), NEW q \in Readers, q # r
  PROVE  \A f \in FlowVars : ai'[f] = q => ai[f] = q
<1> USE FlowVarAssumption DEF Typed, TypeOK, fvVars
<1>1. CASE Claim(r)
  BY <1>1 DEF Claim
<1>2. CASE Detach(r)
  BY <1>2 DEF Detach
<1>3. CASE ai' = ai
  BY <1>3
<1>4. \/ Claim(r) \/ Detach(r) \/ ai' = ai
  BY DEF ReaderStep, CallAny, Conflict, CallRead, Attach, AttachReady, AttachDestroyed,
     WaitAny, SleepAny, ReadIdx, ReturnAny, Read, SetAwaited, Await, Sleep, AwaitDestroyed,
     DestroyCv, TakeValue
<1> QED BY <1>1, <1>2, <1>3, <1>4

LEMMA ReaderAi ==
  ASSUME AiInv, NEW r \in Readers, ReaderStep(r) PROVE AiOK(r)'
<1> DEFINE n == Len(tasks[r])
<1>1. /\ Typed /\ ListOK(r) /\ AiOK(r) /\ n \in Nat /\ i[r] \in Nat /\ i[r] >= 1
      /\ conflicts[r] \in Nat
  BY LenProperties DEF AiInv, ListInv, Typed, TypeOK
<1> HIDE DEF n
<1> USE DEF ReaderTo
<1>2. CASE CallAny(r)
  <2>1. /\ rpc[r] = "idle" /\ rpc'[r] = "claim" /\ i'[r] = 1 /\ conflicts'[r] = 0
        /\ ai' = ai /\ tasks' = tasks
    BY <1>1, <1>2 DEF CallAny, fvVars, Typed, TypeOK
  <2>2. \A f \in FlowVars : ai[f] # r
    BY <1>1, <2>1 DEF AiOK
  <2> QED BY <2>1, <2>2 DEF AiOK
<1>3. CASE Claim(r)
  <2>1. /\ rpc[r] = "claim" /\ rpc'[r] = "attach" /\ ai[Fv(r)] = Nil
        /\ ai' = [ai EXCEPT ![Fv(r)] = r]
        /\ i' = i /\ conflicts' = conflicts /\ tasks' = tasks
    BY <1>1, <1>3 DEF Claim, Typed, TypeOK
  <2>2. i[r] \in 1 .. n
    BY <1>1, <2>1 DEF ListOK, n
  <2>3. ASSUME NEW f \in FlowVars, ai'[f] = r
        PROVE  \E j \in 1 .. n : tasks[r][j] = f /\ j <= i[r]
    <3>1. CASE f = Fv(r)
      BY <3>1, <2>2 DEF Fv
    <3>2. CASE f # Fv(r)
      <4>1. ai[f] = r
        BY <3>2, <2>1, <2>3, <1>1 DEF Typed, TypeOK
      <4>2. PICK j \in 1 .. n : tasks[r][j] = f /\ j < i[r]
        BY <4>1, <1>1, <2>1 DEF AiOK, n
      <4> QED BY <4>2, <1>1
    <3> QED BY <3>1, <3>2
  <2>4. conflicts[r] < i[r]
    BY <1>1, <2>1 DEF AiOK
  <2> QED BY <2>1, <2>3, <2>4 DEF AiOK, n
<1>4. CASE Conflict(r)
  <2>1. /\ rpc[r] = "claim" /\ ai' = ai /\ tasks' = tasks
        /\ rpc'[r] = IF Last(r) THEN AfterLoop(r, conflicts[r] + 1) ELSE "claim"
        /\ i'[r] = i[r] + 1 /\ conflicts'[r] = conflicts[r] + 1
    BY <1>1, <1>4 DEF Conflict, fvVars, Typed, TypeOK
  <2>2. /\ conflicts[r] < i[r] /\ (conflicts[r] = i[r] - 1 => \A f \in FlowVars : ai[f] # r)
        /\ \A f \in FlowVars : ai[f] = r => \E j \in 1 .. n : tasks[r][j] = f /\ j < i[r]
    BY <1>1, <2>1 DEF AiOK, n
  <2>3. \A f \in FlowVars : ai[f] = r => \E j \in 1 .. n : tasks[r][j] = f /\ j < i[r] + 1
    <3>1. \A j \in 1 .. n : j < i[r] => j < i[r] + 1
      BY <1>1
    <3> QED BY <2>2, <3>1
  <2>4. conflicts'[r] < i'[r] /\ (conflicts'[r] = i'[r] - 1 => \A f \in FlowVars : ai'[f] # r)
    BY <1>1, <2>1, <2>2
  <2>5. CASE rpc'[r] = "claim"
    BY <2>1, <2>3, <2>4, <2>5 DEF AiOK, n
  <2>6. CASE rpc'[r] = "wait"
    BY <2>1, <2>2, <2>6 DEF AiOK, n
  <2>7. CASE rpc'[r] = "destroy" /\ Last(r) /\ ~(conflicts[r] + 1 < n)
    <3>1. conflicts[r] = i[r] - 1
      BY <2>7, <2>2, <1>1 DEF Last, n
    <3> QED BY <2>1, <2>2, <2>7, <3>1 DEF AiOK
  <2> QED BY <2>1, <2>5, <2>6, <2>7 DEF AfterLoop, n
<1>5. CASE Attach(r)
  <2>1. /\ rpc[r] = "attach" /\ ai' = ai /\ tasks' = tasks
        /\ rpc'[r] = IF Last(r) THEN AfterLoop(r, conflicts[r]) ELSE "claim"
        /\ i'[r] = i[r] + 1 /\ conflicts'[r] = conflicts[r]
    BY <1>1, <1>5 DEF Attach, Typed, TypeOK
  <2>2. /\ conflicts[r] < i[r]
        /\ \A f \in FlowVars : ai[f] = r => \E j \in 1 .. n : tasks[r][j] = f /\ j <= i[r]
    BY <1>1, <2>1 DEF AiOK, n
  <2>3. \A f \in FlowVars : ai[f] = r => \E j \in 1 .. n : tasks[r][j] = f /\ j < i[r] + 1
    <3>1. \A j \in 1 .. n : j <= i[r] => j < i[r] + 1
      BY <1>1
    <3> QED BY <2>2, <3>1
  <2>4. conflicts'[r] < i'[r] /\ conflicts'[r] # i'[r] - 1
    BY <1>1, <2>1, <2>2
  <2>5. CASE rpc'[r] = "claim"
    BY <2>1, <2>3, <2>4, <2>5 DEF AiOK, n
  <2>6. CASE rpc'[r] = "wait"
    BY <2>1, <2>2, <2>6 DEF AiOK, n
  <2>7. Last(r) => AfterLoop(r, conflicts[r]) = "wait"
    BY <2>2, <1>1 DEF Last, AfterLoop, n
  <2> QED BY <2>1, <2>5, <2>6, <2>7
<1>6. CASE AttachReady(r)
  <2>1. /\ rpc[r] = "attach" /\ rpc'[r] = "detach" /\ ai' = ai /\ tasks' = tasks /\ i'[r] = 1
    BY <1>1, <1>6 DEF AttachReady, fvVars, Typed, TypeOK
  <2>2. \A f \in FlowVars : ai[f] = r => \E j \in 1 .. n : tasks[r][j] = f /\ j >= 1
    BY <1>1, <2>1 DEF AiOK, n
  <2> QED BY <2>1, <2>2 DEF AiOK, n
<1>7. CASE AttachDestroyed(r)
  <2>1. rpc[r] = "attach" /\ rpc'[r] = "usedDestroyed" /\ ai' = ai /\ tasks' = tasks
    BY <1>1, <1>7 DEF AttachDestroyed, fvVars, Typed, TypeOK
  <2> QED BY <1>1, <2>1 DEF AiOK
<1>8. CASE WaitAny(r) \/ SleepAny(r)
  <2>1. /\ rpc[r] = "wait" /\ rpc'[r] \in {"readIdx", "asleepAny"}
        /\ UNCHANGED <<ai, tasks, i, conflicts>>
    BY <1>1, <1>8 DEF WaitAny, SleepAny, fvVars, Typed, TypeOK
  <2> QED BY <1>1, <2>1 DEF AiOK
<1>11. CASE ReadIdx(r)
  <2>1. /\ rpc[r] = "readIdx" /\ rpc'[r] = "detach" /\ ai' = ai /\ tasks' = tasks /\ i'[r] = 1
    BY <1>1, <1>11 DEF ReadIdx, fvVars, Typed, TypeOK
  <2>2. \A f \in FlowVars : ai[f] = r => \E j \in 1 .. n : tasks[r][j] = f /\ j >= 1
    BY <1>1, <2>1 DEF AiOK, n
  <2> QED BY <2>1, <2>2 DEF AiOK, n
<1>9. CASE Detach(r)
  <2>1. /\ rpc[r] = "detach" /\ tasks' = tasks /\ i'[r] = i[r] + 1
        /\ ai' = [ai EXCEPT ![Fv(r)] = IF ai[Fv(r)] = r THEN Nil ELSE ai[Fv(r)]]
        /\ rpc'[r] = IF Last(r) THEN "destroy" ELSE "detach"
    BY <1>1, <1>9 DEF Detach, Typed, TypeOK
  <2>2. ASSUME NEW f \in FlowVars, ai'[f] = r
        PROVE  ~Last(r) /\ \E j \in 1 .. n : tasks[r][j] = f /\ j >= i[r] + 1
    <3>1. ai[f] = r /\ f # Fv(r)
      BY <2>1, <2>2, <1>1, FlowVarAssumption DEF Typed, TypeOK
    <3>2. PICK j \in 1 .. n : tasks[r][j] = f /\ j >= i[r]
      BY <3>1, <2>1, <1>1 DEF AiOK, n
    <3>3. j # i[r]
      BY <3>1, <3>2 DEF Fv
    <3>4. j >= i[r] + 1 /\ i[r] # n
      BY <3>2, <3>3, <1>1
    <3> QED BY <3>2, <3>4 DEF Last, n
  <2> QED BY <2>1, <2>2 DEF AiOK, n
<1>10. CASE \/ ReturnAny(r) \/ CallRead(r) \/ Read(r) \/ SetAwaited(r) \/ Await(r)
            \/ Sleep(r) \/ AwaitDestroyed(r) \/ DestroyCv(r) \/ TakeValue(r)
  <2>1. /\ rpc[r] \in {"destroy", "idle", "read", "setAwaited", "await", "destroyCv", "value"}
        /\ rpc'[r] \notin {"claim", "attach"} /\ ai' = ai
    BY <1>1, <1>10 DEF ReturnAny, CallRead, Read, SetAwaited, Await, Sleep, AwaitDestroyed,
       DestroyCv, TakeValue, fvVars, Typed, TypeOK
  <2>2. \A f \in FlowVars : ai[f] # r
    BY <1>1, <2>1 DEF AiOK
  <2> QED BY <2>1, <2>2 DEF AiOK
<1> QED
  BY <1>2, <1>3, <1>4, <1>5, <1>6, <1>7, <1>8, <1>9, <1>10, <1>11 DEF ReaderStep

LEMMA AiStep == ASSUME AiInv, [Next]_vars PROVE AiInv'
<1>1. ListInv'
  BY ListStep DEF AiInv
<1>2. ASSUME NEW q \in Readers PROVE AiOK(q)'
  <2>1. CASE UNCHANGED vars
    BY <2>1, AiKept DEF AiInv, Left, vars, rdVars, fvVars
  <2>2. ASSUME NEW f \in FlowVars, WorkerStep(f) PROVE AiOK(q)'
    BY <2>2, WorkersLeaveReaders, AiKept DEF AiInv, ListInv
  <2>5. ASSUME NEW r \in Readers, SpuriousWakeup(r) PROVE AiOK(q)'
    BY <2>5, WakingLeavesReaders, AiKept DEF AiInv, ListInv, fvVars
  <2>3. ASSUME NEW r \in Readers, ReaderStep(r), r = q PROVE AiOK(q)'
    BY <2>3, ReaderAi
  <2>4. ASSUME NEW r \in Readers, ReaderStep(r), r # q PROVE AiOK(q)'
    BY <2>4, ReadersLeaveReaders, ReadersLeaveOthersAi, AiKept DEF AiInv, ListInv
  <2> QED BY <2>1, <2>2, <2>3, <2>4, <2>5 DEF Next
<1> QED BY <1>1, <1>2 DEF AiInv

LEMMA AiInit == Init => AiInv
BY ListInit, FlowVarAssumption DEF Init, AiInv, AiOK

LEMMA AiAlways == Spec => []AiInv
BY AiInit, AiStep, PTL DEF Spec

\* The values range where TypeOK says; in particular blockUntil never takes a
\* semaphore below zero.
THEOREM TypeCorrect == Spec => []TypeOK
<1>1. AiInv => TypeOK
  BY DEF AiInv, ListInv, Typed
<1> QED BY <1>1, AiAlways, PTL

\* Outside blockUntilAny no flow variable points into the stack of its caller,
\* however many variables were claimed, lost to others or ready at once.
THEOREM AwaitInfoIsDetached == Spec => []NoDanglingAwaitInfo
<1>1. AiInv => NoDanglingAwaitInfo
  BY DEF AiInv, AiOK, NoDanglingAwaitInfo, InAny
<1> QED BY <1>1, AiAlways, PTL

(* ------------------------- The values a reader sees -------------------- *)

\* Chosen is a variable of the reader's own list, as long as it looks at it.
AtChosen == {"read", "setAwaited", "await", "asleep", "destroyCv", "value", "asserted"}

Wants(r, f) == \E j \in DOMAIN Tasks[r] : Tasks[r][j] = f

LEMMA TasksWanted ==
  ASSUME ListInv, NEW r \in Readers, NEW j \in 1 .. Len(tasks[r])
  PROVE  Wants(r, tasks[r][j])
<1>1. PICK m \in 1 .. Len(Tasks[r]) : tasks[r][j] = Tasks[r][m]
  BY DEF ListInv, ListOK
<1>2. DOMAIN Tasks[r] = 1 .. Len(Tasks[r])
  BY FlowVarAssumption, LenProperties
<1> QED BY <1>1, <1>2 DEF Wants

LEMMA ChosenWanted ==
  ASSUME ListInv, NEW r \in Readers, rpc[r] \in AtChosen
  PROVE  Chosen(r) \in FlowVars /\ Wants(r, Chosen(r))
<1> DEFINE t == tasks[r]
<1>1. Index(r) \in 1 .. Len(t) /\ t \in Seq(FlowVars) /\ Chosen(r) = t[Index(r)]
  BY DEF ListInv, ListOK, AtChosen, Index, Chosen, Typed, TypeOK
<1>2. Wants(r, t[Index(r)])
  BY <1>1, TasksWanted
<1> HIDE DEF t
<1>3. t[Index(r)] \in FlowVars
  BY <1>1, ElementOfSeq
<1> QED BY <1>1, <1>2, <1>3

LEMMA WantedByTwo ==
  ASSUME NEW r \in Readers, NEW q \in Readers, r # q, NEW f, Wants(r, f), Wants(q, f)
  PROVE  Shared(f)
BY DEF Wants, Shared

\* A worker announces what it has stored; the semaphore is destroyed by one who
\* has seen the announcement; whoever passes blockUntil has seen the
\* announcement, and whoever does not wait because the variable has been awaited
\* reads what the one who waited has got, or is its second reader.
ValueOK(f) ==
  /\ wpc[f] # "compute" => value[f]
  /\ count[f] > 0 => value[f]
  /\ ~cvLive[f] => value[f]
  /\ awaited[f] => \/ value[f]
                   \/ Shared(f)
                   \/ \E r \in Readers : rpc[r] \in {"await", "asleep"} /\ Chosen(r) = f

SeenOK(r) ==
  /\ rpc[r] = "destroyCv" => value[Chosen(r)]
  /\ rpc[r] = "value" => value[Chosen(r)] \/ Shared(Chosen(r))
  /\ rpc[r] = "asserted" => Shared(Chosen(r))

FlowInv == /\ AiInv
           /\ \A f \in FlowVars : ValueOK(f)
           /\ \A r \in Readers : SeenOK(r)

\* A reader that takes no step of its own goes on looking at the same variable.
LEMMA SameChosen ==
  ASSUME NEW q \in Readers, Left(q) PROVE Chosen(q)' = Chosen(q)
BY DEF Left, Chosen, Index

\* A reader that is at most woken still sees what it saw, and still waits.
LEMMA SeenKept ==
  ASSUME NEW q \in Readers, Left(q), SeenOK(q),
         rpc[q] \in AtChosen /\ value[Chosen(q)] => value'[Chosen(q)]
  PROVE  SeenOK(q)' /\ (rpc[q] \in {"await", "asleep"} => rpc'[q] \in {"await", "asleep"})
<1>1. /\ Chosen(q)' = Chosen(q) /\ Shared(Chosen(q))' = Shared(Chosen(q))
      /\ value[Chosen(q)]' = value'[Chosen(q)]
  BY SameChosen DEF Shared
<1>2. rpc'[q] \in {"destroyCv", "value", "asserted"} => rpc[q] = rpc'[q]
  BY DEF Left
<1> QED BY <1>1, <1>2 DEF SeenOK, AtChosen, Left

\* ... so what is known of a variable survives every step that takes nothing from
\* it but perhaps the counter, and puts nothing there but what has been stored.
LEMMA ValueKept ==
  ASSUME NEW f \in FlowVars, ValueOK(f), value[f] => value'[f],
         wpc'[f] # "compute" => value'[f], count'[f] > 0 => value'[f],
         ~cvLive'[f] => value'[f],
         awaited'[f] => awaited[f],
         \A q \in Readers : rpc[q] \in {"await", "asleep"} /\ Chosen(q) = f =>
                              rpc'[q] \in {"await", "asleep"} /\ Chosen(q)' = f
  PROVE  ValueOK(f)'
<1>1. Shared(f)' = Shared(f)
  BY DEF Shared
<1> QED BY <1>1 DEF ValueOK

LEMMA WorkerFlow ==
  ASSUME FlowInv, NEW f \in FlowVars, WorkerStep(f)
  PROVE  /\ \A g \in FlowVars : ValueOK(g)'
         /\ \A r \in Readers : SeenOK(r)'
<1>1. /\ Typed /\ \A g \in FlowVars : ValueOK(g)
      /\ \A r \in Readers : SeenOK(r)
  BY DEF FlowInv, AiInv, ListInv
<1>2. UNCHANGED <<awaited, cvLive>> /\ \A r \in Readers : Left(r)
  BY <1>1, WorkersLeaveReaders
<1>3. /\ \A g \in FlowVars : value[g] => value'[g]
      /\ \A g \in FlowVars : wpc'[g] # "compute" => value'[g]
      /\ \A g \in FlowVars : count'[g] > 0 => value'[g]
  <2> USE <1>1 DEF Typed, TypeOK, WorkerTo, ValueOK
  <2>1. CASE Compute(f)
    BY <2>1 DEF Compute
  <2>2. CASE Count(f)
    <3>1. value[f]
      BY <2>2 DEF Count
    <3> QED BY <2>2, <3>1 DEF Count
  <2>3. CASE ~Compute(f) /\ ~Count(f)
    <3>1. /\ UNCHANGED <<value, count>> /\ wpc[f] # "compute"
          /\ \E l : wpc' = [wpc EXCEPT ![f] = l]
      <4>1. CASE TestAi(f) \/ ReadAi(f) \/ LockAi(f) \/ SetIdx(f) \/ CountAi(f)
        BY <4>1 DEF TestAi, ReadAi, LockAi, SetIdx, CountAi
      <4>2. CASE UnlockAi(f) \/ NotifyAi(f) \/ NilDeref(f) \/ Notify(f)
        BY <4>2 DEF UnlockAi, NotifyAi, NilDeref, Notify
      <4> QED BY <2>3, <4>1, <4>2 DEF WorkerStep
    <3> QED BY <3>1
  <2> QED BY <2>1, <2>2, <2>3
<1>4. ASSUME NEW r \in Readers
      PROVE  SeenOK(r)' /\ (rpc[r] \in {"await", "asleep"} => rpc'[r] \in {"await", "asleep"})
  <2>1. rpc[r] \in AtChosen => Chosen(r) \in FlowVars
    BY ChosenWanted DEF FlowInv, AiInv
  <2> QED BY <1>1, <1>2, <1>3, <2>1, SeenKept
<1>5. ASSUME NEW g \in FlowVars PROVE ValueOK(g)'
  <2>1. ~cvLive'[g] => value'[g]
    BY <1>1, <1>2, <1>3 DEF ValueOK
  <2> QED BY <1>1, <1>2, <1>3, <1>4, <2>1, SameChosen, ValueKept
<1> QED BY <1>4, <1>5

LEMMA WakingFlow ==
  ASSUME FlowInv, NEW r \in Readers, SpuriousWakeup(r)
  PROVE  /\ \A f \in FlowVars : ValueOK(f)'
         /\ \A q \in Readers : SeenOK(q)'
<1>1. /\ UNCHANGED <<value, wpc, count, awaited, cvLive>> /\ \A q \in Readers : Left(q)
      /\ \A f \in FlowVars : ValueOK(f)
      /\ \A q \in Readers : SeenOK(q)
  BY WakingLeavesReaders DEF FlowInv, AiInv, ListInv, fvVars
<1>2. \A q \in Readers : /\ SeenOK(q)'
                         /\ rpc[q] \in {"await", "asleep"} => rpc'[q] \in {"await", "asleep"}
  BY <1>1, SeenKept
<1>3. ASSUME NEW f \in FlowVars PROVE ValueOK(f)'
  <2>1. /\ wpc'[f] # "compute" => value'[f]
        /\ count'[f] > 0 => value'[f]
        /\ ~cvLive'[f] => value'[f]
    BY <1>1 DEF ValueOK
  <2> QED BY <1>1, <1>2, <2>1, SameChosen, ValueKept
<1> QED BY <1>2, <1>3

LEMMA ReaderFlow ==
  ASSUME FlowInv, NEW r \in Readers, ReaderStep(r)
  PROVE  /\ \A f \in FlowVars : ValueOK(f)'
         /\ \A q \in Readers : SeenOK(q)'
<1>1. /\ Typed /\ ListInv /\ AiInv /\ \A f \in FlowVars : ValueOK(f)
      /\ \A q \in Readers : SeenOK(q)
  BY DEF FlowInv, AiInv, ListInv
<1>2. value' = value /\ wpc' = wpc
  BY ReadersLeaveValues
<1>3. \A q \in Readers : q # r => Left(q) /\ rpc'[q] = rpc[q] /\ Chosen(q)' = Chosen(q)
  BY <1>1, ReadersLeaveReaders, SameChosen
<1>4. ASSUME NEW f PROVE Shared(f)' = Shared(f)
  BY DEF Shared
<1>5. ASSUME NEW q \in Readers, q # r PROVE SeenOK(q)'
  BY <1>1, <1>2, <1>3, <1>5, SeenKept
<1> DEFINE c == Chosen(r)
<1>12. ASSUME NEW f \in FlowVars, count'[f] = count[f], awaited'[f] => awaited[f],
              cvLive'[f] = cvLive[f] \/ value[f],
              rpc[r] \in {"await", "asleep"} /\ c = f =>
                rpc'[r] \in {"await", "asleep"} /\ Chosen(r)' = f
       PROVE  ValueOK(f)'
  <2>1. ValueOK(f) /\ value'[f] = value[f] /\ wpc'[f] = wpc[f]
    BY <1>1, <1>2
  <2>2. /\ wpc'[f] # "compute" => value'[f]
        /\ count'[f] > 0 => value'[f]
        /\ ~cvLive'[f] => value'[f]
    BY <2>1, <1>12 DEF ValueOK
  <2>3. \A q \in Readers : rpc[q] \in {"await", "asleep"} /\ Chosen(q) = f =>
                             rpc'[q] \in {"await", "asleep"} /\ Chosen(q)' = f
    BY <1>3, <1>12
  <2> QED BY <2>1, <2>2, <2>3, <1>12, ValueKept
<1>6. CASE UNCHANGED <<count, awaited, cvLive>> /\ rpc[r] \notin {"await", "asleep"} /\ SeenOK(r)'
  BY <1>5, <1>6, <1>12
<1>7. CASE Read(r)
  <2>1. /\ rpc[r] = "read" /\ UNCHANGED <<count, awaited, cvLive>>
        /\ rpc'[r] = IF awaited[c] THEN "value" ELSE "setAwaited"
        /\ Chosen(r)' = c
    BY <1>1, <1>7 DEF Read, ReaderTo, Typed, TypeOK, Chosen, Index, fvVars
  <2>2. c \in FlowVars /\ Wants(r, c)
    BY <1>1, <2>1, ChosenWanted DEF AtChosen
  <2>3. awaited[c] => value[c] \/ Shared(c)
    <3>1. ASSUME NEW q \in Readers, rpc[q] \in {"await", "asleep"}, Chosen(q) = c
          PROVE  Shared(c)
      <4>1. q # r /\ Wants(q, c)
        BY <2>1, <3>1, <1>1, ChosenWanted DEF AtChosen
      <4> QED BY <4>1, <2>2, WantedByTwo
    <3>2. awaited[c] => \/ value[c] \/ Shared(c)
                        \/ \E q \in Readers : rpc[q] \in {"await", "asleep"} /\ Chosen(q) = c
      BY <1>1, <2>2 DEF ValueOK
    <3> QED BY <3>1, <3>2
  <2> HIDE DEF c
  <2>4. Shared(Chosen(r))' = Shared(c) /\ value[Chosen(r)]' = value[c]
    BY <2>1, <1>2 DEF Shared
  <2>5. SeenOK(r)'
    BY <2>1, <2>3, <2>4 DEF SeenOK
  <2> QED BY <2>1, <2>5, <1>6
<1>8. CASE SetAwaited(r)
  <2>1. /\ rpc[r] = "setAwaited" /\ awaited' = [awaited EXCEPT ![c] = TRUE]
        /\ UNCHANGED <<count, cvLive>> /\ rpc'[r] = "await" /\ Chosen(r)' = c
    BY <1>1, <1>8 DEF SetAwaited, ReaderTo, Typed, TypeOK, Chosen, Index
  <2>2. c \in FlowVars
    BY <1>1, <2>1, ChosenWanted DEF AtChosen
  <2> HIDE DEF c
  <2>3. SeenOK(r)'
    BY <2>1 DEF SeenOK
  <2>4. ASSUME NEW f \in FlowVars PROVE ValueOK(f)'
    <3>1. CASE f # c
      <4>1. awaited'[f] = awaited[f] /\ count'[f] = count[f]
        BY <2>1, <3>1, <1>1 DEF Typed, TypeOK
      <4> QED BY <4>1, <2>1, <1>12
    <3>2. CASE f = c
      <4>1. /\ wpc'[f] # "compute" => value'[f]
            /\ count'[f] > 0 => value'[f]
            /\ ~cvLive'[f] => value'[f]
        BY <1>1, <1>2, <2>1 DEF ValueOK
      <4>2. rpc'[r] \in {"await", "asleep"} /\ Chosen(r)' = f
        BY <2>1, <3>2
      <4> QED BY <4>1, <4>2 DEF ValueOK
    <3> QED BY <3>1, <3>2
  <2> QED BY <2>3, <2>4, <1>5
<1>9. CASE Await(r)
  <2>1. /\ rpc[r] = "await" /\ awaited' = awaited /\ count[c] > 0
        /\ count' = [count EXCEPT ![c] = count[c] - 1]
        /\ rpc'[r] = "destroyCv" /\ Chosen(r)' = c /\ cvLive' = cvLive
    BY <1>1, <1>9 DEF Await, ReaderTo, Typed, TypeOK, Chosen, Index
  <2>2. c \in FlowVars
    BY <1>1, <2>1, ChosenWanted DEF AtChosen
  <2>3. value[c]
    BY <1>1, <2>1, <2>2 DEF ValueOK
  <2> HIDE DEF c
  <2>4. SeenOK(r)'
    BY <2>1, <2>3, <1>2 DEF SeenOK
  <2>5. ASSUME NEW f \in FlowVars PROVE ValueOK(f)'
    <3>1. CASE f = c
      BY <3>1, <2>3, <1>2 DEF ValueOK
    <3>2. CASE f # c
      <4>1. count'[f] = count[f] /\ awaited'[f] = awaited[f]
        BY <3>2, <2>1, <2>2, <1>1 DEF Typed, TypeOK
      <4>2. c # f /\ cvLive'[f] = cvLive[f]
        BY <3>2, <2>1
      <4> QED BY <4>1, <4>2, <1>12
    <3> QED BY <3>1, <3>2
  <2> QED BY <2>4, <2>5, <1>5
<1>10. CASE Sleep(r) \/ AwaitDestroyed(r)
  <2>1. /\ UNCHANGED <<count, awaited, cvLive>> /\ Chosen(r)' = c /\ rpc[r] = "await"
        /\ \/ rpc'[r] = "asleep"
           \/ rpc'[r] = "usedDestroyed" /\ ~cvLive[c]
    BY <1>1, <1>10 DEF Sleep, AwaitDestroyed, ReaderTo, Typed, TypeOK, Chosen, Index, fvVars
  <2>2. c \in FlowVars
    BY <1>1, <2>1, ChosenWanted DEF AtChosen
  <2> HIDE DEF c
  <2>3. SeenOK(r)'
    BY <2>1 DEF SeenOK
  <2>4. CASE rpc'[r] = "asleep"
    BY <2>1, <2>3, <2>4, <1>5, <1>12 DEF c
  <2>5. CASE ~cvLive[c]
    <3>1. value[c]
      BY <2>2, <2>5, <1>1 DEF ValueOK
    <3>2. ASSUME NEW f \in FlowVars PROVE ValueOK(f)'
      <4>1. CASE f = c
        BY <4>1, <3>1, <1>2 DEF ValueOK
      <4>2. CASE f # c
        BY <2>1, <4>2, <1>12
      <4> QED BY <4>1, <4>2
    <3> QED BY <2>3, <3>2, <1>5
  <2> QED BY <2>1, <2>4, <2>5
<1>11. CASE DestroyCv(r)
  <2>1. /\ rpc[r] = "destroyCv" /\ rpc'[r] = "value" /\ Chosen(r)' = c
        /\ UNCHANGED <<count, awaited>> /\ cvLive' = [cvLive EXCEPT ![c] = FALSE]
    BY <1>1, <1>11 DEF DestroyCv, ReaderTo, Typed, TypeOK, Chosen, Index
  <2>2. value[c]
    BY <2>1, <1>1 DEF SeenOK
  <2> HIDE DEF c
  <2>3. SeenOK(r)'
    BY <2>1, <2>2, <1>2 DEF SeenOK
  <2>4. ASSUME NEW f \in FlowVars PROVE ValueOK(f)'
    <3>1. cvLive'[f] = cvLive[f] \/ value[f]
      BY <2>1, <2>2, <1>1 DEF Typed, TypeOK
    <3> QED BY <2>1, <3>1, <1>12
  <2> QED BY <2>3, <2>4, <1>5
<1>13. CASE TakeValue(r)
  <2>1. rpc[r] = "value" /\ UNCHANGED <<count, awaited, cvLive>>
    BY <1>13 DEF TakeValue, fvVars
  <2>2. CASE rpc'[r] = "idle"
    BY <2>1, <2>2, <1>6 DEF SeenOK
  <2>3. CASE rpc'[r] = "asserted" /\ ai[c] # Nil /\ Chosen(r)' = c
    <3>1. c \in FlowVars /\ Wants(r, c)
      BY <1>1, <2>1, ChosenWanted DEF AtChosen
    <3> DEFINE q == ai[c]
    <3>2. q \in Readers
      BY <3>1, <2>3, <1>1 DEF Typed, TypeOK
    <3>3. q # r /\ \E j \in 1 .. Len(tasks[q]) : tasks[q][j] = c
      BY <3>1, <3>2, <2>1, <1>1 DEF AiInv, AiOK
    <3>4. Wants(q, c)
      BY <3>2, <3>3, <1>1, TasksWanted
    <3>5. Shared(c)
      BY <3>1, <3>2, <3>3, <3>4, WantedByTwo
    <3>6. SeenOK(r)'
      BY <2>3, <3>5 DEF SeenOK, Shared
    <3> QED BY <2>1, <3>6, <1>6
  <2>4. \/ rpc'[r] = "idle"
        \/ rpc'[r] = "asserted" /\ ai[c] # Nil /\ Chosen(r)' = c
    BY <1>1, <1>13 DEF TakeValue, ReaderTo, Typed, TypeOK, Chosen, Index
  <2> QED BY <2>2, <2>3, <2>4
<1>14. CASE \/ CallAny(r) \/ Claim(r) \/ Conflict(r) \/ Attach(r) \/ AttachReady(r)
            \/ AttachDestroyed(r) \/ WaitAny(r) \/ SleepAny(r) \/ ReadIdx(r) \/ Detach(r)
            \/ ReturnAny(r) \/ CallRead(r)
  <2>1. /\ UNCHANGED <<count, awaited, cvLive>> /\ rpc[r] \notin {"await", "asleep"}
        /\ rpc'[r] \notin {"destroyCv", "value", "asserted"}
    <3> USE <1>1 DEF ReaderTo, fvVars, Typed, TypeOK
    <3>1. CASE CallAny(r) \/ Claim(r) \/ Conflict(r) \/ Attach(r)
      BY <3>1 DEF CallAny, Claim, Conflict, Attach, AfterLoop
    <3>2. CASE AttachReady(r) \/ AttachDestroyed(r) \/ WaitAny(r) \/ SleepAny(r)
      BY <3>2 DEF AttachReady, AttachDestroyed, WaitAny, SleepAny
    <3>3. CASE ReadIdx(r) \/ Detach(r) \/ ReturnAny(r) \/ CallRead(r)
      BY <3>3 DEF ReadIdx, Detach, ReturnAny, CallRead
    <3> QED BY <1>14, <3>1, <3>2, <3>3
  <2> QED BY <2>1, <1>6 DEF SeenOK
<1> QED BY <1>7, <1>8, <1>9, <1>10, <1>11, <1>13, <1>14 DEF ReaderStep

LEMMA FlowStep == ASSUME FlowInv, [Next]_vars PROVE FlowInv'
<1>1. AiInv'
  BY AiStep DEF FlowInv
<1>2. CASE UNCHANGED vars
  <2>1. /\ \A f \in FlowVars : ValueOK(f)'
        /\ \A r \in Readers : SeenOK(r)'
    BY <1>2 DEF FlowInv, ValueOK, SeenOK, Chosen, Index, Shared, vars, fvVars, rdVars
  <2> QED BY <1>1, <2>1 DEF FlowInv
<1>3. \/ \E f \in FlowVars : WorkerStep(f)
      \/ \E r \in Readers : ReaderStep(r) \/ SpuriousWakeup(r)
      \/ UNCHANGED vars
  BY DEF Next
<1> QED BY <1>1, <1>2, <1>3, WorkerFlow, ReaderFlow, WakingFlow DEF FlowInv

LEMMA FlowInit == Init => FlowInv
BY AiInit DEF Init, FlowInv, ValueOK, SeenOK

LEMMA FlowAlways == Spec => []FlowInv
BY FlowInit, FlowStep, PTL DEF Spec

\* finished's assertion can fail only for a variable that two readers wait for.
THEOREM ReadersFindNoAwaitInfo == Spec => []FinishedDetached
<1>1. FlowInv => FinishedDetached
  BY DEF FlowInv, SeenOK, FinishedDetached
<1> QED BY <1>1, FlowAlways, PTL

\* The only reader of a variable gets it computed, through `^` or blockUntilAny.
THEOREM ReadersGetTheValue == Spec => []ReadsValue
<1>1. FlowInv => ReadsValue
  BY DEF FlowInv, SeenOK, ReadsValue
<1> QED BY <1>1, FlowAlways, PTL

(* ---------------------- Readers that sleep are woken ------------------- *)

\* Where a worker has announced its value, and where it will do no more.
Announced == {"notify", "done", "usedDestroyed"}
Gone == {"done", "usedDestroyed"}

\* Nobody has taken the signal, or destroyed the semaphore, of a variable that is
\* not marked as awaited.
FreshOK(f) ==
  ~awaited[f] => cvLive[f] /\ (wpc[f] \in Announced => count[f] > 0)

\* Whoever is in blockUntil has marked its variable; its only reader finds there
\* what the worker has announced, and sleeps only while that is still to come.
SleepOK(r) ==
  /\ rpc[r] \in {"await", "asleep", "destroyCv"} => awaited[Chosen(r)]
  /\ rpc[r] = "setAwaited" => ~awaited[Chosen(r)] \/ Shared(Chosen(r))
  /\ rpc[r] \in {"await", "asleep"} /\ ~Shared(Chosen(r)) =>
       /\ cvLive[Chosen(r)]
       /\ wpc[Chosen(r)] \in Announced => count[Chosen(r)] > 0
  /\ rpc[r] = "asleep" /\ ~Shared(Chosen(r)) => wpc[Chosen(r)] \notin Gone

SleepInv == /\ FlowInv
            /\ \A f \in FlowVars : FreshOK(f)
            /\ \A r \in Readers : SleepOK(r)

\* Two readers at one variable share it.
LEMMA TwoAtChosen ==
  ASSUME ListInv, NEW r \in Readers, NEW q \in Readers, r # q,
         rpc[r] \in AtChosen, rpc[q] \in AtChosen, Chosen(r) = Chosen(q)
  PROVE  Shared(Chosen(r))
BY ChosenWanted, WantedByTwo

\* What another's step must leave to reader q at the variable it is looking at.
LEMMA SleepKept ==
  ASSUME NEW q \in Readers, Left(q), SleepOK(q), NEW f, f = Chosen(q),
         rpc[q] \in AtChosen =>
           /\ awaited[f] => awaited'[f]
           /\ ~Shared(f) =>
                /\ awaited'[f] = awaited[f] /\ cvLive'[f] = cvLive[f]
                /\ wpc'[f] \in Announced => (wpc[f] \in Announced /\ count'[f] = count[f]) \/ count'[f] > 0
                /\ rpc'[q] = "asleep" => (wpc[f] \in Gone \/ wpc'[f] \notin Gone)
  PROVE  SleepOK(q)'
<1>1. /\ Chosen(q)' = f /\ Shared(Chosen(q))' = Shared(f)
      /\ awaited[Chosen(q)]' = awaited'[f] /\ cvLive[Chosen(q)]' = cvLive'[f]
      /\ wpc[Chosen(q)]' = wpc'[f] /\ count[Chosen(q)]' = count'[f]
  BY SameChosen DEF Shared
<1>2. \/ rpc'[q] = rpc[q]
      \/ rpc[q] = "asleep" /\ rpc'[q] = "await"
      \/ rpc[q] = "asleepAny" /\ rpc'[q] = "wait"
  BY DEF Left
<1>3. /\ rpc[q] \in {"await", "asleep", "destroyCv"} => awaited[f]
      /\ rpc[q] = "setAwaited" => ~awaited[f] \/ Shared(f)
      /\ rpc[q] \in {"await", "asleep"} /\ ~Shared(f) =>
           cvLive[f] /\ (wpc[f] \in Announced => count[f] > 0)
      /\ rpc[q] = "asleep" /\ ~Shared(f) => wpc[f] \notin Gone
  BY DEF SleepOK
<1>4. /\ rpc'[q] \in {"await", "asleep", "destroyCv"} => awaited'[f]
      /\ rpc'[q] = "setAwaited" => ~awaited'[f] \/ Shared(f)
      /\ rpc'[q] \in {"await", "asleep"} /\ ~Shared(f) =>
           cvLive'[f] /\ (wpc'[f] \in Announced => count'[f] > 0)
      /\ rpc'[q] = "asleep" /\ ~Shared(f) => wpc'[f] \notin Gone
  BY <1>2, <1>3 DEF AtChosen
<1> QED BY <1>1, <1>4 DEF SleepOK

\* A worker's step makes a variable announced only with its counter positive, and
\* the worker is gone only after it has signalled.
LEMMA WorkerAnnounces ==
  ASSUME Typed, NEW f \in FlowVars, WorkerStep(f), NEW g \in FlowVars
  PROVE  /\ wpc'[g] \in Announced => (wpc[g] \in Announced /\ count'[g] = count[g]) \/ count'[g] > 0
         /\ wpc'[g] \in Gone => wpc[g] \in Gone \/ (g = f /\ Notify(f))
<1> USE DEF Typed, TypeOK, WorkerTo, Announced, Gone
<1>1. CASE Compute(f) \/ TestAi(f) \/ ReadAi(f) \/ LockAi(f) \/ SetIdx(f)
  BY <1>1 DEF Compute, TestAi, ReadAi, LockAi, SetIdx
<1>2. CASE CountAi(f) \/ UnlockAi(f) \/ NotifyAi(f) \/ NilDeref(f)
  BY <1>2 DEF CountAi, UnlockAi, NotifyAi, NilDeref
<1>3. CASE Count(f)
  BY <1>3 DEF Count
<1>4. CASE Notify(f)
  <2>1. /\ wpc[f] = "notify" /\ count' = count
        /\ \E l \in Gone : wpc' = [wpc EXCEPT ![f] = l]
    BY <1>4 DEF Notify
  <2> QED BY <2>1, <1>4
<1> QED BY <1>1, <1>2, <1>3, <1>4 DEF WorkerStep

LEMMA WorkerSleep ==
  ASSUME SleepInv, NEW f \in FlowVars, WorkerStep(f)
  PROVE  /\ \A g \in FlowVars : FreshOK(g)'
         /\ \A q \in Readers : SleepOK(q)'
<1>1. /\ Typed /\ ListInv /\ \A g \in FlowVars : FreshOK(g)
      /\ \A q \in Readers : SleepOK(q)
  BY DEF SleepInv, FlowInv, AiInv, ListInv
<1>2. UNCHANGED <<awaited, cvLive>> /\ \A q \in Readers : Left(q)
  BY <1>1, WorkersLeaveReaders
<1>3. ASSUME NEW g \in FlowVars PROVE FreshOK(g)'
  BY <1>1, <1>2, WorkerAnnounces DEF FreshOK
<1>4. ASSUME NEW q \in Readers PROVE SleepOK(q)'
  <2>1. CASE rpc[q] \notin AtChosen
    BY <1>1, <1>2, <2>1, SleepKept
  <2>2. CASE rpc[q] \in AtChosen
    <3> DEFINE c == Chosen(q)
    <3>1. c \in FlowVars
      BY <1>1, <2>2, ChosenWanted
    <3>2. ASSUME rpc'[q] = "asleep", ~Shared(c), wpc[c] \notin Gone, wpc'[c] \in Gone
          PROVE  FALSE
      <4>1. c = f /\ Notify(f)
        BY <1>1, <3>1, <3>2, WorkerAnnounces
      <4>2. rpc[q] = "asleep" /\ cvLive[c]
        BY <1>1, <1>2, <3>2 DEF Left, SleepOK
      <4>3. PICK r \in Asleep(f) : rpc' = [rpc EXCEPT ![r] = "await"]
        BY <4>1, <4>2 DEF Notify, Asleep
      <4>4. r \in Readers /\ rpc[r] = "asleep" /\ Chosen(r) = c /\ r # q
        BY <4>1, <4>3, <3>2, <1>1 DEF Asleep, Typed, TypeOK
      <4> QED BY <1>1, <2>2, <4>4, <3>2, TwoAtChosen DEF AtChosen
    <3>3. wpc'[c] \in Announced => (wpc[c] \in Announced /\ count'[c] = count[c]) \/ count'[c] > 0
      BY <1>1, <3>1, WorkerAnnounces
    <3> HIDE DEF c
    <3>4. /\ Left(q) /\ SleepOK(q) /\ c = Chosen(q)
          /\ awaited'[c] = awaited[c] /\ cvLive'[c] = cvLive[c]
      BY <1>1, <1>2 DEF c
    <3> QED BY <3>2, <3>3, <3>4, SleepKept
  <2> QED BY <2>1, <2>2
<1> QED BY <1>3, <1>4

\* A reader changes nothing about a variable it is not looking at, and takes no
\* mark away.
LEMMA ReaderTouches ==
  ASSUME Typed, NEW r \in Readers, ReaderStep(r), NEW f \in FlowVars
  PROVE  /\ awaited[f] => awaited'[f]
         /\ \/ awaited'[f] = awaited[f] /\ cvLive'[f] = cvLive[f] /\ count'[f] = count[f]
            \/ /\ f = Chosen(r)
               /\ SetAwaited(r) \/ Await(r) \/ DestroyCv(r)
<1> USE DEF Typed, TypeOK
<1>1. CASE SetAwaited(r)
  BY <1>1 DEF SetAwaited
<1>2. CASE Await(r)
  BY <1>2 DEF Await
<1>3. CASE DestroyCv(r)
  BY <1>3 DEF DestroyCv
<1>4. CASE ~SetAwaited(r) /\ ~Await(r) /\ ~DestroyCv(r)
  BY <1>4 DEF ReaderStep, CallAny, Claim, Conflict, CallRead, Attach, AttachReady,
     AttachDestroyed, WaitAny, SleepAny, ReadIdx, Detach, ReturnAny, Read, Sleep,
     AwaitDestroyed, TakeValue, fvVars
<1> QED BY <1>1, <1>2, <1>3, <1>4

LEMMA ReaderSleepSelf ==
  ASSUME SleepInv, NEW r \in Readers, ReaderStep(r) PROVE SleepOK(r)'
<1> DEFINE c == Chosen(r)
<1>1. /\ Typed /\ ListInv /\ \A f \in FlowVars : FreshOK(f)
      /\ SleepOK(r) /\ wpc' = wpc
      /\ rpc[r] \in AtChosen => c \in FlowVars
  BY ReadersLeaveValues, ChosenWanted DEF SleepInv, FlowInv, AiInv, ListInv
<1>2. CASE Read(r)
  <2>1. /\ UNCHANGED fvVars /\ Chosen(r)' = c /\ rpc[r] = "read"
        /\ rpc'[r] = IF awaited[c] THEN "value" ELSE "setAwaited"
    BY <1>1, <1>2 DEF Read, ReaderTo, Typed, TypeOK, Chosen, Index
  <2>2. awaited[Chosen(r)]' = awaited[c]
    BY <2>1 DEF fvVars
  <2> QED BY <2>1, <2>2 DEF SleepOK
<1>3. CASE SetAwaited(r)
  <2>1. /\ rpc[r] = "setAwaited" /\ rpc'[r] = "await" /\ Chosen(r)' = c
        /\ awaited' = [awaited EXCEPT ![c] = TRUE] /\ UNCHANGED <<count, cvLive>>
    BY <1>1, <1>3 DEF SetAwaited, ReaderTo, Typed, TypeOK, Chosen, Index
  <2>2. c \in FlowVars /\ (~Shared(c) => ~awaited[c]) /\ FreshOK(c)
    BY <1>1, <2>1 DEF SleepOK, AtChosen
  <2> HIDE DEF c
  <2>3. /\ awaited[Chosen(r)]' /\ cvLive[Chosen(r)]' = cvLive[c]
        /\ wpc[Chosen(r)]' = wpc[c] /\ count[Chosen(r)]' = count[c]
        /\ Shared(Chosen(r))' = Shared(c)
    BY <1>1, <2>1, <2>2 DEF Typed, TypeOK, Shared
  <2> QED BY <2>1, <2>2, <2>3 DEF SleepOK, FreshOK
<1>4. CASE Await(r)
  <2>1. rpc[r] = "await" /\ rpc'[r] = "destroyCv" /\ Chosen(r)' = c /\ awaited' = awaited
    BY <1>1, <1>4 DEF Await, ReaderTo, Typed, TypeOK, Chosen, Index
  <2>2. awaited[Chosen(r)]'
    BY <1>1, <2>1 DEF SleepOK
  <2> QED BY <2>1, <2>2 DEF SleepOK
<1>5. CASE Sleep(r)
  <2>1. /\ rpc[r] = "await" /\ rpc'[r] = "asleep" /\ Chosen(r)' = c /\ UNCHANGED fvVars
        /\ count[c] <= 0
    BY <1>1, <1>5 DEF Sleep, ReaderTo, Typed, TypeOK, Chosen, Index
  <2>2. c \in FlowVars /\ ~(count[c] > 0)
    BY <1>1, <2>1 DEF AtChosen, Typed, TypeOK
  <2>3. /\ awaited[c]
        /\ ~Shared(c) => cvLive[c] /\ wpc[c] \notin Announced
    BY <1>1, <2>1, <2>2 DEF SleepOK
  <2>4. /\ awaited[Chosen(r)]' = awaited[c] /\ cvLive[Chosen(r)]' = cvLive[c]
        /\ wpc[Chosen(r)]' = wpc[c] /\ Shared(Chosen(r))' = Shared(c)
    BY <1>1, <2>1 DEF fvVars, Shared
  <2> QED BY <2>1, <2>3, <2>4 DEF SleepOK, Announced, Gone
<1>6. CASE ~Read(r) /\ ~SetAwaited(r) /\ ~Await(r) /\ ~Sleep(r)
  <2>1. rpc'[r] \notin {"setAwaited", "await", "asleep", "destroyCv"}
    <3> USE <1>1 DEF ReaderTo, fvVars, Typed, TypeOK
    <3>1. CASE CallAny(r) \/ Claim(r)
      BY <3>1 DEF CallAny, Claim
    <3>5. CASE Conflict(r) \/ Attach(r)
      <4>1. \E l \in {"wait", "destroy", "claim"} : rpc' = [rpc EXCEPT ![r] = l]
        BY <3>5 DEF Conflict, Attach, AfterLoop
      <4> QED BY <4>1
    <3>2. CASE AttachReady(r) \/ AttachDestroyed(r) \/ WaitAny(r) \/ SleepAny(r)
      BY <3>2 DEF AttachReady, AttachDestroyed, WaitAny, SleepAny
    <3>3. CASE ReadIdx(r) \/ Detach(r) \/ ReturnAny(r) \/ CallRead(r)
      BY <3>3 DEF ReadIdx, Detach, ReturnAny, CallRead
    <3>4. CASE AwaitDestroyed(r) \/ DestroyCv(r) \/ TakeValue(r)
      BY <3>4 DEF AwaitDestroyed, DestroyCv, TakeValue
    <3> QED BY <1>6, <3>1, <3>2, <3>3, <3>4, <3>5 DEF ReaderStep
  <2> QED BY <2>1 DEF SleepOK
<1> QED BY <1>2, <1>3, <1>4, <1>5, <1>6

LEMMA ReaderSleep ==
  ASSUME SleepInv, NEW r \in Readers, ReaderStep(r)
  PROVE  /\ \A f \in FlowVars : FreshOK(f)'
         /\ \A q \in Readers : SleepOK(q)'
<1>1. /\ Typed /\ ListInv /\ wpc' = wpc /\ \A f \in FlowVars : FreshOK(f)
      /\ \A q \in Readers : SleepOK(q)
  BY ReadersLeaveValues DEF SleepInv, FlowInv, AiInv, ListInv
<1>2. SetAwaited(r) \/ Await(r) \/ DestroyCv(r) =>
        rpc[r] \in AtChosen /\ (SetAwaited(r) \/ rpc[r] \in {"await", "destroyCv"})
  BY DEF SetAwaited, Await, DestroyCv, AtChosen
<1>3. ASSUME NEW f \in FlowVars PROVE FreshOK(f)'
  <2>1. CASE awaited'[f] = awaited[f] /\ cvLive'[f] = cvLive[f] /\ count'[f] = count[f]
    BY <1>1, <2>1 DEF FreshOK
  <2>2. CASE f = Chosen(r) /\ (SetAwaited(r) \/ Await(r) \/ DestroyCv(r))
    <3>1. awaited'[f]
      <4>1. CASE SetAwaited(r)
        BY <4>1, <2>2, <1>1 DEF SetAwaited, Typed, TypeOK
      <4>2. CASE rpc[r] \in {"await", "destroyCv"}
        <5>1. awaited[f]
          BY <4>2, <2>2, <1>1 DEF SleepOK
        <5> QED BY <5>1, <1>1, ReaderTouches
      <4> QED BY <2>2, <1>2, <4>1, <4>2
    <3> QED BY <3>1 DEF FreshOK
  <2> QED BY <1>1, <2>1, <2>2, ReaderTouches
<1>4. ASSUME NEW q \in Readers, q # r PROVE SleepOK(q)'
  <2> DEFINE c == Chosen(q)
  <2>1. Left(q) /\ rpc'[q] = rpc[q]
    BY <1>1, <1>4, ReadersLeaveReaders
  <2>2. CASE rpc[q] \notin AtChosen
    BY <1>1, <2>1, <2>2, SleepKept
  <2>3. CASE rpc[q] \in AtChosen
    <3>1. c \in FlowVars
      BY <1>1, <2>3, ChosenWanted
    <3>2. ~Shared(c) => awaited'[c] = awaited[c] /\ cvLive'[c] = cvLive[c] /\ count'[c] = count[c]
      BY <1>1, <1>2, <1>4, <2>3, <3>1, ReaderTouches, TwoAtChosen
    <3>3. awaited[c] => awaited'[c]
      BY <1>1, <3>1, ReaderTouches
    <3>4. c = Chosen(q) /\ wpc'[c] = wpc[c] /\ SleepOK(q)
      BY <1>1
    <3> HIDE DEF c
    <3> QED BY <2>1, <3>2, <3>3, <3>4, SleepKept
  <2> QED BY <2>2, <2>3
<1> QED BY <1>3, <1>4, ReaderSleepSelf

LEMMA SleepStep == ASSUME SleepInv, [Next]_vars PROVE SleepInv'
<1>1. FlowInv' /\ Typed
  BY FlowStep DEF SleepInv, FlowInv, AiInv, ListInv
<1>2. ASSUME UNCHANGED fvVars, \A q \in Readers : Left(q)
      PROVE  /\ \A f \in FlowVars : FreshOK(f)'
             /\ \A q \in Readers : SleepOK(q)'
  <2>1. UNCHANGED <<awaited, cvLive, wpc, count>>
    BY <1>2 DEF fvVars
  <2>2. \A f \in FlowVars : FreshOK(f)'
    BY <2>1 DEF SleepInv, FreshOK
  <2>3. ASSUME NEW q \in Readers PROVE SleepOK(q)'
    <3>1. SleepOK(q) /\ Left(q)
      BY <1>2 DEF SleepInv
    <3> QED BY <2>1, <3>1, SleepKept
  <2> QED BY <2>2, <2>3
<1>3. CASE UNCHANGED vars
  <2>1. UNCHANGED fvVars /\ \A q \in Readers : Left(q)
    BY <1>3 DEF vars, rdVars, Left
  <2> QED BY <1>1, <1>2, <2>1 DEF SleepInv
<1>4. ASSUME NEW r \in Readers, SpuriousWakeup(r) PROVE SleepInv'
  BY <1>1, <1>2, <1>4, WakingLeavesReaders DEF SleepInv
<1>5. \/ \E f \in FlowVars : WorkerStep(f)
      \/ \E r \in Readers : ReaderStep(r) \/ SpuriousWakeup(r)
      \/ UNCHANGED vars
  BY DEF Next
<1> QED BY <1>1, <1>3, <1>4, <1>5, WorkerSleep, ReaderSleep DEF SleepInv

LEMMA SleepInit == Init => SleepInv
BY FlowInit DEF Init, SleepInv, FreshOK, SleepOK, Announced

\* The only reader of a variable never sleeps in blockUntil after its worker has
\* signalled it for the last time.
THEOREM SleepersAreWoken == Spec => []NoSleeperForgotten
<1>1. SleepInv => NoSleeperForgotten
  BY DEF SleepInv, SleepOK, Gone, NoSleeperForgotten
<1> QED BY <1>1, SleepInit, SleepStep, PTL DEF Spec

=============================================================================
