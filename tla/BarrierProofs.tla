--------------------------- MODULE BarrierProofs ---------------------------
(***************************************************************************)
(* Theorems about Barrier, for any finite set of tasks and any number of    *)
(* sections, where spawn returns only when its own task has entered.        *)
(***************************************************************************)
EXTENDS Barrier, FiniteSetTheorems, TLAPS

MasterPlaces == {"outside", "inside", "initSemaphore", "interest", "loop", "block", "destroy"}
Past == {"left", "interested", "compare", "signal", "notify", "done", "usedDestroyed"}
TaskPlaces == Past \cup {"none", "handed", "running"}

Typed == /\ entered \in Nat /\ left \in Nat /\ interest \in BOOLEAN
         /\ counter \in Nat /\ cvLive \in BOOLEAN
         /\ mpc \in MasterPlaces
         /\ tpc \in [Tasks -> TaskPlaces] /\ seen \in [Tasks -> Nat]
         /\ section \in SUBSET Tasks

\* What entered and left count.
Entered == {t \in section : tpc[t] \in Past \cup {"running"}}
Left == {t \in section : tpc[t] \in Past}
Counted == entered = Cardinality(Entered) /\ left = Cardinality(Left)

\* The tasks of earlier sections have left, and those of this one have started
\* when the master closes it.
Elsewhere == \A t \in Tasks \ section : tpc[t] \in Past \cup {"none"}
Inside == \A t \in section : tpc[t] # "none"
NoneHanded == mpc \notin {"outside", "inside"} => Handed = {}
AllGone == mpc \in {"outside", "destroy"} => \A t \in section : tpc[t] \in Past

\* The master's interest and its semaphore.
Interest == /\ mpc \in {"inside", "initSemaphore", "interest"} => ~interest
            /\ mpc \in {"loop", "block"} => interest
            /\ mpc \in {"interest", "loop", "block", "destroy"} => cvLive

\* Who goes on in barrierLeave after `b.interest` has seen it, and all the tasks
\* there were to see.
Waking == \A t \in section :
  /\ tpc[t] \in {"interested", "compare", "signal", "notify"} => interest
  /\ tpc[t] = "compare" => seen[t] <= left
  /\ tpc[t] \in {"signal", "notify"} => left = entered
  /\ tpc[t] = "notify" /\ mpc = "block" => counter > 0

BarrierInv == /\ Typed /\ Counted /\ Elsewhere /\ Inside /\ NoneHanded /\ AllGone
              /\ Interest /\ Waking /\ NoLostWakeup

-----------------------------------------------------------------------------
(* Counting.                                                                *)

LEMMA Finite ==
  ASSUME IsFiniteSet(Tasks), Typed, Counted
  PROVE  /\ IsFiniteSet(section) /\ IsFiniteSet(Entered) /\ IsFiniteSet(Left)
         /\ left <= entered
         /\ left = entered => Left = Entered
<1>1. IsFiniteSet(section)
  BY FS_Subset DEF Typed
<1>2. Entered \in SUBSET section /\ Left \in SUBSET Entered
  BY DEF Entered, Left
<1>3. IsFiniteSet(Entered)
  BY <1>1, <1>2, FS_Subset
<1>4. /\ IsFiniteSet(Left) /\ Cardinality(Left) <= Cardinality(Entered)
      /\ Cardinality(Entered) = Cardinality(Left) => Entered = Left
  BY <1>2, <1>3, FS_Subset
<1> QED BY <1>1, <1>3, <1>4 DEF Counted

\* left = entered, and nobody is still to enter: all tasks of the section have left.
LEMMA Gone ==
  ASSUME IsFiniteSet(Tasks), Typed, Counted, Inside, left = entered, Handed = {}
  PROVE  \A t \in section : tpc[t] \in Past
<1>1. Left = Entered
  BY Finite
<1> QED BY <1>1 DEF Typed, Inside, Handed, Left, Entered, TaskPlaces

-----------------------------------------------------------------------------
(* The steps.                                                               *)

\* A step of one task within barrierLeave, after its increment.
LEMMA Leaving ==
  ASSUME BarrierInv, NEW t \in Tasks, NEW l \in Past, TaskTo(t, l), tpc[t] \in Past,
         UNCHANGED <<entered, left, interest, cvLive, mpc, section>>
  PROVE  /\ Counted' /\ Elsewhere' /\ Inside' /\ NoneHanded' /\ AllGone' /\ Interest'
         /\ tpc' \in [Tasks -> TaskPlaces]
<1>1. \A u \in Tasks : /\ tpc'[u] \in Past <=> tpc[u] \in Past
                       /\ u # t => tpc'[u] = tpc[u]
  BY DEF BarrierInv, Typed, TaskTo
<1>2. l \notin {"none", "handed", "running"} /\ tpc[t] \notin {"none", "handed", "running"}
  BY DEF Past
<1>3. tpc' \in [Tasks -> TaskPlaces] /\ tpc'[t] = l
  BY DEF BarrierInv, Typed, TaskTo, TaskPlaces
<1>4. Left' = Left
  BY <1>1 DEF BarrierInv, Typed, Left
<1>5. Entered' = Entered
  BY <1>1, <1>2, <1>3 DEF BarrierInv, Typed, Entered
<1>6. Handed' = Handed
  BY <1>1, <1>2, <1>3 DEF BarrierInv, Typed, Handed
<1>7. Counted'
  BY <1>4, <1>5 DEF BarrierInv, Counted
<1>8. Elsewhere' /\ Inside'
  BY <1>1, <1>2, <1>3 DEF BarrierInv, Typed, Elsewhere, Inside
<1>9. NoneHanded' /\ AllGone'
  BY <1>1, <1>6 DEF BarrierInv, Typed, NoneHanded, AllGone
<1> QED BY <1>3, <1>7, <1>8, <1>9 DEF BarrierInv, Interest

LEMMA TaskKeepsInv ==
  ASSUME IsFiniteSet(Tasks), BarrierInv, NEW t \in Tasks, TaskStep(t)
  PROVE  BarrierInv'
<1>0. left <= entered /\ IsFiniteSet(Entered) /\ IsFiniteSet(Left)
  BY Finite DEF BarrierInv
<1>1. CASE BarrierEnter(t)
  <2> USE <1>1 DEF BarrierEnter, TaskTo
  <2>1. t \in section /\ tpc[t] = "handed"
    BY DEF BarrierInv, Elsewhere, Past
  <2>2. mpc = "inside"
    BY <2>1 DEF BarrierInv, NoneHanded, AllGone, Handed, Past, Typed
  <2>3. Typed'
    BY DEF BarrierInv, Typed, TaskPlaces
  <2>4. Entered' = Entered \cup {t} /\ t \notin Entered /\ Left' = Left
    BY <2>1 DEF BarrierInv, Typed, Entered, Left, Past
  <2>5. Counted'
    <3>1. Cardinality(Entered \cup {t}) = Cardinality(Entered) + 1
      BY <1>0, <2>4, FS_AddElement
    <3> QED BY <2>4, <3>1 DEF BarrierInv, Counted
  <2>6. Elsewhere' /\ Inside'
    BY <2>1 DEF BarrierInv, Typed, Elsewhere, Inside
  <2>7. NoneHanded' /\ AllGone' /\ Interest' /\ NoLostWakeup'
    BY <2>2 DEF BarrierInv, NoneHanded, AllGone, Interest, NoLostWakeup
  <2>8. Waking'
    BY <2>2 DEF BarrierInv, Typed, Waking, Interest
  <2> QED BY <2>3, <2>5, <2>6, <2>7, <2>8 DEF BarrierInv
<1>2. CASE Leave(t)
  <2> USE <1>2 DEF Leave, TaskTo
  <2>1. t \in section /\ tpc[t] = "running"
    BY DEF BarrierInv, Elsewhere, Past
  <2>2. Typed'
    BY DEF BarrierInv, Typed, TaskPlaces, Past
  <2>3. Left' = Left \cup {t} /\ t \notin Left /\ Entered' = Entered
    BY <2>1 DEF BarrierInv, Typed, Entered, Left, Past
  <2>4. Counted'
    <3>1. Cardinality(Left \cup {t}) = Cardinality(Left) + 1
      BY <1>0, <2>3, FS_AddElement
    <3> QED BY <2>3, <3>1 DEF BarrierInv, Counted
  <2>5. left # entered
    <3>1. t \in Entered
      BY <2>1 DEF Entered
    <3> QED BY <2>3, <3>1, Finite DEF BarrierInv
  <2>6. Elsewhere' /\ Inside'
    BY <2>1 DEF BarrierInv, Typed, Elsewhere, Inside
  <2>7. NoneHanded' /\ AllGone' /\ Interest'
    BY <2>1 DEF BarrierInv, Typed, NoneHanded, AllGone, Interest, Handed, Past
  <2>8. Waking'
    BY <2>5 DEF BarrierInv, Typed, Waking
  <2>9. NoLostWakeup'
    BY <2>1 DEF BarrierInv, Typed, NoLostWakeup, AboutToSignal, Interest
  <2> QED BY <2>2, <2>4, <2>6, <2>7, <2>8, <2>9 DEF BarrierInv
<1>3. CASE TestInterest(t)
  <2> USE <1>3 DEF TestInterest, TaskTo, barVars
  <2>1. /\ Counted' /\ Elsewhere' /\ Inside' /\ NoneHanded' /\ AllGone' /\ Interest'
        /\ tpc' \in [Tasks -> TaskPlaces]
    BY Leaving DEF Past
  <2>2. Typed'
    BY <2>1 DEF BarrierInv, Typed
  <2>3. Waking'
    BY DEF BarrierInv, Typed, Waking
  <2>4. NoLostWakeup'
    BY DEF BarrierInv, Typed, NoLostWakeup, AboutToSignal
  <2> QED BY <2>1, <2>2, <2>3, <2>4 DEF BarrierInv
<1>4. CASE ReadLeft(t)
  <2> USE <1>4 DEF ReadLeft, TaskTo, barVars
  <2>1. /\ Counted' /\ Elsewhere' /\ Inside' /\ NoneHanded' /\ AllGone' /\ Interest'
        /\ tpc' \in [Tasks -> TaskPlaces]
    BY Leaving DEF Past
  <2>2. Typed'
    BY <2>1 DEF BarrierInv, Typed
  <2>3. Waking'
    BY DEF BarrierInv, Typed, Waking
  <2>4. NoLostWakeup'
    BY DEF BarrierInv, Typed, NoLostWakeup, AboutToSignal
  <2> QED BY <2>1, <2>2, <2>3, <2>4 DEF BarrierInv
<1>5. CASE Compare(t)
  <2> USE <1>5 DEF Compare, TaskTo, barVars
  <2>1. /\ Counted' /\ Elsewhere' /\ Inside' /\ NoneHanded' /\ AllGone' /\ Interest'
        /\ tpc' \in [Tasks -> TaskPlaces]
    BY Leaving DEF Past
  <2>2. Typed'
    BY <2>1 DEF BarrierInv, Typed
  <2>3. Waking'
    BY <1>0 DEF BarrierInv, Typed, Waking
  <2>4. NoLostWakeup'
    BY DEF BarrierInv, Typed, NoLostWakeup, AboutToSignal
  <2> QED BY <2>1, <2>2, <2>3, <2>4 DEF BarrierInv
<1>6. CASE Count(t)
  <2> USE <1>6 DEF Count, TaskTo
  <2>1. /\ Counted' /\ Elsewhere' /\ Inside' /\ NoneHanded' /\ AllGone' /\ Interest'
        /\ tpc' \in [Tasks -> TaskPlaces]
    BY Leaving DEF Past
  <2>2. Typed' /\ counter' > 0
    BY <2>1 DEF BarrierInv, Typed
  <2>3. Waking'
    BY <2>2 DEF BarrierInv, Typed, Waking
  <2>4. NoLostWakeup'
    BY <2>2 DEF NoLostWakeup
  <2> QED BY <2>1, <2>2, <2>3, <2>4 DEF BarrierInv
<1>7. CASE Notify(t)
  <2> USE <1>7 DEF Notify, TaskTo, barVars
  <2>1. /\ Counted' /\ Elsewhere' /\ Inside' /\ NoneHanded' /\ AllGone' /\ Interest'
        /\ tpc' \in [Tasks -> TaskPlaces]
    BY Leaving DEF Past
  <2>2. Typed'
    BY <2>1 DEF BarrierInv, Typed
  <2>3. Waking'
    BY DEF BarrierInv, Typed, Waking
  <2>4. NoLostWakeup'
    BY DEF BarrierInv, Typed, NoLostWakeup, AboutToSignal, Waking
  <2> QED BY <2>1, <2>2, <2>3, <2>4 DEF BarrierInv
<1>8. CASE UseDestroyed(t)
  <2> USE <1>8 DEF UseDestroyed, TaskTo, barVars
  <2>1. /\ Counted' /\ Elsewhere' /\ Inside' /\ NoneHanded' /\ AllGone' /\ Interest'
        /\ tpc' \in [Tasks -> TaskPlaces]
    BY Leaving DEF Past
  <2>2. Typed'
    BY <2>1 DEF BarrierInv, Typed
  <2>3. Waking'
    BY DEF BarrierInv, Typed, Waking
  <2>4. NoLostWakeup'
    BY DEF BarrierInv, NoLostWakeup, Interest
  <2> QED BY <2>1, <2>2, <2>3, <2>4 DEF BarrierInv
<1> QED BY <1>1, <1>2, <1>3, <1>4, <1>5, <1>6, <1>7, <1>8 DEF TaskStep

LEMMA CloseKeepsInv ==
  ASSUME IsFiniteSet(Tasks), OwnSignal, BarrierInv, Close
  PROVE  BarrierInv'
<1>1. CASE CloseBarrier
  <2> USE <1>1 DEF CloseBarrier, MasterTo, barVars
  <2>1. Typed' /\ Counted' /\ Elsewhere' /\ Inside'
    BY DEF BarrierInv, Typed, MasterPlaces, Counted, Entered, Left, Elsewhere, Inside
  <2>2. NoneHanded'
    BY DEF NoneHanded, Handed
  <2>3. AllGone'
    BY Gone DEF BarrierInv, AllGone
  <2>4. Interest' /\ NoLostWakeup'
    BY DEF BarrierInv, Interest, NoLostWakeup
  <2>5. Waking'
    BY DEF BarrierInv, Waking
  <2> QED BY <2>1, <2>2, <2>3, <2>4, <2>5 DEF BarrierInv
<1>2. CASE InitSemaphore
  <2> USE <1>2 DEF InitSemaphore, MasterTo
  <2>1. Typed' /\ Counted' /\ Elsewhere' /\ Inside' /\ NoneHanded' /\ AllGone'
    BY DEF BarrierInv, Typed, MasterPlaces, Counted, Entered, Left, Elsewhere, Inside,
           NoneHanded, AllGone, Handed
  <2>2. Interest' /\ NoLostWakeup' /\ Waking'
    BY DEF BarrierInv, Interest, NoLostWakeup, Waking
  <2> QED BY <2>1, <2>2 DEF BarrierInv
<1>3. CASE SetInterest
  <2> USE <1>3 DEF SetInterest, MasterTo
  <2>1. Typed' /\ Counted' /\ Elsewhere' /\ Inside' /\ NoneHanded' /\ AllGone'
    BY DEF BarrierInv, Typed, MasterPlaces, Counted, Entered, Left, Elsewhere, Inside,
           NoneHanded, AllGone, Handed
  <2>2. Interest' /\ NoLostWakeup' /\ Waking'
    BY DEF BarrierInv, Interest, NoLostWakeup, Waking
  <2> QED BY <2>1, <2>2 DEF BarrierInv
<1>4. CASE Loop
  <2> USE <1>4 DEF Loop, MasterTo, barVars
  <2>1. Typed' /\ Counted' /\ Elsewhere' /\ Inside' /\ NoneHanded'
    BY DEF BarrierInv, Typed, MasterPlaces, Counted, Entered, Left, Elsewhere, Inside,
           NoneHanded, Handed
  <2>2. AllGone'
    BY Gone DEF BarrierInv, AllGone, NoneHanded
  <2>3. Interest' /\ NoLostWakeup' /\ Waking'
    BY DEF BarrierInv, Interest, NoLostWakeup, Waking
  <2> QED BY <2>1, <2>2, <2>3 DEF BarrierInv
<1>5. CASE BlockUntil
  <2> USE <1>5 DEF BlockUntil, MasterTo
  <2>1. Typed'
    BY DEF BarrierInv, Typed, MasterPlaces
  <2>2. Counted' /\ Elsewhere' /\ Inside' /\ NoneHanded' /\ AllGone'
    BY DEF BarrierInv, Counted, Entered, Left, Elsewhere, Inside, NoneHanded, AllGone, Handed
  <2>3. Interest' /\ NoLostWakeup' /\ Waking'
    BY DEF BarrierInv, Interest, NoLostWakeup, Waking
  <2> QED BY <2>1, <2>2, <2>3 DEF BarrierInv
<1>6. CASE DestroySemaphore
  <2> USE <1>6 DEF DestroySemaphore, MasterTo
  <2>1. Typed' /\ Counted' /\ Elsewhere' /\ Inside' /\ NoneHanded' /\ AllGone'
    BY DEF BarrierInv, Typed, MasterPlaces, Counted, Entered, Left, Elsewhere, Inside,
           NoneHanded, AllGone, Handed
  <2>2. Interest' /\ NoLostWakeup' /\ Waking'
    BY DEF BarrierInv, Interest, NoLostWakeup, Waking
  <2> QED BY <2>1, <2>2 DEF BarrierInv
<1> QED BY <1>1, <1>2, <1>3, <1>4, <1>5, <1>6 DEF Close

LEMMA OpenKeepsInv == ASSUME BarrierInv, OpenBarrier PROVE BarrierInv'
<1> USE DEF OpenBarrier, MasterTo
<1>1. Typed'
  BY DEF BarrierInv, Typed, MasterPlaces
<1>2. Counted'
  <2>1. Entered' = {} /\ Left' = {}
    BY DEF Entered, Left
  <2> QED BY <2>1, FS_EmptySet DEF Counted
<1>3. Elsewhere'
  BY DEF BarrierInv, Elsewhere, AllGone
<1>4. Inside' /\ NoneHanded' /\ AllGone' /\ Interest' /\ Waking' /\ NoLostWakeup'
  BY DEF Inside, NoneHanded, AllGone, Interest, Waking, NoLostWakeup
<1> QED BY <1>1, <1>2, <1>3, <1>4 DEF BarrierInv

LEMMA SpawnKeepsInv == ASSUME BarrierInv, NEW t \in Tasks, Spawn(t) PROVE BarrierInv'
<1> USE DEF Spawn, barVars
<1>1. Typed'
  BY DEF BarrierInv, Typed, TaskPlaces
<1>2. t \notin section
  BY DEF BarrierInv, Inside
<1>3. Entered' = Entered /\ Left' = Left
  BY <1>2 DEF BarrierInv, Typed, Entered, Left, Past
<1>4. Counted' /\ Elsewhere' /\ Inside'
  BY <1>3 DEF BarrierInv, Typed, Counted, Elsewhere, Inside
<1>5. NoneHanded' /\ AllGone' /\ Interest' /\ NoLostWakeup'
  BY DEF BarrierInv, NoneHanded, AllGone, Interest, NoLostWakeup
<1>6. Waking'
  BY <1>2 DEF BarrierInv, Typed, Waking
<1> QED BY <1>1, <1>4, <1>5, <1>6 DEF BarrierInv

LEMMA BarrierInit == Init => BarrierInv
<1> SUFFICES ASSUME Init PROVE BarrierInv
  OBVIOUS
<1>1. Entered = {} /\ Left = {}
  BY DEF Init, Entered, Left
<1>2. Counted
  BY <1>1, FS_EmptySet DEF Init, Counted
<1> QED BY <1>2 DEF Init, BarrierInv, Typed, MasterPlaces, TaskPlaces, Elsewhere, Inside,
                    NoneHanded, AllGone, Interest, Waking, NoLostWakeup

LEMMA BarrierStep ==
  ASSUME IsFiniteSet(Tasks), OwnSignal, BarrierInv, [Next]_vars PROVE BarrierInv'
<1>1. CASE UNCHANGED vars
  BY <1>1 DEF vars, barVars, BarrierInv, Typed, Counted, Entered, Left, Elsewhere, Inside,
              NoneHanded, Handed, AllGone, Interest, Waking, NoLostWakeup, AboutToSignal
<1> QED BY <1>1, TaskKeepsInv, CloseKeepsInv, OpenKeepsInv, SpawnKeepsInv DEF Next

-----------------------------------------------------------------------------

\* When closeBarrier has returned no task of the section runs or is still to
\* start, although entered and left are read without a lock and tasks of earlier
\* sections may still be on their way out of barrierLeave.
THEOREM MasterLeavesLast ==
  ASSUME IsFiniteSet(Tasks), OwnSignal PROVE Spec => []MasterWaits
<1>1. BarrierInv => MasterWaits
  BY DEF BarrierInv, AllGone, MasterWaits, Past
<1> QED BY <1>1, BarrierInit, BarrierStep, PTL DEF Spec

\* The test of barrierLeave, `>=` on a value of entered that may not be the last,
\* and the order in which closeBarrier sets interest and looks at left suffice:
\* the master does not sleep on when all tasks have left.
THEOREM LastTaskWakesMaster ==
  ASSUME IsFiniteSet(Tasks), OwnSignal PROVE Spec => []NoLostWakeup
<1>1. BarrierInv => NoLostWakeup
  BY DEF BarrierInv
<1> QED BY <1>1, BarrierInit, BarrierStep, PTL DEF Spec
=============================================================================
