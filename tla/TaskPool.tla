------------------------------ MODULE TaskPool ------------------------------
(***************************************************************************)
(* What spawn, ^ and sync promise, by the comments of                       *)
(* lib/pure/concurrency/threadpool.edl, without slots, workers, semaphores   *)
(* or the size of the pool: every task that is spawned runs once, at the     *)
(* same time as the program that spawned it, which goes on when it may.      *)
(***************************************************************************)
EXTENDS Integers, Sequences

CONSTANTS Clients, Tasks,
          Script,   \* what a client, or a task, does: a sequence of [op, t]
          Barring   \* TRUE where spawn returns when the task has started, and
                    \* sync when the tasks spawned before are done

VARIABLES
  fate,        \* each task: "new", "waiting", "running" or "done"
  pos          \* how far each program is

tasks == <<fate, pos>>

Programs == Clients \cup Tasks

Init ==
  /\ fate = [t \in Tasks |-> "new"]
  /\ pos = [u \in Programs |-> 1]

Calls(u, op) ==
  /\ u \in Clients \/ fate[u] = "running"
  /\ pos[u] <= Len(Script[u]) /\ Script[u][pos[u]].op = op
Arg(u) == Script[u][pos[u]].t
Becomes(t, from, to) == fate[t] = from /\ fate' = [fate EXCEPT ![t] = to]
GoesOn(u) == pos' = [pos EXCEPT ![u] = @ + 1] /\ UNCHANGED fate

\* spawn: the task is given to the pool, and some time later spawn returns.
Give(u) == Calls(u, "spawn") /\ Becomes(Arg(u), "new", "waiting") /\ UNCHANGED pos
Return(u) ==
  /\ Calls(u, "spawn")
  /\ fate[Arg(u)] \in {"running", "done"} \/ (~Barring /\ fate[Arg(u)] = "waiting")
  /\ GoesOn(u)

Start(t) == Becomes(t, "waiting", "running") /\ UNCHANGED pos
End(t) == Becomes(t, "running", "done") /\ pos[t] > Len(Script[t]) /\ UNCHANGED pos

\* The value of a task is had when the task is done.
Await(u) == Calls(u, "await") /\ fate[Arg(u)] = "done" /\ GoesOn(u)

Before(u) == {Script[u][k].t : k \in {j \in 1 .. pos[u] - 1 : Script[u][j].op = "spawn"}}
Sync(u) ==
  /\ Calls(u, "sync")
  /\ Barring => \A t \in Before(u) : fate[t] = "done"
  /\ GoesOn(u)

SetMaxPoolSize(u) == Calls(u, "setMaxPoolSize") /\ GoesOn(u)

Next ==
  \/ \E u \in Programs : Give(u) \/ Return(u) \/ Await(u) \/ Sync(u) \/ SetMaxPoolSize(u)
  \/ \E t \in Tasks : Start(t) \/ End(t)

Spec == Init /\ [][Next]_tasks
=============================================================================
