---------------------------- MODULE MCThreadPool ----------------------------
(* Small programs for the thread pool.                                      *)
EXTENDS ThreadPool, TLC

CONSTANTS c1, c2, t1, t2, t3

Do(op, t) == [op |-> op, t |-> t]
Leaf(ts) == [t \in ts |-> << >>]

\* One client, whose tasks spawn nothing.
FlatScript ==
  Leaf({t1, t2, t3})
    @@ (c1 :> <<Do("spawn", t1), Do("spawn", t2), Do("sync", NoTask), Do("spawn", t3), Do("await", t3)>>)

\* Two clients.
TwoScript ==
  Leaf({t1, t2, t3})
    @@ (c1 :> <<Do("spawn", t1), Do("spawn", t2), Do("sync", NoTask)>>)
    @@ (c2 :> <<Do("spawn", t3), Do("await", t3)>>)

\* A task that spawns a task and waits for it, while the client shrinks the pool.
RecursiveScript ==
  Leaf({t2, t3})
    @@ (t1 :> <<Do("spawn", t2), Do("await", t2)>>)
    @@ (c1 :> <<Do("spawn", t1), Do("setMaxPoolSize", 2), Do("spawn", t3), Do("sync", NoTask)>>)

\* A task that spawns a task.
NestedScript ==
  Leaf({t2}) @@ (t1 :> <<Do("spawn", t2)>>)
    @@ (c1 :> <<Do("spawn", t1), Do("sync", NoTask)>>)
=============================================================================
