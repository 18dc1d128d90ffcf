----------------------------- MODULE MCBarrier -----------------------------
(* Small instances of Barrier for TLC.                                      *)
EXTENDS Barrier

CONSTANTS t1, t2, t3
=============================================================================
