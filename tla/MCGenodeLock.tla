---------------------------- MODULE MCGenodeLock ----------------------------
(* Small instances of GenodeLock for TLC.                                   *)
EXTENDS GenodeLock, TLC

CONSTANTS t1, t2, t3

Symmetric == Permutations(Threads)
=============================================================================
