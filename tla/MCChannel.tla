----------------------------- MODULE MCChannel -----------------------------
(* Small instances of Channel for TLC.                                     *)
EXTENDS Channel, TLC

CONSTANTS s1, s2, s3, r1, r2, owner, int, string, nil, free, destroyed

OneSender == {s1}
TwoSenders == {s1, s2}
ThreeSenders == {s1, s2, s3}
OneReceiver == {r1}
TwoReceivers == {r1, r2}

AllSameType == [t \in Workers |-> int]
R2Differs == [t \in Workers |-> IF t = r2 THEN string ELSE int]

Blocking == {"send"}
AnySend == {"send", "trySend"}
BlockingRecv == {"recv"}
AnyRecv == {"recv", "tryRecv"}

Symmetric == Permutations(Senders) \cup Permutations(Receivers)
SymmetricSenders == Permutations(Senders)
=============================================================================
