----------------------------- MODULE MCFlowVar -----------------------------
(* Small instances of FlowVar for TLC.                                     *)
EXTENDS FlowVar

CONSTANTS a, b, r1, r2, nil

Two == {a, b}
One == {r1}
Pair == {r1, r2}

OwnTwo == [r \in Readers |-> <<a, b>>]
Overlapping == [r \in Readers |-> IF r = r1 THEN <<a, b>> ELSE <<b>>]
=============================================================================
