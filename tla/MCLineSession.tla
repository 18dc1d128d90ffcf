--------------------------- MODULE MCLineSession ---------------------------
(* Small instances of LineSession for TLC.                                  *)
EXTENDS LineSession

\* full fills the buffer to the last byte, cut is one character shorter.
CONSTANTS empty, a, full, cut

CutFull == [l \in Lines |-> IF l = full THEN cut ELSE l]

\* fgets takes a full line without its newline and reads an empty one next.
FullInTwo == [l \in Lines |-> IF l = full THEN <<full, empty>> ELSE <<l>>]

SomeFiles == {<<a, cut, a>>, <<full, empty>>, <<a, a, empty, empty>>}
=============================================================================
