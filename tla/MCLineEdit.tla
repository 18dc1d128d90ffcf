----------------------------- MODULE MCLineEdit -----------------------------
(* Small instances of LineEdit for TLC.                                     *)
EXTENDS LineEdit

x == "x"

\* No completion; one; two, one of them empty.
ShortCompletions == {<< >>, <<<<x, x, x>>>>, <<<<x>>, << >>>>}
FullCompletions == {<<<<x, x, x, x>>>>}

SomeLines == {<< >>, <<x, " ">>, <<x, x, x>>, <<" ", x, x, x>>}
=============================================================================
