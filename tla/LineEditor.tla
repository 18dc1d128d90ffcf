----------------------------- MODULE LineEditor -----------------------------
(***************************************************************************)
(* What a line editor promises: a text with a cursor in it, kept as the two *)
(* sequences on either side of the cursor.  LineEdit implements it with the *)
(* buffer of lib/wrappers/linenoise/linenoise.c.                            *)
(***************************************************************************)
EXTENDS Naturals, Sequences

CONSTANTS Chars, Space,
          MaxLen    \* the longest line

VARIABLES left, right   \* the text before and after the cursor

vars == <<left, right>>

Init == left = << >> /\ right = << >>

FirstOf(s, n) == SubSeq(s, 1, n)
LastChar(s) == s[Len(s)]

Insert(c) == /\ Len(left) + Len(right) < MaxLen
             /\ left' = Append(left, c)
             /\ UNCHANGED right

MoveLeft == /\ left # << >>
            /\ left' = FirstOf(left, Len(left) - 1)
            /\ right' = <<LastChar(left)>> \o right

MoveRight == /\ right # << >>
             /\ left' = Append(left, Head(right))
             /\ right' = Tail(right)

MoveHome == left' = << >> /\ right' = left \o right

MoveEnd == left' = left \o right /\ right' = << >>

Delete == right # << >> /\ right' = Tail(right) /\ UNCHANGED left

Backspace == /\ left # << >>
             /\ left' = FirstOf(left, Len(left) - 1)
             /\ UNCHANGED right

\* The word before the cursor goes, and the spaces between it and the cursor.
DeletePrevWord ==
  \E word, end \in 0 .. Len(left) :
    /\ word <= end
    /\ \A i \in word + 1 .. end : left[i] # Space
    /\ \A i \in end + 1 .. Len(left) : left[i] = Space
    /\ word > 0 => left[word] = Space
    /\ end > 0 => left[end] # Space
    /\ left' = FirstOf(left, word)
    /\ UNCHANGED right

\* The characters around the cursor change places, and the cursor moves on
\* unless that would take it to the end of the line.
Transpose ==
  LET swapped == Append(FirstOf(left, Len(left) - 1), Head(right))
      rest == <<LastChar(left)>> \o Tail(right)
  IN  /\ left # << >> /\ right # << >>
      /\ IF Len(right) > 1
         THEN left' = Append(swapped, Head(rest)) /\ right' = Tail(rest)
         ELSE left' = swapped /\ right' = rest

DeleteLine == left' = << >> /\ right' = << >>

DeleteToEnd == right' = << >> /\ UNCHANGED left

\* Another line takes the place of this one, with the cursor at its end.
Replace == /\ left' \in UNION {[1 .. n -> Chars] : n \in 0 .. MaxLen}
           /\ right' = << >>

Next == \/ \E c \in Chars : Insert(c)
        \/ MoveLeft \/ MoveRight \/ MoveHome \/ MoveEnd
        \/ Delete \/ Backspace \/ DeletePrevWord \/ Transpose
        \/ DeleteLine \/ DeleteToEnd \/ Replace

Spec == Init /\ [][Next]_vars
=============================================================================
