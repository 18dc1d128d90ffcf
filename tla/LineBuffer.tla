----------------------------- MODULE LineBuffer -----------------------------
(***************************************************************************)
(* The buffer that lib/wrappers/linenoise/linenoise.c edits in place: the   *)
(* fields buf, pos and len of struct linenoiseState, a C string in an array *)
(* of LINENOISE_MAX_LINE bytes.  BufLen is buflen after linenoiseEdit has   *)
(* taken one off for the terminating NUL, so the array is 0 .. BufLen.      *)
(***************************************************************************)
EXTENDS Naturals, Sequences

CONSTANTS Chars, Space, NUL, BufLen

ASSUME BufferAssumption == /\ BufLen \in Nat \ {0}
                           /\ Space \in Chars
                           /\ NUL \notin Chars

VARIABLES buf, pos, len

bufVars == <<buf, pos, len>>

Line == UNION {[1 .. n -> Chars] : n \in 0 .. BufLen}

\* The line that buf holds.
Text == [i \in 1 .. len |-> buf[i - 1]]
BeforeCursor == [i \in 1 .. pos |-> buf[i - 1]]
AfterCursor == [i \in 1 .. len - pos |-> buf[pos + i - 1]]

\* linenoiseEdit starts from an empty string; the rest of the array is not
\* initialised, which NUL stands for.
BufInit == buf = [i \in 0 .. BufLen |-> NUL] /\ pos = 0 /\ len = 0

\* memmove(b + to, b + from, n)
Moved(b, to, from, n) ==
  [i \in DOMAIN b |-> IF to <= i /\ i < to + n THEN b[from + i - to] ELSE b[i]]

\* linenoiseEditInsert; it does nothing when the line is full.  (A name with
\* an underscore is the same code with a mistake in it.)
Insert_MovesOneLess(c) ==
  /\ len < BufLen
  /\ buf' = [Moved(buf, pos + 1, pos, IF len = pos THEN 0 ELSE len - pos - 1)
               EXCEPT ![pos] = c, ![len + 1] = NUL]
  /\ pos' = pos + 1
  /\ len' = len + 1

Insert_ForgetsNul(c) ==
  /\ len < BufLen
  /\ buf' = [Moved(buf, pos + 1, pos, len - pos) EXCEPT ![pos] = c]
  /\ pos' = pos + 1
  /\ len' = len + 1

Insert(c) ==
  /\ len < BufLen
  /\ buf' = [Moved(buf, pos + 1, pos, len - pos) EXCEPT ![pos] = c, ![len + 1] = NUL]
  /\ pos' = pos + 1
  /\ len' = len + 1

\* linenoiseEditMoveLeft, MoveRight, MoveHome, MoveEnd.
MoveTo(p) == p # pos /\ pos' = p /\ UNCHANGED <<buf, len>>
MoveLeft == pos > 0 /\ MoveTo(pos - 1)
MoveRight == pos # len /\ MoveTo(pos + 1)
MoveHome == MoveTo(0)
MoveEnd == MoveTo(len)

\* linenoiseEditDelete
Delete ==
  /\ len > 0 /\ pos < len
  /\ buf' = [Moved(buf, pos, pos + 1, len - pos - 1) EXCEPT ![len - 1] = NUL]
  /\ len' = len - 1
  /\ UNCHANGED pos

\* linenoiseEditBackspace
Backspace ==
  /\ pos > 0 /\ len > 0
  /\ buf' = [Moved(buf, pos - 1, pos, len - pos) EXCEPT ![len - 1] = NUL]
  /\ pos' = pos - 1
  /\ len' = len - 1

\* linenoiseEditDeletePrevWord: its two loops stop at end and at word.  The
\* NUL moves with the text after the cursor.
DeletePrevWord ==
  \E end \in 0 .. pos : \E word \in 0 .. end :
    /\ \A i \in end .. pos - 1 : buf[i] = Space
    /\ end > 0 => buf[end - 1] # Space
    /\ \A i \in word .. end - 1 : buf[i] # Space
    /\ word > 0 => buf[word - 1] = Space
    /\ buf' = Moved(buf, word, pos, len - pos + 1)
    /\ pos' = word
    /\ len' = len - (pos - word)

\* Ctrl-T
Transpose ==
  /\ pos > 0 /\ pos < len
  /\ buf' = [buf EXCEPT ![pos - 1] = buf[pos], ![pos] = buf[pos - 1]]
  /\ pos' = IF pos # len - 1 THEN pos + 1 ELSE pos
  /\ UNCHANGED len

\* Ctrl-U
DeleteLine == buf' = [buf EXCEPT ![0] = NUL] /\ pos' = 0 /\ len' = 0

\* Ctrl-K
DeleteToEnd == buf' = [buf EXCEPT ![pos] = NUL] /\ len' = pos /\ UNCHANGED pos

\* linenoiseEditHistoryNext: strncpy of a history entry, with NULs after it, at
\* most BufLen bytes, the last of them set to NUL in any case.
Recall(line) ==
  LET n == IF Len(line) < BufLen THEN Len(line) ELSE BufLen - 1
  IN  /\ buf' = [i \in 0 .. BufLen |-> IF i < n THEN line[i + 1]
                                       ELSE IF i < BufLen THEN NUL ELSE buf[i]]
      /\ pos' = n
      /\ len' = n

\* completeLine: snprintf of the completion, whose result is what the string
\* would need and not what fitted.
Complete(line) ==
  LET n == IF Len(line) < BufLen THEN Len(line) ELSE BufLen - 1
  IN  /\ buf' = [i \in 0 .. BufLen |-> IF i < n THEN line[i + 1]
                                       ELSE IF i = n THEN NUL ELSE buf[i]]
      /\ pos' = Len(line)
      /\ len' = Len(line)

\* The cursor is in the line and the line in the buffer, with a NUL after it and
\* none in it: every operation gets its lengths right, so the string that
\* linenoiseExtra duplicates is the line the user has edited.
BufferOK ==
  /\ buf \in [0 .. BufLen -> Chars \cup {NUL}]
  /\ len \in 0 .. BufLen
  /\ pos \in 0 .. len
  /\ buf[len] = NUL
  /\ \A i \in 0 .. len - 1 : buf[i] # NUL
=============================================================================
