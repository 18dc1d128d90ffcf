--------------------------- MODULE LineEditProofs ---------------------------
(***************************************************************************)
(* Theorems about LineEdit, for buffers of any size, any characters and any *)
(* completions that fit: first that the buffer stays a string with a cursor *)
(* in it; then, for any prompt, any hints and terminals of any width up to  *)
(* 1000 columns, what the terminal shows.  The inductive invariant of that  *)
(* part is ScreenInv: between two keys the screen is Drawn.                 *)
(***************************************************************************)
EXTENDS LineEdit, SequenceTheorems, TLAPS

(* ---------------------- The operations on the buffer ------------------- *)

Bytes == Chars \cup {NUL}

\* memmove inside the array keeps it an array of bytes.
LEMMA MovedType ==
  ASSUME NEW b \in [0 .. BufLen -> Bytes], NEW to \in Nat, NEW from \in Nat, NEW n \in Nat,
         to + n <= BufLen + 1, from + n <= BufLen + 1
  PROVE  /\ Moved(b, to, from, n) \in [0 .. BufLen -> Bytes]
         /\ \A k \in 0 .. BufLen :
              Moved(b, to, from, n)[k] =
                IF to <= k /\ k < to + n THEN b[from + k - to] ELSE b[k]
<1> USE BufferAssumption
<1>1. DOMAIN b = 0 .. BufLen
  OBVIOUS
<1>2. ASSUME NEW k \in 0 .. BufLen, to <= k, k < to + n
      PROVE  from + k - to \in 0 .. BufLen
  BY <1>2
<1> QED BY <1>1, <1>2 DEF Moved

\* Inserting shifts the rest of the line by one and keeps everything else.
LEMMA InsertCells ==
  ASSUME BufferOK, NEW c \in Chars, Insert(c)
  PROVE  /\ BufferOK'
         /\ \A k \in 0 .. len : buf'[k] = IF k < pos THEN buf[k]
                                         ELSE IF k = pos THEN c ELSE buf[k - 1]
<1> USE BufferAssumption
<1> DEFINE m == Moved(buf, pos + 1, pos, len - pos)
<1>1. /\ buf \in [0 .. BufLen -> Bytes] /\ pos \in Nat /\ len \in Nat
      /\ pos <= len /\ len < BufLen /\ \A k \in 0 .. len - 1 : buf[k] # NUL
  BY DEF BufferOK, Insert, Bytes
<1>2. /\ m \in [0 .. BufLen -> Bytes]
      /\ \A k \in 0 .. BufLen :
           m[k] = IF pos + 1 <= k /\ k < pos + 1 + (len - pos) THEN buf[pos + k - (pos + 1)]
                  ELSE buf[k]
  BY <1>1, MovedType, len - pos \in Nat
<1> HIDE DEF m
<1>3. /\ buf' = [m EXCEPT ![pos] = c, ![len + 1] = NUL]
      /\ pos' = pos + 1 /\ len' = len + 1
  BY DEF Insert, m
<1>4. buf' \in [0 .. BufLen -> Bytes] /\ buf'[len'] = NUL
  BY <1>1, <1>2, <1>3 DEF Bytes
<1>5. ASSUME NEW k \in 0 .. len
      PROVE  buf'[k] = IF k < pos THEN buf[k] ELSE IF k = pos THEN c ELSE buf[k - 1]
  <2>1. CASE k = pos
    BY <2>1, <1>1, <1>2, <1>3
  <2>2. CASE k < pos
    BY <2>2, <1>1, <1>2, <1>3
  <2>3. CASE k > pos
    <3>1. k - 1 \in 0 .. len - 1 /\ pos + k - (pos + 1) = k - 1 /\ k # len + 1
      BY <2>3, <1>1, <1>3
    <3>2. m[k] = buf[k - 1]
      BY <3>1, <2>3, <1>1, <1>2
    <3> QED BY <3>1, <3>2, <2>3, <1>1, <1>2, <1>3
  <2> QED BY <2>1, <2>2, <2>3, <1>1
<1>6. ASSUME NEW k \in 0 .. len' - 1 PROVE buf'[k] # NUL
  <2>1. k \in 0 .. len
    BY <1>1, <1>3
  <2>2. k > pos => k - 1 \in 0 .. len - 1
    BY <2>1, <1>1
  <2>3. k < pos => k \in 0 .. len - 1
    BY <2>1, <1>1
  <2> QED BY <2>1, <2>2, <2>3, <1>1, <1>5
<1> QED BY <1>1, <1>3, <1>4, <1>5, <1>6 DEF BufferOK, Bytes

LEMMA MoveOK ==
  ASSUME BufferOK, NEW p \in 0 .. len, MoveTo(p) PROVE BufferOK'
BY BufferAssumption DEF BufferOK, MoveTo

\* Delete and backspace close the gap of one character before p.
LEMMA GapClosed ==
  ASSUME BufferOK, NEW p \in 1 .. len,
         buf' = [Moved(buf, p - 1, p, len - p) EXCEPT ![len - 1] = NUL],
         pos' \in 0 .. len - 1, len' = len - 1
  PROVE  /\ BufferOK'
         /\ \A k \in 0 .. len - 2 : buf'[k] = IF k < p - 1 THEN buf[k] ELSE buf[k + 1]
<1> USE BufferAssumption
<1> DEFINE m == Moved(buf, p - 1, p, len - p)
<1>1. /\ buf \in [0 .. BufLen -> Bytes] /\ len \in Nat /\ len <= BufLen
      /\ len > 0 /\ \A k \in 0 .. len - 1 : buf[k] # NUL
  BY DEF BufferOK, Bytes
<1>2. /\ m \in [0 .. BufLen -> Bytes]
      /\ \A k \in 0 .. BufLen :
           m[k] = IF p - 1 <= k /\ k < p - 1 + (len - p) THEN buf[p + k - (p - 1)]
                  ELSE buf[k]
  <2>1. p \in Nat /\ p - 1 \in Nat /\ len - p \in Nat
    BY <1>1
  <2>2. p - 1 + (len - p) <= BufLen + 1 /\ p + (len - p) <= BufLen + 1
    BY <1>1, <2>1
  <2> QED BY SMTT(20), <2>1, <2>2, <1>1, MovedType
<1> HIDE DEF m
<1>3. buf' = [m EXCEPT ![len - 1] = NUL]
  BY DEF m
<1>4. buf' \in [0 .. BufLen -> Bytes] /\ buf'[len'] = NUL
  <2>1. len - 1 \in 0 .. BufLen /\ NUL \in Bytes
    BY <1>1 DEF Bytes
  <2> QED BY <2>1, <1>2, <1>3
<1>5. ASSUME NEW k \in 0 .. len - 2
      PROVE  /\ buf'[k] = IF k < p - 1 THEN buf[k] ELSE buf[k + 1]
             /\ buf'[k] # NUL
  <2>1. k \in 0 .. len - 1 /\ k + 1 \in 0 .. len - 1 /\ k # len - 1
    BY <1>1
  <2>2. CASE k >= p - 1
    <3>1. m[k] = buf[k + 1]
      BY <2>1, <2>2, <1>1, <1>2, p + k - (p - 1) = k + 1
    <3> QED BY <3>1, <2>1, <2>2, <1>1, <1>2, <1>3
  <2>3. CASE k < p - 1
    BY <2>1, <2>3, <1>1, <1>2, <1>3
  <2> QED BY <2>2, <2>3, <2>1
<1>6. 0 .. len' - 1 = 0 .. len - 2
  BY <1>1
<1> QED BY <1>1, <1>4, <1>5, <1>6 DEF BufferOK, Bytes

LEMMA DeleteCells ==
  ASSUME BufferOK, Delete
  PROVE  /\ BufferOK'
         /\ \A k \in 0 .. len - 2 : buf'[k] = IF k < pos THEN buf[k] ELSE buf[k + 1]
<1>1. pos + 1 \in 1 .. len /\ pos \in 0 .. len - 1
  BY BufferAssumption DEF BufferOK, Delete
<1>2. /\ pos + 1 - 1 = pos /\ len - pos - 1 = len - (pos + 1)
      /\ pos' = pos /\ len' = len - 1
  BY <1>1, BufferAssumption DEF BufferOK, Delete
<1>3. buf' = [Moved(buf, pos + 1 - 1, pos + 1, len - (pos + 1)) EXCEPT ![len - 1] = NUL]
  BY <1>2 DEF Delete
<1>4. /\ BufferOK'
      /\ \A k \in 0 .. len - 2 : buf'[k] = IF k < pos + 1 - 1 THEN buf[k] ELSE buf[k + 1]
  BY <1>1, <1>2, <1>3, GapClosed
<1> QED BY <1>2, <1>4

LEMMA BackspaceCells ==
  ASSUME BufferOK, Backspace
  PROVE  /\ BufferOK'
         /\ \A k \in 0 .. len - 2 : buf'[k] = IF k < pos - 1 THEN buf[k] ELSE buf[k + 1]
<1>1. pos \in 1 .. len /\ pos' \in 0 .. len - 1
  BY BufferAssumption DEF BufferOK, Backspace
<1> QED BY <1>1, GapClosed DEF Backspace

\* What is left of a line when the characters from word to the cursor go.
LEMMA WordCells ==
  ASSUME BufferOK, NEW word \in 0 .. pos,
         buf' = Moved(buf, word, pos, len - pos + 1), pos' = word, len' = len - (pos - word)
  PROVE  /\ BufferOK'
         /\ \A k \in 0 .. len' - 1 :
              buf'[k] = IF k < word THEN buf[k] ELSE buf[k + (pos - word)]
<1> USE BufferAssumption
<1>1. /\ buf \in [0 .. BufLen -> Bytes] /\ len \in Nat /\ len <= BufLen
      /\ pos \in Nat /\ pos <= len /\ buf[len] = NUL
      /\ \A k \in 0 .. len - 1 : buf[k] # NUL
  BY DEF BufferOK, Bytes
<1>2. /\ buf' = Moved(buf, word, pos, len - pos + 1)
      /\ pos' = word /\ len' = len - (pos - word) /\ word \in Nat /\ word <= pos
  BY <1>1
<1> DEFINE n == len - pos + 1
           m == Moved(buf, word, pos, n)
<1>3. /\ buf' \in [0 .. BufLen -> Bytes]
      /\ \A k \in 0 .. BufLen :
           buf'[k] = IF word <= k /\ k < word + n THEN buf[pos + k - word] ELSE buf[k]
  <2>1. n \in Nat /\ word + n <= BufLen + 1 /\ pos + n <= BufLen + 1
    BY <1>1, <1>2
  <2>2. buf' = m
    BY <1>2
  <2> HIDE DEF n
  <2>3. /\ m \in [0 .. BufLen -> Bytes]
        /\ \A k \in 0 .. BufLen :
             m[k] = IF word <= k /\ k < word + n THEN buf[pos + k - word] ELSE buf[k]
    BY <2>1, <1>1, <1>2, MovedType
  <2> HIDE DEF m
  <2> QED BY <2>2, <2>3
<1>4. len' \in 0 .. len /\ pos' \in 0 .. len'
  BY <1>1, <1>2
<1>5. buf'[len'] = NUL
  <2>1. /\ word <= len' /\ len' < word + (len - pos + 1) /\ pos + len' - word = len
        /\ len' \in 0 .. BufLen
    BY <1>1, <1>2
  <2>2. buf'[len'] = buf[pos + len' - word]
    BY <2>1, <1>3
  <2> QED BY <2>1, <2>2, <1>1
<1>6. ASSUME NEW k \in 0 .. len' - 1
      PROVE  /\ buf'[k] = IF k < word THEN buf[k] ELSE buf[k + (pos - word)]
             /\ buf'[k] # NUL
  <2>1. k \in 0 .. BufLen /\ k \in 0 .. len - 1
    BY <1>1, <1>2
  <2>2. CASE k < word
    BY <2>1, <2>2, <1>1, <1>2, <1>3
  <2>3. CASE k >= word
    <3>1. /\ k < word + (len - pos + 1) /\ pos + k - word \in 0 .. len - 1
          /\ pos + k - word = k + (pos - word)
      BY <2>3, <1>1, <1>2
    <3> QED BY <2>1, <3>1, <2>3, <1>1, <1>2, <1>3
  <2> QED BY <2>2, <2>3, <1>2, <1>4
<1>7. len' \in 0 .. BufLen
  BY <1>1, <1>4
<1> QED BY <1>3, <1>4, <1>5, <1>6, <1>7 DEF BufferOK, Bytes

LEMMA DeletePrevWordOK == ASSUME BufferOK, DeletePrevWord PROVE BufferOK'
<1>1. PICK word \in 0 .. pos : /\ buf' = Moved(buf, word, pos, len - pos + 1)
                              /\ pos' = word /\ len' = len - (pos - word)
  BY BufferAssumption DEF DeletePrevWord, BufferOK
<1> QED BY <1>1, WordCells

LEMMA TransposeOK == ASSUME BufferOK, Transpose PROVE BufferOK'
BY BufferAssumption DEF BufferOK, Transpose

LEMMA DeleteLineOK == ASSUME BufferOK, DeleteLine PROVE BufferOK'
BY BufferAssumption DEF BufferOK, DeleteLine

LEMMA DeleteToEndOK == ASSUME BufferOK, DeleteToEnd PROVE BufferOK'
BY BufferAssumption DEF BufferOK, DeleteToEnd

\* A line that is copied in is cut so that its NUL fits.
LEMMA RecallOK == ASSUME BufferOK, NEW line \in Line, Recall(line) PROVE BufferOK'
<1> USE BufferAssumption
<1> DEFINE n == IF Len(line) < BufLen THEN Len(line) ELSE BufLen - 1
<1>1. Len(line) \in 0 .. BufLen /\ line \in [1 .. Len(line) -> Chars]
  BY DEF Line
<1>2. n \in 0 .. BufLen - 1 /\ n <= Len(line)
  BY <1>1
<1>3. /\ buf' = [k \in 0 .. BufLen |-> IF k < n THEN line[k + 1]
                                      ELSE IF k < BufLen THEN NUL ELSE buf[k]]
      /\ pos' = n /\ len' = n
  BY DEF Recall
<1>4. \A k \in 0 .. n - 1 : line[k + 1] \in Chars
  BY <1>1, <1>2
<1> HIDE DEF n
<1> QED BY <1>2, <1>3, <1>4 DEF BufferOK

LEMMA CompleteOK ==
  ASSUME BufferOK, NEW line \in Line, Len(line) < BufLen, Complete(line) PROVE BufferOK'
<1> USE BufferAssumption
<1>1. Len(line) \in 0 .. BufLen - 1 /\ line \in [1 .. Len(line) -> Chars]
  BY DEF Line
<1>2. /\ buf' = [k \in 0 .. BufLen |-> IF k < Len(line) THEN line[k + 1]
                                      ELSE IF k = Len(line) THEN NUL ELSE buf[k]]
      /\ pos' = Len(line) /\ len' = Len(line)
  BY DEF Complete
<1>3. \A k \in 0 .. Len(line) - 1 : line[k + 1] \in Chars
  BY <1>1
<1> DEFINE n == Len(line)
<1>4. /\ n \in 0 .. BufLen - 1 /\ pos' = n /\ len' = n
      /\ \A k \in 0 .. n - 1 : line[k + 1] \in Chars
      /\ buf' = [k \in 0 .. BufLen |-> IF k < n THEN line[k + 1]
                                      ELSE IF k = n THEN NUL ELSE buf[k]]
  BY <1>1, <1>2, <1>3
<1> HIDE DEF n
<1> QED BY <1>4 DEF BufferOK

(* ------------------------------ The loop ------------------------------- *)

\* What a step of linenoiseEdit may do to the buffer.
Operation == \/ \E c \in Chars : Insert(c)
             \/ MoveLeft \/ MoveRight \/ MoveHome \/ MoveEnd
             \/ Delete \/ Backspace \/ DeletePrevWord \/ Transpose
             \/ DeleteLine \/ DeleteToEnd
             \/ \E line \in Line : Recall(line)
             \/ \E line \in Line : Len(line) < BufLen /\ Complete(line)
             \/ UNCHANGED bufVars

\* The completion on the screen is one of a list that fits.
LoopOK == lc \in Completions \cup {<< >>} /\ i \in Nat /\ i <= Len(lc)

LEMMA OperationOK == ASSUME BufferOK, Operation PROVE BufferOK'
<1>1. pos \in 0 .. len /\ pos - 1 \in Int /\ len \in Nat /\ pos \in Nat
  BY BufferAssumption DEF BufferOK
<1>2. CASE MoveLeft
  <2>1. pos - 1 \in 0 .. len
    BY <1>1, <1>2 DEF MoveLeft
  <2> QED BY <2>1, <1>2, MoveOK DEF MoveLeft
<1>3. CASE MoveRight
  <2>1. pos + 1 \in 0 .. len
    BY <1>1, <1>3 DEF MoveRight
  <2> QED BY <2>1, <1>3, MoveOK DEF MoveRight
<1>4. CASE MoveHome \/ MoveEnd
  BY <1>1, <1>4, MoveOK DEF MoveHome, MoveEnd
<1>5. CASE UNCHANGED bufVars
  BY <1>5 DEF bufVars, BufferOK
<1> QED
  BY <1>2, <1>3, <1>4, <1>5, InsertCells, DeleteCells, BackspaceCells, DeletePrevWordOK,
     TransposeOK, DeleteLineOK, DeleteToEndOK, RecallOK, CompleteOK DEF Operation

LEMMA CommandOperation == ASSUME NEW name, Command(name) PROVE Operation
<1>1. HistoryLines \subseteq Line
  BY EditAssumption
<1>2. Nothing => UNCHANGED bufVars
  BY DEF Nothing
<1>3. HistoryKey => Operation
  BY <1>1, <1>2 DEF HistoryKey, Operation
<1>4. ClearKey => UNCHANGED bufVars
  BY DEF ClearKey
<1> QED
  BY <1>2, <1>3, <1>4 DEF Command, MoveLeftKey, MoveRightKey, MoveHomeKey, MoveEndKey,
     DeleteKey, BackspaceKey, TransposeKey, Operation

\* Every step of the loop is one operation on the buffer or none.
LEMMA NextOperation == ASSUME BufferOK, LoopOK, Next PROVE Operation
<1>1. Nothing => UNCHANGED bufVars
  BY DEF Nothing
<1>2. ASSUME NEW c \in DOMAIN ControlKeys, Control(c) PROVE Operation
  BY <1>2, CommandOperation DEF Control
<1>3. ASSUME NEW c \in Chars, Type(c) PROVE Operation
  <2>1. InsertKey(c)
    BY <1>3 DEF Type
  <2> QED BY <2>1, <1>1 DEF InsertKey, Operation
<1>4. CtrlD => Operation
  BY <1>1, CommandOperation DEF CtrlD, Operation
<1>5. ASSUME Enter PROVE Operation
  <2>1. UNCHANGED <<buf, len>> /\ pos' = IF mlmode THEN len ELSE pos
    BY <1>5 DEF Enter
  <2>2. CASE mlmode /\ len # pos
    BY <2>1, <2>2 DEF MoveEnd, MoveTo, Operation
  <2>3. CASE ~mlmode \/ len = pos
    BY <2>1, <2>3 DEF Operation, bufVars
  <2> QED BY <2>2, <2>3
<1>6. Stop \/ Escape \/ EscapeFails => Operation
  BY <1>1 DEF Stop, Escape, EscapeFails, Operation
<1>7. ASSUME NEW b \in EscBytes, EscapeFirst(b) \/ EscapeSecond(b) \/ EscapeThird(b)
      PROVE  Operation
  BY <1>1, <1>7, CommandOperation DEF EscapeFirst, EscapeSecond, EscapeThird, Operation
<1>8. Tab \/ NextCompletion \/ LeaveCompletion \/ CompletionFails => Operation
  BY <1>1 DEF Tab, NextCompletion, LeaveCompletion, CompletionFails, ShowCompletion, Operation
<1>9. ASSUME NEW c, AcceptCompletion(c) PROVE Operation
  <2>1. CASE i < Len(lc)
    <3>1. /\ lc \in Completions /\ lc \in Seq(Line)
      BY <2>1, EditAssumption DEF LoopOK
    <3>2. i + 1 \in DOMAIN lc
      BY <2>1, <3>1 DEF LoopOK
    <3>3. lc[i + 1] \in Line /\ Len(lc[i + 1]) < BufLen
      BY <3>1, <3>2, EditAssumption
    <3> QED BY <2>1, <3>3, <1>9 DEF AcceptCompletion, Operation
  <2>2. CASE ~(i < Len(lc))
    BY <2>2, <1>9 DEF AcceptCompletion, Operation
  <2> QED BY <2>1, <2>2
<1> QED
  BY <1>2, <1>3, <1>4, <1>5, <1>6, <1>7, <1>8, <1>9 DEF Next

LEMMA LoopStep == ASSUME LoopOK, [Next]_vars PROVE LoopOK'
<1>1. ASSUME UNCHANGED <<lc, i>> PROVE LoopOK'
  BY <1>1 DEF LoopOK
<1>2. ASSUME FreeCompletions PROVE LoopOK'
  BY <1>2 DEF FreeCompletions, LoopOK
<1>3. Tab => LoopOK'
  BY EditAssumption DEF Tab, LoopOK
<1>4. ASSUME NextCompletion PROVE LoopOK'
  <2>1. Len(lc) \in Nat /\ i \in Nat
    BY EditAssumption DEF LoopOK
  <2>2. (i + 1) % (Len(lc) + 1) \in 0 .. Len(lc)
    BY <2>1
  <2> QED BY <2>1, <2>2, <1>4 DEF NextCompletion, LoopOK
<1>5. UNCHANGED vars => UNCHANGED <<lc, i>>
  BY DEF vars, loopVars
<1>6. \A l : LoopTo(l) => UNCHANGED <<lc, i>>
  BY DEF LoopTo
<1>7. /\ \A c : Control(c) \/ Type(c) => UNCHANGED <<lc, i>>
      /\ CtrlD \/ Enter \/ Stop \/ Escape \/ EscapeFails => UNCHANGED <<lc, i>>
  BY <1>6 DEF Control, Type, CtrlD, Enter, Stop, Escape, EscapeFails
<1>8. \A b : EscapeFirst(b) \/ EscapeSecond(b) \/ EscapeThird(b) => UNCHANGED <<lc, i>>
  BY <1>6 DEF EscapeFirst, EscapeSecond, EscapeThird
<1>9. /\ LeaveCompletion \/ CompletionFails => FreeCompletions
      /\ \A c : AcceptCompletion(c) => FreeCompletions
  BY DEF LeaveCompletion, CompletionFails, AcceptCompletion
<1> QED
  BY <1>1, <1>2, <1>3, <1>4, <1>5, <1>7, <1>8, <1>9 DEF Next

LEMMA InitOK == Init => BufferOK /\ LoopOK
BY BufferAssumption DEF Init, BufInit, BufferOK, LoopOK

LEMMA AlwaysOK == Spec => [](BufferOK /\ LoopOK)
<1>1. BufferOK /\ LoopOK /\ [Next]_vars => (BufferOK /\ LoopOK)'
  <2> SUFFICES ASSUME BufferOK, LoopOK, [Next]_vars PROVE (BufferOK /\ LoopOK)'
    OBVIOUS
  <2>1. UNCHANGED vars => Operation
    BY DEF vars, Operation
  <2>2. Operation
    BY <2>1, NextOperation
  <2> QED BY <2>2, OperationOK, LoopStep
<1> QED BY <1>1, InitOK, PTL DEF Spec

\* The buffer is a string with a cursor in it after every key, for any size of
\* the buffer: linenoiseEditInsert, Delete, Backspace, DeletePrevWord, the
\* control keys, the history and completeLine keep buf, pos and len in step.
THEOREM BufferCorrect == Spec => []BufferOK
BY AlwaysOK, PTL

(* ---------------------------- The refinement --------------------------- *)

\* The text on either side of the cursor, as sequences.
SidesOK ==
  /\ BeforeCursor \in Seq(Chars) /\ Len(BeforeCursor) = pos
  /\ \A k \in 1 .. pos : BeforeCursor[k] = buf[k - 1]
  /\ AfterCursor \in Seq(Chars) /\ Len(AfterCursor) = len - pos
  /\ \A k \in 1 .. len - pos : AfterCursor[k] = buf[pos + k - 1]
  /\ pos \in Nat /\ len \in Nat /\ len - pos \in Nat /\ len <= BufLen

LEMMA Slices ==
  ASSUME NEW b, NEW p, NEW l,
         b \in [0 .. BufLen -> Chars \cup {NUL}], l \in 0 .. BufLen, p \in 0 .. l,
         \A k \in 0 .. l - 1 : b[k] # NUL
  PROVE  LET before == [k \in 1 .. p |-> b[k - 1]]
             after == [k \in 1 .. l - p |-> b[p + k - 1]]
         IN  /\ before \in Seq(Chars) /\ Len(before) = p
             /\ \A k \in 1 .. p : before[k] = b[k - 1]
             /\ after \in Seq(Chars) /\ Len(after) = l - p
             /\ \A k \in 1 .. l - p : after[k] = b[p + k - 1]
             /\ p \in Nat /\ l \in Nat /\ l - p \in Nat /\ l <= BufLen
<1> USE BufferAssumption
<1>1. p \in Nat /\ l \in Nat /\ l - p \in Nat /\ l <= BufLen
  OBVIOUS
<1>2. \A k \in 1 .. p : b[k - 1] \in Chars
  BY <1>1
<1>3. \A k \in 1 .. l - p : b[p + k - 1] \in Chars
  <2> SUFFICES ASSUME NEW k \in 1 .. l - p PROVE b[p + k - 1] \in Chars
    OBVIOUS
  <2>1. p + k - 1 \in 0 .. l - 1 /\ p + k - 1 \in 0 .. BufLen
    BY <1>1
  <2> QED BY <2>1
<1> QED BY <1>1, <1>2, <1>3

LEMMA Sides == BufferOK => SidesOK
BY Slices DEF BufferOK, SidesOK, BeforeCursor, AfterCursor

LEMMA SidesNext == BufferOK' => SidesOK'
BY Slices DEF BufferOK, SidesOK, BeforeCursor, AfterCursor

\* A sequence is the text before, or after, the new cursor if its characters are
\* those of the new buffer.
LEMMA NewLeft ==
  ASSUME BufferOK', NEW s \in Seq(Chars), Len(s) = pos',
         \A k \in 1 .. pos' : s[k] = buf'[k - 1]
  PROVE  BeforeCursor' = s
BY SidesNext, SeqEqual DEF SidesOK

LEMMA NewRight ==
  ASSUME BufferOK', NEW s \in Seq(Chars), Len(s) = len' - pos',
         \A k \in 1 .. len' - pos' : s[k] = buf'[pos' + k - 1]
  PROVE  AfterCursor' = s
BY SidesNext, SeqEqual DEF SidesOK

\* The operators of LineEditor, character by character.
LEMMA Prefix ==
  ASSUME NEW s \in Seq(Chars), NEW n \in 0 .. Len(s)
  PROVE  /\ Editor!FirstOf(s, n) \in Seq(Chars)
         /\ Len(Editor!FirstOf(s, n)) = n
         /\ \A k \in 1 .. n : Editor!FirstOf(s, n)[k] = s[k]
<1>1. Len(s) \in Nat /\ n \in Int /\ 1 \in Int /\ n \in Nat
  BY LenProperties
<1>2. \A k \in 1 .. n : s[k] \in Chars
  BY <1>1, ElementOfSeq
<1>3. /\ SubSeq(s, 1, n) \in Seq(Chars)
      /\ Len(SubSeq(s, 1, n)) = IF 1 <= n THEN n - 1 + 1 ELSE 0
      /\ \A k \in 1 .. n - 1 + 1 : SubSeq(s, 1, n)[k] = s[1 + k - 1]
  BY <1>1, <1>2, SubSeqProperties
<1>4. n - 1 + 1 = n /\ \A k \in 1 .. n : 1 + k - 1 = k
  BY <1>1
<1> QED BY <1>1, <1>3, <1>4 DEF Editor!FirstOf

LEMMA Joined ==
  ASSUME NEW c \in Chars, NEW s \in Seq(Chars)
  PROVE  /\ <<c>> \o s \in Seq(Chars)
         /\ Len(<<c>> \o s) = Len(s) + 1
         /\ \A k \in 1 .. Len(s) + 1 : (<<c>> \o s)[k] = IF k = 1 THEN c ELSE s[k - 1]
<1>1. <<c>> \in Seq(Chars) /\ Len(<<c>>) = 1 /\ <<c>>[1] = c /\ Len(s) \in Nat
  BY LenProperties
<1>2. /\ <<c>> \o s \in Seq(Chars)
      /\ Len(<<c>> \o s) = 1 + Len(s)
      /\ \A k \in 1 .. 1 + Len(s) :
           (<<c>> \o s)[k] = IF k <= 1 THEN <<c>>[k] ELSE s[k - 1]
  BY <1>1, ConcatProperties
<1> QED BY <1>1, <1>2

LEMMA Extended ==
  ASSUME NEW s \in Seq(Chars), NEW c \in Chars
  PROVE  /\ Append(s, c) \in Seq(Chars)
         /\ Len(Append(s, c)) = Len(s) + 1
         /\ \A k \in 1 .. Len(s) + 1 :
              Append(s, c)[k] = IF k <= Len(s) THEN s[k] ELSE c
<1>1. Len(s) \in Nat
  BY LenProperties
<1>2. /\ Append(s, c) \in Seq(Chars)
      /\ Len(Append(s, c)) = Len(s) + 1
      /\ \A k \in 1 .. Len(s) : Append(s, c)[k] = s[k]
      /\ Append(s, c)[Len(s) + 1] = c
  BY AppendProperties
<1> QED BY <1>1, <1>2

LEMMA HeadAndTail ==
  ASSUME NEW s \in Seq(Chars), Len(s) > 0
  PROVE  /\ s # << >> /\ Head(s) = s[1] /\ Head(s) \in Chars
         /\ Tail(s) \in Seq(Chars)
         /\ Len(Tail(s)) = Len(s) - 1
         /\ \A k \in 1 .. Len(s) - 1 : Tail(s)[k] = s[k + 1]
<1>1. s # << >> /\ Head(s) = s[1]
  BY LenProperties
<1> QED BY <1>1, HeadTailProperties

LEMMA InsertMaps ==
  ASSUME BufferOK, NEW c \in Chars, Insert(c) PROVE Editor!Insert(c)
<1>1. /\ BufferOK' /\ SidesOK /\ len < BufLen /\ pos' = pos + 1 /\ len' = len + 1
      /\ \A k \in 0 .. len : buf'[k] = IF k < pos THEN buf[k]
                                      ELSE IF k = pos THEN c ELSE buf[k - 1]
  BY InsertCells, Sides DEF Insert
<1>2. /\ Append(BeforeCursor, c) \in Seq(Chars)
      /\ Len(Append(BeforeCursor, c)) = pos + 1
      /\ \A k \in 1 .. pos + 1 :
           Append(BeforeCursor, c)[k] = IF k <= pos THEN BeforeCursor[k] ELSE c
  BY <1>1, Extended DEF SidesOK
<1>3. ASSUME NEW k \in 1 .. pos'
      PROVE  Append(BeforeCursor, c)[k] = buf'[k - 1]
  <2>1. k \in 1 .. pos + 1 /\ k - 1 \in 0 .. len
    BY <1>1 DEF SidesOK
  <2>2. CASE k <= pos
    <3>1. k \in 1 .. pos /\ k - 1 < pos
      BY <2>1, <2>2, <1>1 DEF SidesOK
    <3>2. BeforeCursor[k] = buf[k - 1]
      BY <3>1, <1>1 DEF SidesOK
    <3> QED BY <3>1, <3>2, <2>1, <2>2, <1>1, <1>2
  <2>3. CASE k = pos + 1
    BY <2>1, <2>3, <1>1, <1>2 DEF SidesOK
  <2>4. k <= pos \/ k = pos + 1
    BY <2>1, <1>1 DEF SidesOK
  <2> QED BY <2>2, <2>3, <2>4
<1>4. BeforeCursor' = Append(BeforeCursor, c)
  BY <1>1, <1>2, <1>3, NewLeft
<1>5. ASSUME NEW k \in 1 .. len' - pos'
      PROVE  AfterCursor[k] = buf'[pos' + k - 1]
  BY <1>1 DEF SidesOK
<1>6. AfterCursor' = AfterCursor
  <2>1. Len(AfterCursor) = len' - pos' /\ AfterCursor \in Seq(Chars)
    BY <1>1 DEF SidesOK
  <2> QED BY <2>1, <1>1, <1>5, NewRight
<1> QED BY <1>1, <1>4, <1>6 DEF Editor!Insert, SidesOK

LEMMA MoveLeftMaps == ASSUME BufferOK, MoveLeft PROVE Editor!MoveLeft
<1>1. /\ SidesOK /\ pos > 0 /\ pos' = pos - 1 /\ UNCHANGED <<buf, len>>
  BY Sides DEF MoveLeft, MoveTo
<1>2. BufferOK'
  BY <1>1, MoveOK, pos - 1 \in 0 .. len DEF SidesOK, MoveLeft
<1> DEFINE l == Editor!FirstOf(BeforeCursor, Len(BeforeCursor) - 1)
           c == BeforeCursor[pos]
<1>3. /\ l \in Seq(Chars) /\ Len(l) = pos - 1
      /\ \A k \in 1 .. pos - 1 : l[k] = BeforeCursor[k]
  BY <1>1, Prefix, Len(BeforeCursor) - 1 \in 0 .. Len(BeforeCursor) DEF SidesOK
<1>4. c \in Chars /\ c = buf[pos - 1] /\ Editor!LastChar(BeforeCursor) = c
  BY <1>1, ElementOfSeq DEF SidesOK, Editor!LastChar
<1> HIDE DEF l, c
<1>5. /\ <<c>> \o AfterCursor \in Seq(Chars) /\ Len(<<c>> \o AfterCursor) = len - pos + 1
      /\ \A k \in 1 .. len - pos + 1 :
           (<<c>> \o AfterCursor)[k] = IF k = 1 THEN c ELSE AfterCursor[k - 1]
  <2>1. AfterCursor \in Seq(Chars) /\ Len(AfterCursor) = len - pos
    BY <1>1 DEF SidesOK
  <2> QED BY <1>4, <2>1, Joined
<1>6. BeforeCursor # << >>
  BY <1>1 DEF SidesOK
<1>7. BeforeCursor' = l
  <2>1. \A k \in 1 .. pos' : l[k] = buf'[k - 1]
    BY <1>1, <1>3 DEF SidesOK
  <2> QED BY <1>1, <1>2, <1>3, <2>1, NewLeft
<1>8. AfterCursor' = <<c>> \o AfterCursor
  <2>1. ASSUME NEW k \in 1 .. len' - pos'
        PROVE  (<<c>> \o AfterCursor)[k] = buf'[pos' + k - 1]
    BY <1>1, <1>4, <1>5 DEF SidesOK
  <2>2. Len(<<c>> \o AfterCursor) = len' - pos'
    BY <1>1, <1>5 DEF SidesOK
  <2> QED BY <1>2, <1>5, <2>1, <2>2, NewRight
<1> QED BY <1>4, <1>6, <1>7, <1>8 DEF Editor!MoveLeft, l

LEMMA MoveRightMaps == ASSUME BufferOK, MoveRight PROVE Editor!MoveRight
<1>1. /\ SidesOK /\ pos < len /\ pos' = pos + 1 /\ UNCHANGED <<buf, len>>
  BY Sides, BufferAssumption DEF MoveRight, MoveTo, BufferOK
<1>2. BufferOK'
  BY <1>1, MoveOK, pos + 1 \in 0 .. len DEF SidesOK, MoveRight
<1>3. /\ AfterCursor # << >> /\ Head(AfterCursor) \in Chars
      /\ Head(AfterCursor) = buf[pos]
      /\ Tail(AfterCursor) \in Seq(Chars) /\ Len(Tail(AfterCursor)) = len - pos - 1
      /\ \A k \in 1 .. len - pos - 1 : Tail(AfterCursor)[k] = AfterCursor[k + 1]
  BY <1>1, HeadAndTail DEF SidesOK
<1> DEFINE l == Append(BeforeCursor, Head(AfterCursor))
<1>4. /\ l \in Seq(Chars) /\ Len(l) = pos + 1
      /\ \A k \in 1 .. pos + 1 : l[k] = IF k <= pos THEN BeforeCursor[k]
                                       ELSE Head(AfterCursor)
  BY <1>1, <1>3, Extended DEF SidesOK
<1> HIDE DEF l
<1>5. BeforeCursor' = l
  <2>1. ASSUME NEW k \in 1 .. pos' PROVE l[k] = buf'[k - 1]
    <3>1. k \in 1 .. pos + 1
      BY <1>1
    <3>2. CASE k <= pos
      BY <3>1, <3>2, <1>1, <1>4 DEF SidesOK
    <3>3. CASE k = pos + 1
      BY <3>1, <3>3, <1>1, <1>3, <1>4 DEF SidesOK
    <3>4. k <= pos \/ k = pos + 1
      BY <3>1, <1>1 DEF SidesOK
    <3> QED BY <3>2, <3>3, <3>4
  <2> QED BY <1>1, <1>2, <1>4, <2>1, NewLeft
<1>6. AfterCursor' = Tail(AfterCursor)
  <2>1. ASSUME NEW k \in 1 .. len' - pos'
        PROVE  Tail(AfterCursor)[k] = buf'[pos' + k - 1]
    BY <1>1, <1>3 DEF SidesOK
  <2>2. Len(Tail(AfterCursor)) = len' - pos'
    BY <1>1, <1>3 DEF SidesOK
  <2> QED BY <1>2, <1>3, <2>1, <2>2, NewRight
<1> QED BY <1>3, <1>5, <1>6 DEF Editor!MoveRight, l

LEMMA JoinedSides ==
  ASSUME SidesOK
  PROVE  /\ BeforeCursor \o AfterCursor \in Seq(Chars)
         /\ Len(BeforeCursor \o AfterCursor) = len
         /\ \A k \in 1 .. len : (BeforeCursor \o AfterCursor)[k] = buf[k - 1]
<1> DEFINE b == BeforeCursor
           a == AfterCursor
           s == b \o a
<1>1. /\ b \in Seq(Chars) /\ Len(b) = pos /\ \A k \in 1 .. pos : b[k] = buf[k - 1]
      /\ a \in Seq(Chars) /\ Len(a) = len - pos
      /\ \A k \in 1 .. len - pos : a[k] = buf[pos + k - 1]
      /\ pos \in Nat /\ len \in Nat /\ pos + (len - pos) = len
  BY DEF SidesOK
<1> HIDE DEF a, b
<1>2. /\ s \in Seq(Chars) /\ Len(s) = Len(b) + Len(a)
      /\ \A k \in 1 .. Len(b) + Len(a) : s[k] = IF k <= Len(b) THEN b[k] ELSE a[k - Len(b)]
  BY <1>1, ConcatProperties
<1> HIDE DEF s
<1>3. Len(b) + Len(a) = len
  BY <1>1
<1>4. ASSUME NEW k \in 1 .. len PROVE s[k] = buf[k - 1]
  <2>1. CASE k <= pos
    BY <2>1, <1>1, <1>2, <1>3
  <2>2. CASE k > pos
    <3>1. k - pos \in 1 .. len - pos /\ pos + (k - pos) - 1 = k - 1
      BY <2>2, <1>1
    <3>2. a[k - pos] = buf[k - 1]
      BY <3>1, <1>1
    <3> QED BY <3>2, <2>2, <1>1, <1>2, <1>3
  <2>3. k <= pos \/ k > pos
    BY <1>1
  <2> QED BY <2>1, <2>2, <2>3
<1>5. s \in Seq(Chars) /\ Len(s) = len
  BY <1>2, <1>3
<1> QED BY <1>4, <1>5 DEF a, b, s

LEMMA NoLeft == ASSUME BufferOK', pos' = 0 PROVE BeforeCursor' = << >>
<1>1. \A k \in 1 .. pos' : << >>[k] = buf'[k - 1]
  OBVIOUS
<1>2. << >> \in Seq(Chars) /\ Len(<< >>) = pos'
  BY EmptySeq
<1> QED BY <1>1, <1>2, NewLeft

LEMMA NoRight == ASSUME BufferOK', len' - pos' = 0 PROVE AfterCursor' = << >>
<1>1. \A k \in 1 .. len' - pos' : << >>[k] = buf'[pos' + k - 1]
  OBVIOUS
<1>2. << >> \in Seq(Chars) /\ Len(<< >>) = len' - pos'
  BY EmptySeq
<1> QED BY <1>1, <1>2, NewRight

LEMMA MoveHomeMaps == ASSUME BufferOK, MoveHome PROVE Editor!MoveHome
<1>1. /\ SidesOK /\ pos' = 0 /\ UNCHANGED <<buf, len>>
  BY Sides DEF MoveHome, MoveTo
<1>2. BufferOK'
  BY <1>1, MoveOK, 0 \in 0 .. len DEF SidesOK, MoveHome
<1> DEFINE r == BeforeCursor \o AfterCursor
<1>3. r \in Seq(Chars) /\ Len(r) = len /\ \A k \in 1 .. len : r[k] = buf[k - 1]
  BY <1>1, JoinedSides
<1> HIDE DEF r
<1>4. AfterCursor' = r
  <2>1. len' - pos' = len /\ \A k \in 1 .. len : pos' + k - 1 = k - 1
    BY <1>1 DEF SidesOK
  <2>2. \A k \in 1 .. len' - pos' : r[k] = buf'[pos' + k - 1]
    BY <2>1, <1>1, <1>3
  <2> QED BY <1>2, <1>3, <2>1, <2>2, NewRight
<1> QED BY <1>1, <1>2, <1>4, NoLeft DEF Editor!MoveHome, r

LEMMA MoveEndMaps == ASSUME BufferOK, MoveEnd PROVE Editor!MoveEnd
<1>1. /\ SidesOK /\ pos' = len /\ UNCHANGED <<buf, len>>
  BY Sides DEF MoveEnd, MoveTo
<1>2. BufferOK'
  BY <1>1, MoveOK, len \in 0 .. len DEF SidesOK, MoveEnd
<1>3. BeforeCursor' = BeforeCursor \o AfterCursor
  BY <1>1, <1>2, JoinedSides, NewLeft
<1>4. len' - pos' = 0
  BY <1>1 DEF SidesOK
<1> QED BY <1>2, <1>3, <1>4, NoRight DEF Editor!MoveEnd

LEMMA DeleteMaps == ASSUME BufferOK, Delete PROVE Editor!Delete
<1>1. /\ BufferOK' /\ SidesOK /\ pos < len /\ pos' = pos /\ len' = len - 1
      /\ \A k \in 0 .. len - 2 : buf'[k] = IF k < pos THEN buf[k] ELSE buf[k + 1]
  BY DeleteCells, Sides DEF Delete
<1>2. /\ AfterCursor # << >>
      /\ Tail(AfterCursor) \in Seq(Chars) /\ Len(Tail(AfterCursor)) = len - pos - 1
      /\ \A k \in 1 .. len - pos - 1 : Tail(AfterCursor)[k] = AfterCursor[k + 1]
  BY <1>1, HeadAndTail DEF SidesOK
<1>3. AfterCursor' = Tail(AfterCursor)
  <2>1. ASSUME NEW k \in 1 .. len' - pos'
        PROVE  Tail(AfterCursor)[k] = buf'[pos' + k - 1]
    <3>1. /\ k \in 1 .. len - pos - 1 /\ pos + k - 1 \in 0 .. len - 2
          /\ ~(pos + k - 1 < pos) /\ pos + k - 1 + 1 = pos + (k + 1) - 1
          /\ k + 1 \in 1 .. len - pos
      BY <1>1 DEF SidesOK
    <3>2. AfterCursor[k + 1] = buf[pos + (k + 1) - 1]
      BY <3>1, <1>1 DEF SidesOK
    <3> QED BY <3>1, <3>2, <1>1, <1>2
  <2>2. Len(Tail(AfterCursor)) = len' - pos'
    BY <1>1, <1>2 DEF SidesOK
  <2> QED BY <1>1, <1>2, <2>1, <2>2, NewRight
<1>4. BeforeCursor' = BeforeCursor
  <2>1. ASSUME NEW k \in 1 .. pos' PROVE BeforeCursor[k] = buf'[k - 1]
    BY SMTT(20), <1>1 DEF SidesOK
  <2>2. BeforeCursor \in Seq(Chars) /\ Len(BeforeCursor) = pos'
    BY <1>1 DEF SidesOK
  <2> QED BY <1>1, <2>1, <2>2, NewLeft
<1> QED BY <1>2, <1>3, <1>4 DEF Editor!Delete

LEMMA BackspaceMaps == ASSUME BufferOK, Backspace PROVE Editor!Backspace
<1>1. /\ BufferOK' /\ SidesOK /\ pos > 0 /\ pos' = pos - 1 /\ len' = len - 1
      /\ \A k \in 0 .. len - 2 : buf'[k] = IF k < pos - 1 THEN buf[k] ELSE buf[k + 1]
  BY BackspaceCells, Sides DEF Backspace
<1> DEFINE l == Editor!FirstOf(BeforeCursor, Len(BeforeCursor) - 1)
<1>2. /\ l \in Seq(Chars) /\ Len(l) = pos - 1
      /\ \A k \in 1 .. pos - 1 : l[k] = BeforeCursor[k]
  BY <1>1, Prefix, Len(BeforeCursor) - 1 \in 0 .. Len(BeforeCursor) DEF SidesOK
<1> HIDE DEF l
<1>3. BeforeCursor' = l
  <2>1. ASSUME NEW k \in 1 .. pos' PROVE l[k] = buf'[k - 1]
    BY <1>1, <1>2 DEF SidesOK
  <2> QED BY <1>1, <1>2, <2>1, NewLeft
<1>4. AfterCursor' = AfterCursor
  <2>1. ASSUME NEW k \in 1 .. len' - pos'
        PROVE  AfterCursor[k] = buf'[pos' + k - 1]
    <3>1. /\ k \in 1 .. len - pos /\ pos' + k - 1 \in 0 .. len - 2
          /\ ~(pos' + k - 1 < pos - 1) /\ pos' + k - 1 + 1 = pos + k - 1
      BY <1>1 DEF SidesOK
    <3> QED BY <3>1, <1>1 DEF SidesOK
  <2>2. AfterCursor \in Seq(Chars) /\ Len(AfterCursor) = len' - pos'
    BY <1>1 DEF SidesOK
  <2> QED BY <1>1, <2>1, <2>2, NewRight
<1>5. BeforeCursor # << >>
  BY <1>1 DEF SidesOK
<1> QED BY <1>3, <1>4, <1>5 DEF Editor!Backspace, l

LEMMA DeletePrevWordMaps ==
  ASSUME BufferOK, DeletePrevWord PROVE Editor!DeletePrevWord
<1>1. SidesOK
  BY Sides
<1>2. PICK end \in 0 .. pos, word \in 0 .. pos :
        /\ word <= end
        /\ \A k \in end .. pos - 1 : buf[k] = Space
        /\ end > 0 => buf[end - 1] # Space
        /\ \A k \in word .. end - 1 : buf[k] # Space
        /\ word > 0 => buf[word - 1] = Space
        /\ buf' = Moved(buf, word, pos, len - pos + 1)
        /\ pos' = word /\ len' = len - (pos - word)
  <2>1. PICK end \in 0 .. pos : \E word \in 0 .. end :
          /\ \A k \in end .. pos - 1 : buf[k] = Space
          /\ end > 0 => buf[end - 1] # Space
          /\ \A k \in word .. end - 1 : buf[k] # Space
          /\ word > 0 => buf[word - 1] = Space
          /\ buf' = Moved(buf, word, pos, len - pos + 1)
          /\ pos' = word /\ len' = len - (pos - word)
    BY DEF DeletePrevWord
  <2>2. \A word \in 0 .. end : word \in 0 .. pos /\ word <= end
    BY <1>1 DEF SidesOK
  <2> QED BY <2>1, <2>2
<1>3. word \in 0 .. pos /\ word \in 0 .. Len(BeforeCursor) /\ end \in 0 .. Len(BeforeCursor)
  BY <1>1 DEF SidesOK
<1>4. /\ BufferOK'
      /\ \A k \in 0 .. len' - 1 :
           buf'[k] = IF k < word THEN buf[k] ELSE buf[k + (pos - word)]
  BY <1>2, <1>3, WordCells
<1> DEFINE l == Editor!FirstOf(BeforeCursor, word)
<1>5. /\ l \in Seq(Chars) /\ Len(l) = word /\ \A k \in 1 .. word : l[k] = BeforeCursor[k]
  BY <1>1, <1>3, Prefix DEF SidesOK
<1> HIDE DEF l
<1>6. BeforeCursor' = l
  <2>1. ASSUME NEW k \in 1 .. pos' PROVE l[k] = buf'[k - 1]
    <3>1. k \in 1 .. pos /\ k \in 1 .. word /\ k - 1 \in 0 .. len' - 1 /\ k - 1 < word
      BY <1>1, <1>2, <1>3 DEF SidesOK
    <3> QED BY <3>1, <1>1, <1>4, <1>5 DEF SidesOK
  <2> QED BY <1>2, <1>4, <1>5, <2>1, NewLeft
<1>7. AfterCursor' = AfterCursor
  <2>1. ASSUME NEW k \in 1 .. len' - pos'
        PROVE  AfterCursor[k] = buf'[pos' + k - 1]
    <3>1. /\ pos' = word /\ word \in Nat /\ pos \in Nat /\ len \in Nat
          /\ len' - pos' = len - pos
      BY <1>1, <1>2, <1>3 DEF SidesOK
    <3>2. /\ k \in 1 .. len - pos /\ pos' + k - 1 \in 0 .. len' - 1
          /\ ~(pos' + k - 1 < word) /\ pos' + k - 1 + (pos - word) = pos + k - 1
      BY <3>1, <1>2
    <3>3. AfterCursor[k] = buf[pos + k - 1]
      BY <3>2, <1>1 DEF SidesOK
    <3> QED BY <3>2, <3>3, <1>4
  <2>2. AfterCursor \in Seq(Chars) /\ Len(AfterCursor) = len' - pos'
    BY <1>1, <1>2, <1>3 DEF SidesOK
  <2> QED BY <1>4, <2>1, <2>2, NewRight
<1>8. /\ word <= end
      /\ \A k \in word + 1 .. end : BeforeCursor[k] # Space
      /\ \A k \in end + 1 .. Len(BeforeCursor) : BeforeCursor[k] = Space
      /\ word > 0 => BeforeCursor[word] = Space
      /\ end > 0 => BeforeCursor[end] # Space
  <2>1. ASSUME NEW k \in 1 .. pos
        PROVE  /\ BeforeCursor[k] = buf[k - 1]
               /\ k \in word + 1 .. end => k - 1 \in word .. end - 1
               /\ k \in end + 1 .. pos => k - 1 \in end .. pos - 1
    BY <1>1, <1>3 DEF SidesOK
  <2>2. ASSUME NEW k \in word + 1 .. end
        PROVE  k \in 1 .. pos /\ BeforeCursor[k] # Space
    <3>1. k \in 1 .. pos /\ k - 1 \in word .. end - 1
      BY <1>1, <1>2 DEF SidesOK
    <3> QED BY <3>1, <2>1, <1>2
  <2>3. ASSUME NEW k \in end + 1 .. pos
        PROVE  k \in 1 .. pos /\ BeforeCursor[k] = Space
    <3>1. k \in 1 .. pos /\ k - 1 \in end .. pos - 1
      BY <1>1, <1>2 DEF SidesOK
    <3> QED BY <3>1, <2>1, <1>2
  <2>4. (word > 0 => word \in 1 .. pos) /\ (end > 0 => end \in 1 .. pos) /\ word <= end
    BY <1>1, <1>2 DEF SidesOK
  <2>5. Len(BeforeCursor) = pos
    BY <1>1 DEF SidesOK
  <2> QED BY <2>1, <2>2, <2>3, <2>4, <2>5, <1>2
<1> QED BY <1>3, <1>6, <1>7, <1>8 DEF Editor!DeletePrevWord, l

\* The line around the cursor after Ctrl-T: before is the text before the cursor,
\* after the text behind it, x and y the characters that change places.
LEMMA Swapped ==
  ASSUME NEW before \in Seq(Chars), NEW after \in Seq(Chars),
         Len(before) > 0, Len(after) > 0
  PROVE  LET x == before[Len(before)]
             swapped == Append(Editor!FirstOf(before, Len(before) - 1), Head(after))
             rest == <<x>> \o Tail(after)
         IN  /\ x \in Chars
             /\ swapped \in Seq(Chars) /\ Len(swapped) = Len(before)
             /\ \A k \in 1 .. Len(before) :
                  swapped[k] = IF k < Len(before) THEN before[k] ELSE after[1]
             /\ rest \in Seq(Chars) /\ Len(rest) = Len(after)
             /\ \A k \in 1 .. Len(after) : rest[k] = IF k = 1 THEN x ELSE after[k]
<1> DEFINE x == before[Len(before)]
           first == Editor!FirstOf(before, Len(before) - 1)
           swapped == Append(first, Head(after))
           rest == <<x>> \o Tail(after)
<1>1. Len(before) \in Nat /\ Len(after) \in Nat
  BY LenProperties
<1>2. x \in Chars
  BY <1>1, ElementOfSeq
<1>3. /\ Head(after) = after[1] /\ Head(after) \in Chars
      /\ Tail(after) \in Seq(Chars) /\ Len(Tail(after)) = Len(after) - 1
      /\ \A k \in 1 .. Len(after) - 1 : Tail(after)[k] = after[k + 1]
  BY HeadAndTail
<1>4. /\ first \in Seq(Chars) /\ Len(first) = Len(before) - 1
      /\ \A k \in 1 .. Len(before) - 1 : first[k] = before[k]
  BY <1>1, Prefix, Len(before) - 1 \in 0 .. Len(before)
<1> HIDE DEF x, first
<1>5. /\ swapped \in Seq(Chars) /\ Len(swapped) = Len(before) - 1 + 1
      /\ \A k \in 1 .. Len(before) - 1 + 1 :
           swapped[k] = IF k <= Len(before) - 1 THEN first[k] ELSE Head(after)
  BY <1>3, <1>4, Extended
<1>6. /\ rest \in Seq(Chars) /\ Len(rest) = Len(after) - 1 + 1
      /\ \A k \in 1 .. Len(after) - 1 + 1 :
           rest[k] = IF k = 1 THEN x ELSE Tail(after)[k - 1]
  BY <1>2, <1>3, Joined
<1> HIDE DEF swapped, rest
<1>7. /\ Len(before) - 1 + 1 = Len(before) /\ Len(after) - 1 + 1 = Len(after)
  BY <1>1
<1>8. ASSUME NEW k \in 1 .. Len(before)
      PROVE  swapped[k] = IF k < Len(before) THEN before[k] ELSE after[1]
  <2>1. k <= Len(before) - 1 <=> k < Len(before)
    BY <1>1
  <2>2. k < Len(before) => k \in 1 .. Len(before) - 1
    BY <1>1
  <2> QED BY <2>1, <2>2, <1>3, <1>4, <1>5, <1>7
<1>9. ASSUME NEW k \in 1 .. Len(after)
      PROVE  rest[k] = IF k = 1 THEN x ELSE after[k]
  <2>1. k # 1 => k - 1 \in 1 .. Len(after) - 1 /\ k - 1 + 1 = k
    BY <1>1
  <2> QED BY <2>1, <1>3, <1>6, <1>7
<1>10. /\ swapped \in Seq(Chars) /\ Len(swapped) = Len(before)
       /\ rest \in Seq(Chars) /\ Len(rest) = Len(after)
  BY <1>5, <1>6, <1>7
<1> QED BY <1>2, <1>8, <1>9, <1>10 DEF x, first, swapped, rest

LEMMA TransposeMaps == ASSUME BufferOK, Transpose PROVE Editor!Transpose
<1> DEFINE x == BeforeCursor[Len(BeforeCursor)]
           swapped == Append(Editor!FirstOf(BeforeCursor, Len(BeforeCursor) - 1),
                             Head(AfterCursor))
           rest == <<x>> \o Tail(AfterCursor)
<1>1. /\ SidesOK /\ BufferOK' /\ pos > 0 /\ pos < len /\ len' = len
      /\ buf' = [buf EXCEPT ![pos - 1] = buf[pos], ![pos] = buf[pos - 1]]
      /\ pos' = IF pos # len - 1 THEN pos + 1 ELSE pos
      /\ buf \in [0 .. BufLen -> Bytes]
  BY Sides, TransposeOK DEF Transpose, BufferOK, Bytes
<1>2. /\ BeforeCursor \in Seq(Chars) /\ Len(BeforeCursor) = pos
      /\ AfterCursor \in Seq(Chars) /\ Len(AfterCursor) = len - pos
      /\ pos \in Nat /\ len \in Nat /\ pos > 0 /\ len - pos > 0 /\ len <= BufLen
  BY <1>1 DEF SidesOK
<1>3. /\ x \in Chars
      /\ swapped \in Seq(Chars) /\ Len(swapped) = Len(BeforeCursor)
      /\ \A k \in 1 .. Len(BeforeCursor) :
           swapped[k] = IF k < Len(BeforeCursor) THEN BeforeCursor[k] ELSE AfterCursor[1]
      /\ rest \in Seq(Chars) /\ Len(rest) = Len(AfterCursor)
      /\ \A k \in 1 .. Len(AfterCursor) : rest[k] = IF k = 1 THEN x ELSE AfterCursor[k]
  BY <1>2, Swapped
<1>4. x = buf[pos - 1] /\ AfterCursor[1] = buf[pos]
  <2>1. pos \in 1 .. pos /\ 1 \in 1 .. len - pos /\ pos + 1 - 1 = pos
    BY <1>2
  <2> QED BY <2>1, <1>1, <1>2 DEF SidesOK
<1> HIDE DEF x, swapped, rest
\* The characters of the buffer after the step.
<1>5. ASSUME NEW k \in 1 .. pos PROVE swapped[k] = buf'[k - 1]
  <2>1. k - 1 \in 0 .. BufLen /\ k - 1 # pos /\ (k < pos => k - 1 # pos - 1)
        /\ (~(k < pos) => k = pos)
    BY <1>2, BufferAssumption
  <2>2. BeforeCursor[k] = buf[k - 1]
    BY <1>1 DEF SidesOK
  <2>3. CASE k < pos
    BY <2>1, <2>2, <2>3, <1>1, <1>2, <1>3
  <2>4. CASE k = pos
    BY <2>1, <2>4, <1>1, <1>2, <1>3, <1>4
  <2> QED BY <2>1, <2>3, <2>4
<1>6. ASSUME NEW k \in 1 .. len - pos PROVE rest[k] = buf'[pos + k - 1]
  <2>1. pos + k - 1 \in 0 .. BufLen /\ pos + k - 1 # pos - 1
        /\ (k = 1 => pos + k - 1 = pos) /\ (k # 1 => pos + k - 1 # pos)
    BY <1>2, BufferAssumption
  <2>2. AfterCursor[k] = buf[pos + k - 1]
    BY <1>1 DEF SidesOK
  <2>3. CASE k = 1
    BY <2>1, <2>3, <1>1, <1>2, <1>3, <1>4
  <2>4. CASE k # 1
    BY <2>1, <2>2, <2>4, <1>1, <1>2, <1>3
  <2> QED BY <2>3, <2>4
<1>7. CASE pos = len - 1
  <2>1. BeforeCursor' = swapped
    BY <1>1, <1>2, <1>3, <1>5, <1>7, NewLeft
  <2>2. AfterCursor' = rest
    BY <1>1, <1>2, <1>3, <1>6, <1>7, NewRight
  <2>3. ~(Len(AfterCursor) > 1)
    BY <1>2, <1>7
  <2> QED BY <2>1, <2>2, <2>3, <1>2
          DEF Editor!Transpose, Editor!LastChar, x, swapped, rest
<1>8. CASE pos # len - 1
  <2>1. /\ Head(rest) = rest[1] /\ Head(rest) \in Chars
        /\ Tail(rest) \in Seq(Chars) /\ Len(Tail(rest)) = len - pos - 1
        /\ \A k \in 1 .. len - pos - 1 : Tail(rest)[k] = rest[k + 1]
    BY <1>2, <1>3, HeadAndTail
  <2>2. /\ Append(swapped, Head(rest)) \in Seq(Chars)
        /\ Len(Append(swapped, Head(rest))) = pos + 1
        /\ \A k \in 1 .. pos + 1 :
             Append(swapped, Head(rest))[k] = IF k <= pos THEN swapped[k] ELSE Head(rest)
    BY <2>1, <1>2, <1>3, Extended
  <2>3. pos' = pos + 1 /\ len' - pos' = len - pos - 1
    BY <1>1, <1>2, <1>8
  <2>4. BeforeCursor' = Append(swapped, Head(rest))
    <3>1. ASSUME NEW k \in 1 .. pos'
          PROVE  Append(swapped, Head(rest))[k] = buf'[k - 1]
      <4>1. k \in 1 .. pos + 1 /\ (k <= pos \/ k = pos + 1)
        BY <2>3, <1>2
      <4>2. CASE k <= pos
        <5>1. k \in 1 .. pos
          BY <4>1, <4>2, <1>2
        <5> QED BY <5>1, <4>1, <4>2, <2>2, <1>5
      <4>3. CASE k = pos + 1
        <5>1. ~(k <= pos) /\ 1 \in 1 .. len - pos /\ pos + 1 - 1 = k - 1
          BY <4>3, <1>2
        <5> QED BY <5>1, <4>1, <2>1, <2>2, <1>6
      <4> QED BY <4>1, <4>2, <4>3
    <3> QED BY <3>1, <2>2, <2>3, <1>1, NewLeft
  <2>5. AfterCursor' = Tail(rest)
    <3>1. ASSUME NEW k \in 1 .. len' - pos'
          PROVE  Tail(rest)[k] = buf'[pos' + k - 1]
      <4>1. /\ k \in 1 .. len - pos - 1 /\ k + 1 \in 1 .. len - pos
            /\ pos' + k - 1 = pos + (k + 1) - 1
        BY <2>3, <1>2
      <4> QED BY <4>1, <2>1, <1>6
    <3> QED BY <3>1, <2>1, <2>3, <1>1, NewRight
  <2>6. Len(AfterCursor) > 1
    BY <1>2, <1>8
  <2> QED BY <2>4, <2>5, <2>6, <1>2
          DEF Editor!Transpose, Editor!LastChar, x, swapped, rest
<1> QED BY <1>7, <1>8

LEMMA DeleteLineMaps == ASSUME BufferOK, DeleteLine PROVE Editor!DeleteLine
<1>1. BufferOK' /\ pos' = 0 /\ len' = 0 /\ len' - pos' = 0
  BY DeleteLineOK DEF DeleteLine
<1> QED BY <1>1, NoLeft, NoRight DEF Editor!DeleteLine

LEMMA DeleteToEndMaps == ASSUME BufferOK, DeleteToEnd PROVE Editor!DeleteToEnd
<1>1. /\ BufferOK' /\ SidesOK /\ pos' = pos /\ len' = pos
      /\ buf' = [buf EXCEPT ![pos] = NUL] /\ buf \in [0 .. BufLen -> Bytes]
  BY DeleteToEndOK, Sides DEF DeleteToEnd, BufferOK, Bytes
<1>2. ASSUME NEW k \in 1 .. pos' PROVE BeforeCursor[k] = buf'[k - 1]
  BY <1>1 DEF SidesOK
<1>3. /\ BeforeCursor \in Seq(Chars) /\ Len(BeforeCursor) = pos' /\ len' - pos' = 0
  BY <1>1 DEF SidesOK
<1> QED BY <1>1, <1>2, <1>3, NewLeft, NoRight DEF Editor!DeleteToEnd

\* Whatever is copied into the buffer with the cursor behind it is a line.
LEMMA ReplaceMaps == ASSUME BufferOK', pos' = len' PROVE Editor!Replace
<1>1. SidesOK' /\ len' - pos' = 0
  BY SidesNext DEF SidesOK
<1>2. AfterCursor' = << >>
  BY <1>1, NoRight
<1>3. /\ BeforeCursor' \in Seq(Chars) /\ Len(BeforeCursor') = pos' /\ pos' \in 0 .. BufLen
  BY <1>1, BufferAssumption DEF SidesOK
<1>4. BeforeCursor' \in [1 .. pos' -> Chars]
  BY <1>3, LenProperties
<1> QED BY <1>2, <1>3, <1>4 DEF Editor!Replace

\* Every step of the loop is a step of the editor or leaves its text alone.
LEMMA OperationMaps ==
  ASSUME BufferOK, Operation PROVE [Editor!Next]_(Editor!vars)
<1>1. BufferOK'
  BY OperationOK
<1>2. ASSUME NEW line, Recall(line) PROVE Editor!Replace
  BY <1>1, <1>2, ReplaceMaps DEF Recall
<1>3. ASSUME NEW line, Complete(line) PROVE Editor!Replace
  BY <1>1, <1>3, ReplaceMaps DEF Complete
<1>4. UNCHANGED bufVars => UNCHANGED Editor!vars
  BY DEF bufVars, Editor!vars, BeforeCursor, AfterCursor
<1> QED
  BY <1>2, <1>3, <1>4, InsertMaps, MoveLeftMaps, MoveRightMaps, MoveHomeMaps, MoveEndMaps,
     DeleteMaps, BackspaceMaps, DeletePrevWordMaps, TransposeMaps, DeleteLineMaps,
     DeleteToEndMaps
  DEF Operation, Editor!Next

\* The buffer is a text with a cursor, and every key does to it what its name
\* says: linenoiseEdit implements LineEditor, for any size of the buffer.
THEOREM BufferIsAText == Spec => ImplementsEditor
<1>1. Init => Editor!Init
  BY DEF Init, BufInit, Editor!Init, BeforeCursor, AfterCursor
<1>2. BufferOK /\ LoopOK /\ [Next]_vars => [Editor!Next]_(Editor!vars)
  <2> SUFFICES ASSUME BufferOK, LoopOK, [Next]_vars PROVE [Editor!Next]_(Editor!vars)
    OBVIOUS
  <2>1. UNCHANGED vars => Operation
    BY DEF vars, Operation
  <2> QED BY <2>1, NextOperation, OperationMaps
<1> QED BY <1>1, <1>2, AlwaysOK, PTL DEF Spec, ImplementsEditor, Editor!Spec

(* ---------------------------- Rows and columns ------------------------- *)

LEMMA Times ==
  ASSUME NEW w \in Nat, NEW a \in Int, NEW b \in Int, a <= b
  PROVE  a * w <= b * w
<1>1. b - a \in Nat /\ (b - a) * w \in Nat
  OBVIOUS
<1> QED BY <1>1

LEMMA RowsBelow ==
  ASSUME NEW w \in Nat, NEW a \in Int, NEW b \in Int, a < b
  PROVE  a * w + w <= b * w
<1>1. (a + 1) * w <= b * w
  BY Times
<1>2. (a + 1) * w = a * w + w
  OBVIOUS
<1>3. a * w \in Int /\ b * w \in Int
  OBVIOUS
<1> QED BY <1>1, <1>2, <1>3

LEMMA RowOf ==
  ASSUME NEW w \in Nat, NEW a \in Int, NEW b \in Int, NEW x \in Int, NEW y \in Int,
         a * w + x = b * w + y, x - y < w, y - x < w
  PROVE  a = b /\ x = y
<1>1. ~(a < b)
  BY RowsBelow
<1>2. ~(b < a)
  BY RowsBelow
<1> QED BY <1>1, <1>2

LEMMA RowsOn ==
  ASSUME NEW w \in Nat, NEW a \in Int, NEW b \in Int, NEW q \in Int,
         NEW x \in Int, NEW y \in Int,
         a * w + x = b * w + (q * w + y), x - y < w, y - x < w
  PROVE  a = b + q /\ x = y
<1> DEFINE c == b + q
<1>1. c \in Int /\ c * w = b * w + q * w
  OBVIOUS
<1>2. a * w \in Int /\ b * w \in Int /\ q * w \in Int
  OBVIOUS
<1> HIDE DEF c
<1>3. a * w + x = c * w + y
  BY <1>1, <1>2
<1>4. a = c /\ x = y
  BY <1>1, <1>3, RowOf
<1> QED BY <1>4 DEF c

LEMMA Divided ==
  ASSUME NEW w \in Nat, w > 0, NEW n \in Nat
  PROVE  /\ n \div w \in Nat /\ n % w \in 0 .. w - 1
         /\ n = (n \div w) * w + (n % w)
OBVIOUS

LEMMA Quotient ==
  ASSUME NEW w \in Nat, NEW q \in Nat, NEW r \in 0 .. w - 1
  PROVE  (q * w + r) \div w = q /\ (q * w + r) % w = r
<1> DEFINE n == q * w + r
<1>1. n \in Nat /\ w > 0
  OBVIOUS
<1> HIDE DEF n
<1>2. /\ n \div w \in Nat /\ n % w \in 0 .. w - 1
      /\ n = (n \div w) * w + (n % w)
  BY <1>1, Divided
<1>3. n = q * w + r
  BY DEF n
<1>4. n \div w = q /\ n % w = r
  BY <1>1, <1>2, <1>3, RowOf
<1> QED BY <1>4 DEF n

LEMMA SmallerOf ==
  ASSUME NEW w \in Nat, NEW m \in 0 .. w - 1 PROVE Smaller(0 + m, w - 1) = m
BY DEF Smaller

(* ------------------------------ The terminal --------------------------- *)

Glyphs == Chars \cup {">", "h", " ", "o"}
Cells == 0 .. Rows * width - 1
Screens == [cells : [Cells -> Glyphs], row : Nat, col : Nat, maxrows : Nat, oldpos : Nat]

\* linenoise knows the width, and the prompt is narrower.
Sized == /\ width \in Nat /\ plen \in Nat /\ 0 < plen /\ plen < width /\ cols = width
         /\ mlmode \in BOOLEAN

\* From cell base on the terminal shows str, with the cursor behind it, and from
\* cell blank on nothing else.
Printed(s, base, str, blank) ==
  /\ s \in Screens
  /\ s.row * width + s.col = base + Len(str)
  /\ s.col <= width /\ (Len(str) > 0 => s.col > 0)
  /\ \A k \in Cells : base <= k /\ k - base < Len(str) => s.cells[k] = str[k - base + 1]
  /\ \A k \in Cells : blank <= k /\ base + Len(str) <= k => s.cells[k] = " "

\* From cell blank on there is nothing.
BlankFrom(s, blank) == \A k \in Cells : blank <= k => s.cells[k] = " "

\* What stands above cell base stays, and so do the fields of linenoiseState.
Keeps(s, t, base) ==
  /\ \A k \in Cells : k < base => t.cells[k] = s.cells[k]
  /\ t.maxrows = s.maxrows /\ t.oldpos = s.oldpos

LEMMA CellsOK == ASSUME Sized PROVE Rows * width - 1 \in Int /\ Cells \subseteq Nat
<1>1. Rows * width - 1 \in Int
  BY ScreenAssumption DEF Sized
<1> QED BY <1>1 DEF Cells

LEMMA WriteNothing ==
  ASSUME NEW s PROVE Write(s, << >>) = s
BY DEF Write

LEMMA WriteCells ==
  ASSUME Sized, NEW s \in Screens, NEW str \in Seq(Glyphs), Len(str) > 0
  PROVE  LET start == s.row * width + s.col
             end == start + Len(str)
             t == Write(s, str)
         IN  /\ t \in Screens
             /\ t.row * width + t.col = end /\ 0 < t.col /\ t.col <= width
             /\ \A k \in Cells : t.cells[k] = IF start <= k /\ k < end
                                              THEN str[k - start + 1] ELSE s.cells[k]
             /\ t.maxrows = s.maxrows /\ t.oldpos = s.oldpos
<1> DEFINE start == s.row * width + s.col
           end == start + Len(str)
           row == (end - 1) \div width
           col == end - row * width
           new == [k \in Cells |-> IF start <= k /\ k < end THEN str[k - start + 1]
                                   ELSE s.cells[k]]
           t == Write(s, str)
<1>1. /\ width \in Nat /\ width > 0 /\ Len(str) \in Nat /\ s.row \in Nat /\ s.col \in Nat
      /\ s.cells \in [Cells -> Glyphs] /\ DOMAIN s.cells = Cells
  BY LenProperties DEF Sized, Screens
<1>2. start \in Nat
  BY <1>1
<1> HIDE DEF start
<1>3. end - 1 \in Nat /\ end \in Nat /\ end = start + Len(str)
  BY <1>1, <1>2
<1> HIDE DEF end
<1>4. row \in Nat /\ col \in 1 .. width /\ row * width + col = end
  <2> DEFINE rest == (end - 1) % width
  <2>1. row \in Nat /\ rest \in 0 .. width - 1 /\ end - 1 = row * width + rest
    BY <1>1, <1>3, Divided
  <2> HIDE DEF row, rest
  <2>2. row * width \in Nat
    BY <2>1, <1>1
  <2> QED BY <2>1, <2>2, <1>1, <1>3
<1> HIDE DEF row, col
<1>6. new \in [Cells -> Glyphs]
  <2>1. ASSUME NEW k \in Cells, start <= k, k < end PROVE str[k - start + 1] \in Glyphs
    <3>1. k - start + 1 \in 1 .. Len(str)
      BY <2>1, <1>1, <1>2, <1>3 DEF Cells
    <3> QED BY <3>1, ElementOfSeq
  <2> QED BY <2>1, <1>1
<1> HIDE DEF new
<1>7. str # << >>
  BY EmptySeq
<1>8. t = [s EXCEPT !.cells = new, !.row = row, !.col = col]
  BY <1>1, <1>7 DEF Write, new, row, col, end, start
<1>9. t = [cells |-> new, row |-> row, col |-> col,
           maxrows |-> s.maxrows, oldpos |-> s.oldpos]
  BY <1>8 DEF Screens
<1> HIDE DEF t
<1>10. t \in Screens
  <2>1. s.maxrows \in Nat /\ s.oldpos \in Nat /\ col \in Nat
    BY <1>1, <1>4 DEF Screens
  <2> QED BY <2>1, <1>4, <1>6, <1>9 DEF Screens
<1> QED BY <1>4, <1>9, <1>10 DEF t, new, end, start

\* Writing b after a is writing a \o b.
LEMMA WriteOn ==
  ASSUME Sized, NEW s, NEW base \in Nat, NEW blank \in Nat,
         NEW a \in Seq(Glyphs), NEW b \in Seq(Glyphs), Printed(s, base, a, blank)
  PROVE  Printed(Write(s, b), base, a \o b, blank) /\ Keeps(s, Write(s, b), base)
<1>0. s \in Screens /\ Len(a) \in Nat /\ Len(b) \in Nat /\ Cells \subseteq Nat
  <2>1. s \in Screens
    BY DEF Printed
  <2> QED BY <2>1, CellsOK, LenProperties
<1> DEFINE c == a \o b
<1>1. /\ c \in Seq(Glyphs) /\ Len(c) = Len(a) + Len(b)
      /\ \A k \in 1 .. Len(a) + Len(b) : c[k] = IF k <= Len(a) THEN a[k] ELSE b[k - Len(a)]
  BY <1>0, ConcatProperties
<1> HIDE DEF c
<1>2. CASE Len(b) = 0
  <2>1. b = << >> /\ Write(s, b) = s
    BY <1>2, EmptySeq, WriteNothing
  <2>2. a \o b = a
    BY <2>1, ConcatEmptySeq
  <2> QED BY <2>1, <2>2 DEF Keeps, c
<1>3. CASE Len(b) > 0
  <2> DEFINE start == s.row * width + s.col
             t == Write(s, b)
  <2>1. /\ t \in Screens
        /\ t.row * width + t.col = start + Len(b) /\ 0 < t.col /\ t.col <= width
        /\ \A k \in Cells : t.cells[k] = IF start <= k /\ k < start + Len(b)
                                         THEN b[k - start + 1] ELSE s.cells[k]
        /\ t.maxrows = s.maxrows /\ t.oldpos = s.oldpos
    BY <1>0, <1>1, <1>3, WriteCells
  <2>2. start = base + Len(a)
    BY DEF Printed
  <2> HIDE DEF t, start
  <2>3. /\ start \in Nat /\ t.row * width + t.col = base + Len(c)
    BY <1>0, <1>1, <2>1, <2>2
  <2>4. \A k \in Cells : /\ start <= k /\ k < start + Len(b) => t.cells[k] = b[k - start + 1]
                         /\ ~(start <= k /\ k < start + Len(b)) => t.cells[k] = s.cells[k]
    BY <2>1
  <2>5. ASSUME NEW k \in Cells, base <= k, k - base < Len(c) PROVE t.cells[k] = c[k - base + 1]
    <3>1. k - base + 1 \in 1 .. Len(a) + Len(b) /\ k \in Nat
      BY <2>5, <1>0, <1>1
    <3>2. CASE k - base < Len(a)
      <4>1. ~(start <= k)
        BY <2>2, <3>1, <3>2, <1>0
      <4>2. t.cells[k] = s.cells[k]
        BY <2>4, <4>1
      <4>3. s.cells[k] = a[k - base + 1]
        BY <2>5, <3>2 DEF Printed
      <4>4. k - base + 1 <= Len(a)
        BY <3>1, <3>2, <1>0
      <4>5. c[k - base + 1] = a[k - base + 1]
        BY <3>1, <4>4, <1>1
      <4> QED BY <4>2, <4>3, <4>5
    <3>3. CASE ~(k - base < Len(a))
      <4>1. start <= k /\ k < start + Len(b) /\ (k - base + 1) - Len(a) = k - start + 1
        BY <2>2, <3>1, <3>3, <1>0
      <4>2. t.cells[k] = b[k - start + 1]
        BY <2>4, <4>1
      <4>3. ~(k - base + 1 <= Len(a))
        BY <3>1, <3>3, <1>0
      <4>4. c[k - base + 1] = b[(k - base + 1) - Len(a)]
        BY <3>1, <4>3, <1>1
      <4> QED BY <4>1, <4>2, <4>4
    <3> QED BY <3>2, <3>3
  <2>6. ASSUME NEW k \in Cells, blank <= k, base + Len(c) <= k PROVE t.cells[k] = " "
    <3>1. ~(start <= k /\ k < start + Len(b)) /\ base + Len(a) <= k
      BY <2>2, <2>3, <2>6, <1>0, <1>1
    <3> QED BY <2>4, <2>6, <3>1 DEF Printed
  <2>7. ASSUME NEW k \in Cells, k < base PROVE t.cells[k] = s.cells[k]
    <3>1. ~(start <= k)
      BY <2>2, <2>7, <1>0
    <3> QED BY <2>4, <3>1
  <2>8. t.col <= width /\ t.col > 0
    BY <2>1
  <2> QED BY <2>1, <2>3, <2>5, <2>6, <2>7, <2>8 DEF Printed, Keeps, t, c
<1> QED BY <1>0, <1>1, <1>2, <1>3

\* A command that moves the cursor changes nothing else.
Moves(s, t) == /\ s \in Screens /\ t \in Screens
               /\ t.cells = s.cells /\ t.maxrows = s.maxrows /\ t.oldpos = s.oldpos

At(s, r, c) == [cells |-> s.cells, row |-> r, col |-> c,
                maxrows |-> s.maxrows, oldpos |-> s.oldpos]

LEMMA AtOK ==
  ASSUME NEW s \in Screens, NEW r \in Nat, NEW c \in Nat
  PROVE  Moves(s, At(s, r, c)) /\ At(s, r, c).row = r /\ At(s, r, c).col = c
BY DEF Screens, Moves, At

LEMMA ScreenOps ==
  ASSUME Sized, NEW s \in Screens, NEW m \in Nat
  PROVE  /\ Moves(s, Return(s)) /\ Return(s).row = s.row /\ Return(s).col = 0
         /\ Moves(s, LineFeed(s)) /\ LineFeed(s).row = s.row + 1 /\ LineFeed(s).col = s.col
         /\ Moves(s, Down(s, m)) /\ Down(s, m).row = s.row + m /\ Down(s, m).col = s.col
         /\ Moves(s, Up(s, m)) /\ Up(s, m).row = Larger(s.row - m, 0) /\ Up(s, m).col = s.col
         /\ Moves(s, Forward(s, m)) /\ Forward(s, m).row = s.row
         /\ Forward(s, m).col = Smaller(s.col + m, width - 1)
<1>1. s.row \in Nat /\ s.col \in Nat /\ width - 1 \in Nat
  BY DEF Screens, Sized
<1>2. Larger(s.row - m, 0) \in Nat /\ Smaller(s.col + m, width - 1) \in Nat
  BY <1>1 DEF Larger, Smaller
<1>3. Return(s) = At(s, s.row, 0)
  BY DEF Return, Screens, At
<1>4. LineFeed(s) = At(s, s.row + 1, s.col)
  BY DEF LineFeed, Screens, At
<1>5. Down(s, m) = At(s, s.row + m, s.col)
  BY DEF Down, Screens, At
<1>6. Up(s, m) = At(s, Larger(s.row - m, 0), s.col)
  BY DEF Up, Screens, At
<1>7. Forward(s, m) = At(s, s.row, Smaller(s.col + m, width - 1))
  BY DEF Forward, Screens, At
<1>8. s.row + 1 \in Nat /\ s.row + m \in Nat /\ 0 \in Nat
  BY <1>1
<1>9. /\ Moves(s, Return(s)) /\ Return(s).row = s.row /\ Return(s).col = 0
      /\ Moves(s, LineFeed(s)) /\ LineFeed(s).row = s.row + 1 /\ LineFeed(s).col = s.col
  BY <1>1, <1>3, <1>4, <1>8, AtOK
<1>10. Moves(s, Down(s, m)) /\ Down(s, m).row = s.row + m /\ Down(s, m).col = s.col
  BY <1>1, <1>5, <1>8, AtOK
<1>11. Moves(s, Up(s, m)) /\ Up(s, m).row = Larger(s.row - m, 0) /\ Up(s, m).col = s.col
  BY <1>1, <1>2, <1>6, AtOK
<1>12. Moves(s, Forward(s, m)) /\ Forward(s, m).row = s.row
       /\ Forward(s, m).col = Smaller(s.col + m, width - 1)
  BY <1>1, <1>2, <1>7, AtOK
<1> QED BY <1>9, <1>10, <1>11, <1>12

LEMMA PromptOK ==
  ASSUME Sized PROVE Prompt \in Seq(Glyphs) /\ Len(Prompt) = plen
BY DEF Sized, Prompt, Glyphs

Marks(n) == [j \in 1 .. n |-> "h"]

\* A hint is shown only where there is room for it.
LEMMA HintOK ==
  ASSUME Sized, NEW n \in Nat, NEW size \in Nat
  PROVE  LET h == Hint(n, size)
         IN  /\ h \in Seq(Glyphs) /\ Len(h) \in Nat /\ Len(h) <= size /\ h = Marks(Len(h))
             /\ Len(h) > 0 => plen + n + Len(h) <= width
<1>1. CASE plen + n < cols
  <2> DEFINE m == Smaller(size, cols - (plen + n))
  <2>1. m \in Nat /\ m <= size /\ plen + n + m <= width
    BY <1>1 DEF Sized, Smaller
  <2>2. Hint(n, size) = Marks(m)
    BY <1>1 DEF Hint, Marks
  <2> HIDE DEF m
  <2>3. Marks(m) \in Seq(Glyphs) /\ Len(Marks(m)) = m
    BY <2>1 DEF Marks, Glyphs
  <2> QED BY <2>1, <2>2, <2>3
<1>2. CASE ~(plen + n < cols)
  <2>1. Hint(n, size) = << >>
    BY <1>2 DEF Hint
  <2>2. << >> \in Seq(Glyphs) /\ Len(<< >>) = 0 /\ << >> = Marks(0)
    BY EmptySeq DEF Marks
  <2> QED BY <2>1, <2>2
<1> QED BY <1>1, <1>2

\* The prompt, the line and the hint, from the start of a row.
LEMMA LinePrinted ==
  ASSUME Sized, NEW s \in Screens, s.col = 0, NEW blank \in Nat, BlankFrom(s, blank),
         NEW text \in Seq(Glyphs), NEW h \in Seq(Glyphs)
  PROVE  LET base == s.row * width
             t == Write(Write(Write(s, Prompt), text), h)
         IN  Printed(t, base, Prompt \o text \o h, blank) /\ Keeps(s, t, base)
<1> DEFINE base == s.row * width
           t1 == Write(s, Prompt)
           t2 == Write(t1, text)
           t3 == Write(t2, h)
<1>0. s.row \in Nat /\ s.col \in Nat /\ width \in Nat
  BY DEF Sized, Screens
<1>1. base \in Nat /\ base = s.row * width + s.col /\ base + 0 = base
  BY <1>0
<1>2. << >> \in Seq(Glyphs) /\ Len(<< >>) = 0 /\ << >> \o Prompt = Prompt
  BY EmptySeq, ConcatEmptySeq, PromptOK
<1>3. \A k \in Cells : ~(base <= k /\ k - base < 0)
  BY <1>1, CellsOK
<1>4. s.col <= width
  BY <1>0
<1>5. \A k \in Cells : blank <= k /\ base + 0 <= k => s.cells[k] = " "
  BY DEF BlankFrom
<1> HIDE DEF base
<1>6. Printed(s, base, << >>, blank)
  BY <1>1, <1>2, <1>3, <1>4, <1>5 DEF Printed
<1>7. Printed(t1, base, Prompt, blank) /\ Keeps(s, t1, base)
  BY <1>1, <1>2, <1>6, PromptOK, WriteOn
<1>8. Prompt \o text \in Seq(Glyphs)
  BY PromptOK, ConcatProperties
<1> HIDE DEF t1
<1>9. Printed(t2, base, Prompt \o text, blank) /\ Keeps(t1, t2, base)
  BY <1>1, <1>7, PromptOK, WriteOn
<1> HIDE DEF t2
<1>10. Printed(t3, base, Prompt \o text \o h, blank) /\ Keeps(t2, t3, base)
  BY <1>1, <1>8, <1>9, WriteOn
<1> HIDE DEF t3
<1>11. Keeps(s, t3, base)
  BY <1>7, <1>9, <1>10 DEF Keeps
<1> QED BY <1>10, <1>11 DEF t1, t2, t3, base

LEMMA PrintedRow ==
  ASSUME Sized, NEW t, NEW tp \in Nat, NEW str \in Seq(Glyphs), Len(str) > 0,
         NEW blank, Printed(t, tp * width, str, blank)
  PROVE  t.row = tp + ((Len(str) - 1) \div width)
<1> DEFINE q == (Len(str) - 1) \div width
           r == (Len(str) - 1) % width
           n == Len(str) - 1
<1>1. width \in Nat /\ width > 0 /\ n \in Nat
  BY LenProperties DEF Sized
<1>2. q \in Nat /\ r \in 0 .. width - 1 /\ n = q * width + r
  BY <1>1, Divided
<1>3. /\ t.row \in Nat /\ t.col \in Nat /\ t.col > 0 /\ t.col <= width
      /\ t.row * width + t.col = tp * width + (n + 1)
  <2>1. t \in Screens /\ t.col > 0 /\ t.col <= width
        /\ t.row * width + t.col = tp * width + Len(str)
    BY DEF Printed
  <2>2. n + 1 = Len(str)
    BY <1>1
  <2> QED BY <2>1, <2>2 DEF Screens
<1> HIDE DEF n, q, r
<1> DEFINE y == r + 1
<1>4. t.col - y < width /\ y - t.col < width /\ y \in Int /\ n + 1 = q * width + y
  BY <1>1, <1>2, <1>3
<1> HIDE DEF y
<1> DEFINE a == t.row
           x == t.col
<1>5. a * width + x = tp * width + (q * width + y)
  BY <1>3, <1>4
<1>6. a \in Int /\ x \in Int /\ q \in Int /\ tp \in Int /\ x - y < width /\ y - x < width
  BY <1>2, <1>3, <1>4
<1> HIDE DEF a, x
<1>7. a = tp + q
  BY <1>1, <1>4, <1>5, <1>6, RowsOn
<1> QED BY <1>7 DEF a, q, n

(* --------------------------- What is on show --------------------------- *)

LineShown(text, p) == IF mlmode THEN text ELSE Window(text, p)

\* From row tp on, screen s shows text with the cursor at p and n characters of hint,
\* and linenoiseState knows how many rows it has used, and which one the cursor is in.
Drawn(s, tp, text, p, n) ==
  LET shown == Prompt \o LineShown(text, p) \o Marks(n)
  IN  /\ s \in Screens
      /\ s.row * width + s.col = tp * width + CursorCell(p) /\ s.col < width
      /\ \A k \in Cells : tp * width <= k =>
           LET j == k - tp * width + 1
           IN  \/ s.cells[k] = IF j <= Len(shown) THEN shown[j] ELSE " "
               \/ ~mlmode /\ j = width /\ s.cells[k] = " "
      /\ n \in Nat /\ (n > 0 => plen + Len(text) + n <= width)
      /\ mlmode => /\ s.oldpos = p
                   /\ plen + Len(text) <= Larger(s.maxrows, 1) * width
                   /\ plen + p < Larger(s.maxrows, 1) * width
      /\ ~mlmode => s.row = tp

\* The cursor is at the start of row tp, and from there on nothing is to be seen.
Cleared(s, tp) == s \in Screens /\ s.row = tp /\ s.col = 0 /\ BlankFrom(s, tp * width)

\* How many rows the text takes, with one for a cursor behind its last cell.
LEMMA RowsNeeded ==
  ASSUME Sized, NEW n \in Nat, NEW p \in 0 .. n, NEW e \in {0, 1},
         (e = 1) <=> (p > 0 /\ p = n /\ (plen + p) % cols = 0)
  PROVE  LET rows == (plen + n + cols - 1) \div cols + e
             rpos2 == (plen + p + cols) \div cols
             q == (plen + n - 1) \div width
         IN  /\ q \in Nat /\ rows = q + 1 + e /\ rpos2 \in Nat /\ rpos2 - 1 \in Nat
             /\ rpos2 <= rows
             /\ plen + n <= rows * width /\ plen + p < rows * width
             /\ plen + p = (rpos2 - 1) * width + ((plen + p) % cols)
             /\ (plen + p) % cols \in 0 .. width - 1
<1>0. width \in Nat /\ width > 0 /\ plen \in Nat /\ plen > 0 /\ cols = width /\ plen < width
  BY DEF Sized
<1> DEFINE a == plen + n - 1
           q == a \div width
           r == a % width
           b == plen + p
           u == b \div width
           v == b % width
<1>1. /\ a \in Nat /\ b \in Nat /\ b <= a + 1 /\ a + 1 = plen + n
      /\ p < n => b <= a
      /\ p = n => b = a + 1
      /\ p > 0 <=> b > plen
  BY <1>0
<1>2. /\ q \in Nat /\ r \in 0 .. width - 1 /\ a = q * width + r
      /\ u \in Nat /\ v \in 0 .. width - 1 /\ b = u * width + v
  BY <1>0, <1>1, Divided
<1> HIDE DEF q, r, u, v
<1>3. /\ (q + 1) * width = q * width + width /\ (u + 1) * width = u * width + width
      /\ (q + 2) * width = q * width + width + width
      /\ q * width \in Nat /\ u * width \in Nat
  BY <1>0, <1>2
<1>4. (plen + n + cols - 1) \div cols = q + 1
  <2>1. plen + n + cols - 1 = (q + 1) * width + r
    BY <1>0, <1>1, <1>2, <1>3
  <2>2. q + 1 \in Nat
    BY <1>2
  <2> QED BY <2>1, <2>2, <1>0, <1>2, Quotient
<1>5. (plen + p + cols) \div cols = u + 1
  <2>1. plen + p + cols = (u + 1) * width + v
    BY <1>0, <1>1, <1>2, <1>3
  <2>2. u + 1 \in Nat
    BY <1>2
  <2> QED BY <2>1, <2>2, <1>0, <1>2, Quotient
<1>6. (plen + p) % cols = v
  BY <1>0 DEF v
<1> DEFINE rows == q + 1 + e
<1>10. /\ rows \in Nat
       /\ e = 1 => rows = q + 2
       /\ e = 0 => rows = q + 1
  BY <1>2
<1> HIDE DEF rows, a, b
<1>7. a + 1 <= rows * width /\ b < rows * width
  <2>1. CASE e = 1
    <3>1. rows * width = q * width + width + width
      BY <2>1, <1>3, <1>10
    <3> QED BY <3>1, <1>0, <1>1, <1>2, <1>3
  <2>2. CASE e = 0
    <3>1. rows * width = q * width + width
      BY <2>2, <1>3, <1>10
    <3>2. a + 1 <= rows * width
      BY <3>1, <1>0, <1>1, <1>2, <1>3
    <3>3. CASE p < n
      BY <3>1, <3>3, <1>0, <1>1, <1>2, <1>3
    <3>4. CASE p = n /\ r < width - 1
      BY <3>1, <3>4, <1>0, <1>1, <1>2, <1>3
    \* The text fills its last row: the cursor has one of its own.
    <3>5. CASE p = n /\ r = width - 1
      <4>1. b = (q + 1) * width + 0
        BY <3>5, <1>0, <1>1, <1>2, <1>3
      <4>2. q + 1 \in Nat /\ 0 \in 0 .. width - 1
        BY <1>0, <1>2
      <4>3. v = 0
        BY <4>1, <4>2, <1>0, Quotient DEF v
      <4>4. p > 0
        BY <4>1, <1>0, <1>1, <1>2, <1>3
      <4> QED BY <4>3, <4>4, <3>5, <2>2, <1>6
    <3>6. p < n \/ (p = n /\ r < width - 1) \/ (p = n /\ r = width - 1)
      BY <1>0, <1>2
    <3> QED BY <3>2, <3>3, <3>4, <3>5, <3>6
  <2> QED BY <2>1, <2>2
<1>8. u + 1 <= rows
  <2>1. u * width < rows * width
    BY <1>0, <1>1, <1>2, <1>3, <1>7, <1>10
  <2>2. ~(rows <= u)
    BY <2>1, <1>0, <1>2, <1>10, Times
  <2> QED BY <2>2, <1>2, <1>10
<1> QED BY <1>0, <1>1, <1>2, <1>4, <1>5, <1>6, <1>7, <1>8 DEF q, a, b, rows

\* The text with what stands before and after it.
LEMMA ShownOK ==
  ASSUME Sized, NEW text \in Seq(Glyphs), NEW h \in Seq(Glyphs)
  PROVE  /\ Prompt \o text \o h \in Seq(Glyphs)
         /\ Len(Prompt \o text \o h) = plen + Len(text) + Len(h)
         /\ Len(text) \in Nat /\ Len(h) \in Nat
<1>1. /\ Prompt \o text \in Seq(Glyphs) /\ Len(Prompt \o text) = plen + Len(text)
      /\ Len(text) \in Nat /\ Len(h) \in Nat
  BY PromptOK, ConcatProperties, LenProperties
<1> DEFINE a == Prompt \o text
<1> HIDE DEF a
<1>2. a \in Seq(Glyphs) /\ Len(a) = plen + Len(text)
  BY <1>1 DEF a
<1>3. a \o h \in Seq(Glyphs) /\ Len(a \o h) = Len(a) + Len(h)
  BY <1>2, ConcatProperties
<1> QED BY <1>1, <1>2, <1>3 DEF a

\* refreshMultiLine, once it has cleared the rows from row tp on.
LEMMA MultiDraws ==
  ASSUME Sized, mlmode, NEW s \in Screens, NEW tp \in Nat, NEW text \in Seq(Glyphs),
         NEW p \in 0 .. Len(text), NEW size \in Nat,
         Cleared(ClearRows(s), tp), ClearRows(s).maxrows = s.maxrows
  PROVE  LET h == Hint(Len(text), size)
             t == RefreshMulti(s, text, p, h)
         IN  /\ Drawn(t, tp, text, p, Len(h))
             /\ \A k \in Cells : k < tp * width => t.cells[k] = ClearRows(s).cells[k]
<1>0. /\ width \in Nat /\ width > 0 /\ plen \in Nat /\ plen > 0 /\ cols = width /\ plen < width
      /\ Len(text) \in Nat /\ p \in Nat /\ p <= Len(text)
  BY LenProperties DEF Sized
<1> DEFINE n == Len(text)
           h == Hint(Len(text), size)
           c == ClearRows(s)
           base == tp * width
           shown == Prompt \o text \o h
           printed == Write(Write(Write(c, Prompt), text), h)
           q == (plen + n - 1) \div width
           e == IF AtMargin(text, p) THEN 1 ELSE 0
           rows == ((plen + n + cols - 1) \div cols) + e
           rpos2 == (plen + p + cols) \div cols
           col == (plen + p) % cols
           wrapped == IF AtMargin(text, p) THEN Return(LineFeed(printed)) ELSE printed
           placed == Forward(Return(Up(wrapped, Larger(rows - rpos2, 0))), col)
           t == RefreshMulti(s, text, p, h)
<1>1. /\ h \in Seq(Glyphs) /\ Len(h) \in Nat /\ h = Marks(Len(h))
      /\ Len(h) > 0 => plen + n + Len(h) <= width
  BY <1>0, HintOK
<1>2. /\ q \in Nat /\ rows = q + 1 + e /\ rpos2 \in Nat /\ rpos2 - 1 \in Nat /\ rpos2 <= rows
      /\ plen + n <= rows * width /\ plen + p < rows * width
      /\ plen + p = (rpos2 - 1) * width + col /\ col \in 0 .. width - 1
  <2>1. e \in {0, 1} /\ ((e = 1) <=> (p > 0 /\ p = n /\ (plen + p) % cols = 0))
    BY DEF AtMargin
  <2> HIDE DEF e
  <2> QED BY <2>1, <1>0, RowsNeeded
<1> HIDE DEF h
<1>3. /\ shown \in Seq(Glyphs) /\ Len(shown) = plen + n + Len(h) /\ Len(shown) > 0
  <2>1. /\ shown \in Seq(Glyphs) /\ Len(shown) = plen + n + Len(h)
    BY <1>1, ShownOK
  <2> QED BY <2>1, <1>0, <1>1
<1>4. c \in Screens /\ c.row = tp /\ c.col = 0 /\ BlankFrom(c, base) /\ base \in Nat
  BY <1>0 DEF Cleared
<1> HIDE DEF c, base
<1>5. base = tp * width
  BY DEF base
<1>6. Printed(printed, base, shown, base) /\ Keeps(c, printed, base)
  <2>1. c.row * width = base
    BY <1>4, <1>5
  <2> QED BY <2>1, <1>1, <1>4, LinePrinted
<1> HIDE DEF printed, shown
<1>7. printed.row = tp + q
  <2>1. printed.row = tp + ((Len(shown) - 1) \div width)
    BY <1>3, <1>5, <1>6, PrintedRow
  <2>2. CASE Len(h) = 0
    <3>1. Len(shown) - 1 = plen + n - 1
      BY <2>2, <1>0, <1>3
    <3> QED BY <2>1, <3>1
  \* A hint does not leave the row.
  <2>3. CASE Len(h) > 0
    <3>1. /\ Len(shown) - 1 \in 0 .. width - 1 /\ plen + n - 1 \in 0 .. width - 1
      BY <2>3, <1>0, <1>1, <1>3
    <3>2. \A m \in 0 .. width - 1 : m \div width = 0
      <4> SUFFICES ASSUME NEW m \in 0 .. width - 1 PROVE m \div width = 0
        OBVIOUS
      <4>1. 0 * width + m = m
        BY <1>0
      <4> QED BY <4>1, <1>0, Quotient
    <3> QED BY <2>1, <3>1, <3>2
  <2> QED BY <2>2, <2>3, <1>1
<1>8. printed \in Screens
  BY <1>6 DEF Printed
<1> HIDE DEF q, rows, rpos2, col
<1>9. Moves(printed, wrapped) /\ wrapped.row = tp + rows - 1
  <2>1. CASE AtMargin(text, p)
    <3>1. Moves(printed, LineFeed(printed)) /\ LineFeed(printed).row = tp + q + 1
      BY <1>7, <1>8, ScreenOps
    <3>2. LineFeed(printed) \in Screens
      BY <3>1 DEF Moves
    <3>3. Moves(printed, wrapped) /\ wrapped.row = tp + q + 1
      BY <2>1, <3>1, <3>2, ScreenOps DEF Moves
    <3> QED BY <2>1, <3>3, <1>2
  <2>2. CASE ~AtMargin(text, p)
    <3>1. Moves(printed, wrapped) /\ wrapped.row = tp + q
      BY <2>2, <1>7, <1>8 DEF Moves
    <3> QED BY <2>2, <3>1, <1>2
  <2> QED BY <2>1, <2>2
<1> HIDE DEF wrapped
<1>10. Moves(printed, placed) /\ placed.row = tp + (rpos2 - 1) /\ placed.col = col
  <2> DEFINE up == Up(wrapped, Larger(rows - rpos2, 0))
  <2>1. rows \in Nat /\ col \in Nat
    BY <1>2 DEF e
  <2>2. Larger(rows - rpos2, 0) = rows - rpos2 /\ rows - rpos2 \in Nat
    BY <2>1, <1>2 DEF Larger
  <2>3. Moves(wrapped, up) /\ up.row = tp + (rpos2 - 1)
    <3>1. Moves(wrapped, up) /\ up.row = Larger(wrapped.row - (rows - rpos2), 0)
      <4>1. wrapped \in Screens
        BY <1>9 DEF Moves
      <4>2. up = Up(wrapped, rows - rpos2)
        BY <2>2
      <4> HIDE DEF up
      <4> QED BY <4>1, <4>2, <2>2, ScreenOps
    <3>2. wrapped.row - (rows - rpos2) = tp + (rpos2 - 1) /\ tp + (rpos2 - 1) \in Nat
      <4>1. wrapped.row = tp + rows - 1 /\ rpos2 \in Nat /\ rpos2 - 1 \in Nat
        BY <1>2, <1>9
      <4> QED BY <4>1, <2>1
    <3> QED BY <3>1, <3>2 DEF Larger
  <2> HIDE DEF up
  <2>4. Moves(up, Return(up)) /\ Return(up).row = tp + (rpos2 - 1) /\ Return(up).col = 0
    <3>1. up \in Screens
      BY <2>3 DEF Moves
    <3> QED BY <2>3, <3>1, ScreenOps
  <2> DEFINE back == Return(up)
  <2>5. Moves(back, placed) /\ placed.row = tp + (rpos2 - 1)
        /\ placed.col = Smaller(0 + col, width - 1)
    <3>1. back \in Screens
      BY <2>4 DEF Moves
    <3>2. placed = Forward(back, col)
      BY DEF placed, up
    <3>3. back.row = tp + (rpos2 - 1) /\ back.col = 0
      BY <2>4
    <3> HIDE DEF back, placed
    <3>4. /\ Moves(back, Forward(back, col)) /\ Forward(back, col).row = back.row
          /\ Forward(back, col).col = Smaller(back.col + col, width - 1)
      BY <3>1, <2>1, ScreenOps
    <3> QED BY <3>2, <3>3, <3>4
  <2>6. Smaller(0 + col, width - 1) = col
    <3>1. col \in 0 .. width - 1
      BY <1>2
    <3> QED BY <3>1, <1>0, SmallerOf
  <2> QED BY <2>3, <2>4, <2>5, <2>6, <1>9 DEF Moves
<1> HIDE DEF placed
<1>11. t = [placed EXCEPT !.maxrows = Larger(@, rows), !.oldpos = p]
  BY DEF t, RefreshMulti, placed, wrapped, printed, c, rows, rpos2, col, e
<1> HIDE DEF t
<1>12. /\ t \in Screens /\ t.row = tp + (rpos2 - 1) /\ t.col = col /\ t.cells = printed.cells
       /\ t.maxrows = Larger(printed.maxrows, rows) /\ t.oldpos = p
  <2>1. placed \in Screens /\ placed.cells = printed.cells /\ placed.maxrows = printed.maxrows
        /\ printed.maxrows \in Nat /\ rows \in Nat
    BY <1>2, <1>10 DEF Moves, Screens, e
  <2>2. Larger(printed.maxrows, rows) \in Nat
    BY <2>1 DEF Larger
  <2>3. t = [placed EXCEPT !.maxrows = Larger(printed.maxrows, rows), !.oldpos = p]
    BY <1>11, <2>1 DEF Screens
  <2> QED BY <1>0, <1>10, <2>1, <2>2, <2>3 DEF Screens
<1>13. t.row * width + t.col = base + CursorCell(p) /\ t.col < width
  <2> DEFINE d == rpos2 - 1
  <2>1. (tp + d) * width = tp * width + d * width /\ d * width \in Nat
    BY <1>0, <1>2
  <2> HIDE DEF d
  <2>2. t.row = tp + d /\ plen + p = d * width + col /\ col \in Nat /\ col < width
    BY <1>0, <1>2, <1>12 DEF d
  <2>3. CursorCell(p) = plen + p
    BY DEF CursorCell
  <2> QED BY <2>1, <2>2, <2>3, <1>4, <1>5, <1>12
<1>14. LineShown(text, p) = text /\ Prompt \o LineShown(text, p) \o Marks(Len(h)) = shown
  BY <1>1 DEF LineShown, shown
<1>15. ASSUME NEW k \in Cells, base <= k
       PROVE  t.cells[k] = IF k - base + 1 <= Len(shown) THEN shown[k - base + 1] ELSE " "
  <2>1. k \in Nat /\ Len(shown) \in Nat
    BY <1>0, <1>1, <1>3, CellsOK
  <2>2. CASE k - base < Len(shown)
    <3>1. t.cells[k] = shown[k - base + 1]
      BY <2>2, <1>6, <1>12, <1>15 DEF Printed
    <3>2. k - base + 1 <= Len(shown)
      BY <2>1, <2>2, <1>4
    <3> QED BY <3>1, <3>2
  <2>3. CASE ~(k - base < Len(shown))
    <3>1. base + Len(shown) <= k
      BY <2>1, <2>3, <1>4
    <3>2. t.cells[k] = " "
      BY <3>1, <1>6, <1>12, <1>15 DEF Printed
    <3>3. ~(k - base + 1 <= Len(shown))
      BY <2>1, <2>3, <1>4
    <3> QED BY <3>2, <3>3
  <2> QED BY <2>2, <2>3
<1>16. /\ plen + n <= Larger(t.maxrows, 1) * width
       /\ plen + p < Larger(t.maxrows, 1) * width
  <2> DEFINE m == Larger(t.maxrows, 1)
  <2>1. m \in Int /\ rows \in Int /\ rows <= m
    <3> DEFINE x == printed.maxrows
    <3>1. x \in Nat
      BY <1>8 DEF Screens
    <3>2. rows \in Int
      BY <1>2 DEF e
    <3>3. m = Larger(Larger(x, rows), 1)
      BY <1>12
    <3> HIDE DEF x, m
    <3> QED BY <3>1, <3>2, <3>3 DEF Larger
  <2> HIDE DEF m
  <2>2. rows * width <= m * width
    BY <2>1, <1>0, Times
  <2>3. rows * width \in Int /\ m * width \in Int
    BY <2>1, <1>0
  <2>4. plen + n <= m * width /\ plen + p < m * width
    BY <2>2, <2>3, <1>0, <1>2
  <2> QED BY <2>4 DEF m
<1>17. \A k \in Cells : k < base => t.cells[k] = c.cells[k]
  BY <1>6, <1>12 DEF Keeps
<1>18. Drawn(t, tp, text, p, Len(h))
  BY <1>1, <1>5, <1>12, <1>13, <1>14, <1>15, <1>16 DEF Drawn
<1> QED BY <1>5, <1>17, <1>18 DEF t, h, c

\* Which rows refreshMultiLine clears, and that it ends in the first of them.
LEMMA RowsCleared ==
  ASSUME Sized, NEW s \in Screens, NEW rpos \in Nat, rpos = (plen + s.oldpos + cols) \div cols
  PROVE  LET last == s.row + Larger(s.maxrows - rpos, 0)
             first == Larger(last - Larger(s.maxrows - 1, 0), 0)
             c == ClearRows(s)
         IN  /\ c \in Screens /\ c.row = first /\ c.col = 0
             /\ c.maxrows = s.maxrows /\ c.oldpos = s.oldpos
             /\ \A k \in Cells : c.cells[k] = IF first * width <= k /\ k < (last + 1) * width
                                              THEN " " ELSE s.cells[k]
<1> DEFINE more == Larger(s.maxrows - rpos, 0)
           up == Larger(s.maxrows - 1, 0)
           last == s.row + more
           first == Larger(last - up, 0)
           new == [k \in Cells |-> IF first * width <= k /\ k < (last + 1) * width
                                   THEN " " ELSE s.cells[k]]
           c == ClearRows(s)
<1>1. /\ s.row \in Nat /\ s.col \in Nat /\ s.maxrows \in Nat /\ s.oldpos \in Nat
      /\ s.cells \in [Cells -> Glyphs] /\ DOMAIN s.cells = Cells
  BY DEF Screens
<1>2. more \in Nat /\ up \in Nat
  BY <1>1 DEF Larger
<1> HIDE DEF more, up
<1>3. last \in Nat
  BY <1>1, <1>2
<1>4. Down(s, more).row = last
  BY <1>2, ScreenOps
<1> HIDE DEF last
<1>5. first \in Nat
  BY <1>2, <1>3 DEF Larger
<1>6. Up([s EXCEPT !.row = last], up).row = first
  <2> DEFINE t == [s EXCEPT !.row = last]
  <2>1. t = At(s, last, s.col)
    BY DEF Screens, At
  <2> HIDE DEF t
  <2>2. t \in Screens /\ t.row = last
    <3> DEFINE a == At(s, last, s.col)
    <3>1. Moves(s, a) /\ a.row = last
      BY <1>1, <1>3, AtOK
    <3>2. t = a
      BY <2>1
    <3> HIDE DEF a
    <3> QED BY <3>1, <3>2 DEF Moves
  <2>3. Up(t, up).row = Larger(t.row - up, 0)
    BY <2>2, <1>2, ScreenOps
  <2> QED BY <2>2, <2>3 DEF t
<1> HIDE DEF first
<1>7. new \in [Cells -> Glyphs]
  BY <1>1 DEF Glyphs
<1> HIDE DEF new
<1>8. c = [s EXCEPT !.cells = new, !.row = first, !.col = 0]
  BY <1>1, <1>4, <1>6 DEF ClearRows, new, more, up
<1>9. c = [cells |-> new, row |-> first, col |-> 0,
           maxrows |-> s.maxrows, oldpos |-> s.oldpos]
  BY <1>8 DEF Screens
<1> HIDE DEF c
<1>10. c \in Screens
  BY <1>1, <1>5, <1>7, <1>9 DEF Screens
<1>11. c.row = first /\ c.col = 0 /\ c.maxrows = s.maxrows /\ c.oldpos = s.oldpos
  BY <1>9
<1>12. \A k \in Cells : c.cells[k] = IF first * width <= k /\ k < (last + 1) * width
                                      THEN " " ELSE s.cells[k]
  BY <1>9 DEF new
<1> QED BY <1>10, <1>11, <1>12 DEF c, first, last, more, up

LEMMA MarksOK == ASSUME NEW n \in Nat PROVE Marks(n) \in Seq(Glyphs) /\ Len(Marks(n)) = n
BY DEF Marks, Glyphs

LEMMA OldRow ==
  ASSUME Sized, NEW n \in Nat PROVE (plen + n + cols) \div cols \in Nat \ {0}
<1>1. width \in Nat /\ width > 0 /\ plen + n \in Nat /\ cols = width
  BY DEF Sized
<1> DEFINE b == plen + n
           u == b \div width
           v == b % width
<1>2. u \in Nat /\ v \in 0 .. width - 1 /\ b = u * width + v
  BY <1>1, Divided
<1> HIDE DEF u, v
<1>3. (u + 1) * width = u * width + width /\ u * width \in Nat /\ u + 1 \in Nat
  BY <1>1, <1>2
<1>4. b + cols = (u + 1) * width + v
  BY <1>1, <1>2, <1>3
<1>5. (b + cols) \div cols = u + 1
  BY <1>1, <1>2, <1>3, <1>4, Quotient
<1> QED BY <1>2, <1>5

\* Whatever refreshMultiLine has drawn it clears, and nothing above it.
LEMMA DrawnCleared ==
  ASSUME Sized, mlmode, NEW s, NEW tp \in Nat, NEW text \in Seq(Glyphs),
         NEW p \in 0 .. Len(text), NEW n, Drawn(s, tp, text, p, n)
  PROVE  /\ Cleared(ClearRows(s), tp) /\ ClearRows(s).maxrows = s.maxrows
         /\ \A k \in Cells : k < tp * width => ClearRows(s).cells[k] = s.cells[k]
<1> DEFINE rpos == (plen + p + cols) \div cols
           used == Larger(s.maxrows, 1)
           d == rpos - 1
           last == s.row + Larger(s.maxrows - rpos, 0)
           first == Larger(last - Larger(s.maxrows - 1, 0), 0)
           c == ClearRows(s)
           shown == Prompt \o text \o Marks(n)
<1>0. /\ width \in Nat /\ width > 0 /\ plen \in Nat /\ plen > 0 /\ cols = width
      /\ Len(text) \in Nat /\ p \in Nat /\ p <= Len(text)
  BY LenProperties DEF Sized
<1>1. /\ s \in Screens /\ s.col < width /\ s.oldpos = p
      /\ s.row * width + s.col = tp * width + (plen + p)
      /\ plen + Len(text) <= used * width /\ plen + p < used * width
      /\ n \in Nat /\ (n > 0 => plen + Len(text) + n <= width)
      /\ \A k \in Cells : tp * width <= k =>
           s.cells[k] = IF k - tp * width + 1 <= Len(shown) THEN shown[k - tp * width + 1]
                        ELSE " "
  BY DEF Drawn, CursorCell, LineShown
<1>2. s.row \in Nat /\ s.col \in Nat /\ s.maxrows \in Nat
  BY <1>1 DEF Screens
<1>11. plen + p < used * width
  BY <1>1
<1>12. n \in Nat
  BY <1>1
<1>3. used \in Nat /\ used > 0 /\ (s.maxrows > 0 => used = s.maxrows)
      /\ (s.maxrows = 0 => used = 1)
  BY <1>2 DEF Larger
<1> HIDE DEF used
<1>4. rpos \in Nat /\ d \in Nat /\ s.row = tp + d /\ d < used
  <2> DEFINE v == (plen + p) % width
             b == plen + p
             row == s.row
             col == s.col
  <2>1. b \in Nat
    BY <1>0
  <2>2. rpos \in Nat \ {0}
    BY <1>0, OldRow
  <2>3. /\ b = d * width + v /\ v \in 0 .. width - 1
    <3> DEFINE u == b \div width
    <3>1. u \in Nat /\ v \in 0 .. width - 1 /\ b = u * width + v
      BY <1>0, <2>1, Divided
    <3> HIDE DEF u, v
    <3>2. (u + 1) * width = u * width + width /\ u * width \in Nat /\ u + 1 \in Nat
      BY <1>0, <3>1
    <3>3. plen + p + cols = (u + 1) * width + v
      BY <1>0, <3>1, <3>2
    <3>4. rpos = u + 1
      BY <1>0, <3>1, <3>2, <3>3, Quotient
    <3> QED BY <3>1, <3>4
  <2> HIDE DEF v, b, rpos
  <2>4. d \in Nat
    BY <2>2
  <2>5. b = plen + p
    BY DEF b
  <2> HIDE DEF d
  <2>6. row * width + col = tp * width + (d * width + v)
    BY <1>1, <2>3, <2>5
  <2>7. row \in Int /\ col \in Int /\ d \in Int /\ v \in Int /\ tp \in Int
        /\ col - v < width /\ v - col < width
    <3>1. s.col \in Nat /\ s.row \in Nat /\ s.col < width
      BY <1>1, <1>2
    <3>2. v \in Nat /\ v < width
      BY <1>0, <2>3
    <3> HIDE DEF row, col
    <3>3. row \in Nat /\ col \in Nat /\ col < width
      BY <3>1 DEF row, col
    <3> QED BY <1>0, <2>4, <3>2, <3>3
  <2> HIDE DEF row, col
  <2>8. row = tp + d
    BY <1>0, <2>6, <2>7, RowsOn
  <2>9. d * width < used * width
    <3> DEFINE x == d * width
               y == used * width
    <3>1. x \in Nat /\ y \in Nat
      BY <1>0, <1>3, <2>4
    <3>2. b = x + v /\ b < y /\ v \in Nat /\ b \in Nat
      BY <1>11, <2>1, <2>3, <2>5
    <3> HIDE DEF x, y
    <3>3. x < y
      BY <3>1, <3>2
    <3> QED BY <3>3 DEF x, y
  <2>10. ~(used <= d)
    BY <1>0, <1>3, <2>4, <2>9, Times
  <2> QED BY <2>2, <2>4, <2>8, <2>10, <1>3 DEF row
<1>5. first = tp /\ last + 1 = tp + used
  <2>1. Larger(s.maxrows - rpos, 0) = used - rpos
    <3> DEFINE m == s.maxrows
    <3>1. m \in Nat /\ (m > 0 => used = m) /\ (m = 0 => used = 1)
      BY <1>2, <1>3
    <3>2. rpos \in Nat /\ rpos - 1 \in Nat /\ rpos - 1 < used
      BY <1>4
    <3> HIDE DEF m, rpos
    <3>3. rpos >= 1 /\ rpos <= used
      BY <3>1, <3>2
    <3>4. Larger(m - rpos, 0) = used - rpos
      BY <3>1, <3>2, <3>3 DEF Larger
    <3> QED BY <3>4 DEF m
  <2>2. Larger(s.maxrows - 1, 0) = used - 1
    BY <1>2, <1>3 DEF Larger
  <2>3. last = tp + used - 1
    BY <2>1, <1>2, <1>3, <1>4
  <2> HIDE DEF last
  <2>4. last - (used - 1) = tp
    BY <2>3, <1>3
  <2> QED BY <2>2, <2>3, <2>4, <1>3 DEF Larger
<1>6. /\ c \in Screens /\ c.row = tp /\ c.col = 0 /\ c.maxrows = s.maxrows
      /\ \A k \in Cells : c.cells[k] = IF tp * width <= k /\ k < (tp + used) * width
                                       THEN " " ELSE s.cells[k]
  <2>1. rpos = (plen + s.oldpos + cols) \div cols
    BY <1>1
  <2> HIDE DEF rpos
  <2> QED BY <2>1, <1>1, <1>4, <1>5, RowsCleared
<1> HIDE DEF c, first, last, rpos
\* Below the rows used so far there is nothing.
<1>7. ASSUME NEW k \in Cells, tp * width <= k PROVE c.cells[k] = " "
  <2>1. CASE k < (tp + used) * width
    BY <2>1, <1>6, <1>7
  <2>2. CASE ~(k < (tp + used) * width)
    <3>1. (tp + used) * width = tp * width + used * width
          /\ tp * width \in Nat /\ used * width \in Nat /\ k \in Nat
      BY <1>0, <1>3, CellsOK
    <3>2. width <= used * width
      <4>1. 1 * width <= used * width
        BY <1>0, <1>3, Times
      <4> QED BY <4>1, <1>0
    <3>3. Len(shown) = plen + Len(text) + n /\ Len(shown) <= used * width
      <4>1. Marks(n) \in Seq(Glyphs) /\ Len(Marks(n)) = n
        BY <1>1, MarksOK
      <4>2. Len(shown) = plen + Len(text) + n
        BY <4>1, ShownOK
      <4> DEFINE y == used * width
      <4>3. y \in Nat /\ width <= y /\ plen + Len(text) <= y /\ n \in Nat
            /\ (n > 0 => plen + Len(text) + n <= width)
        BY <3>1, <3>2, <1>1
      <4> HIDE DEF y, shown
      <4>4. Len(shown) <= y
        BY <4>2, <4>3, <1>0
      <4> QED BY <4>2, <4>4 DEF y
    <3> HIDE DEF shown
    <3>4. ~(k - tp * width + 1 <= Len(shown))
      <4> DEFINE y == used * width
                 z == tp * width
      <4>1. y \in Nat /\ z \in Nat /\ k \in Nat /\ ~(k < z + y) /\ Len(shown) <= y
            /\ Len(shown) \in Nat
        BY <2>2, <3>1, <3>3, <1>0, <1>12
      <4> HIDE DEF y, z
      <4>2. ~(k - z + 1 <= Len(shown))
        BY <4>1
      <4> QED BY <4>2 DEF z
    <3>5. c.cells[k] = s.cells[k] /\ s.cells[k] = " "
      BY <2>2, <3>4, <1>1, <1>6, <1>7
    <3> QED BY <3>5
  <2> QED BY <2>1, <2>2
<1>8. ASSUME NEW k \in Cells, k < tp * width PROVE c.cells[k] = s.cells[k]
  <2>1. k \in Nat /\ tp * width \in Nat
    BY <1>0, CellsOK
  <2>2. ~(tp * width <= k)
    BY <2>1, <1>8
  <2> QED BY <2>2, <1>6
<1>9. Cleared(c, tp)
  BY <1>6, <1>7 DEF Cleared, BlankFrom
<1> QED BY <1>6, <1>8, <1>9 DEF c

\* After linenoiseClearScreen there is nothing to clear, and it is cleared from the top.
LEMMA ClearedAll ==
  ASSUME Sized, NEW s \in Screens
  PROVE  LET a == ClearAll(s)
         IN  /\ a \in Screens /\ Cleared(a, 0)
             /\ mlmode => Cleared(ClearRows(a), 0) /\ ClearRows(a).maxrows = a.maxrows
<1> DEFINE a == ClearAll(s)
           rpos == (plen + a.oldpos + cols) \div cols
           new == [k \in Cells |-> " "]
<1>1. /\ s.maxrows \in Nat /\ s.oldpos \in Nat /\ DOMAIN s.cells = Cells
  BY DEF Screens
<1>2. new \in [Cells -> Glyphs]
  BY DEF Glyphs
<1>3. a = [cells |-> new, row |-> 0, col |-> 0, maxrows |-> s.maxrows, oldpos |-> s.oldpos]
  <2>1. new = [k \in DOMAIN s.cells |-> " "]
    BY <1>1
  <2> HIDE DEF new
  <2>2. a = [s EXCEPT !.cells = new, !.row = 0, !.col = 0]
    BY <2>1 DEF ClearAll
  <2> HIDE DEF a
  <2> QED BY <2>2 DEF Screens
<1> HIDE DEF a
<1>4. /\ a \in Screens /\ a.row = 0 /\ a.col = 0 /\ a.maxrows \in Nat /\ a.oldpos \in Nat
      /\ \A k \in Cells : a.cells[k] = " "
  BY <1>1, <1>2, <1>3 DEF Screens
<1>5. Cleared(a, 0)
  BY <1>4 DEF Cleared, BlankFrom
<1>6. rpos \in Nat \ {0}
  BY <1>4, OldRow
<1> DEFINE last == a.row + Larger(a.maxrows - rpos, 0)
           first == Larger(last - Larger(a.maxrows - 1, 0), 0)
<1> HIDE DEF rpos
<1>7. first = 0
  <2> DEFINE m == a.maxrows
             x == Larger(m - rpos, 0)
             y == Larger(m - 1, 0)
  <2>1. m \in Nat /\ a.row = 0
    BY <1>4
  <2> HIDE DEF m
  <2>2. x \in Nat /\ y \in Nat /\ x <= y
    BY <2>1, <1>6 DEF Larger
  <2> HIDE DEF x, y
  <2>3. Larger((0 + x) - y, 0) = 0
    BY <2>2 DEF Larger
  <2> QED BY <2>1, <2>3 DEF x, y, m
<1>8. ClearRows(a) \in Screens /\ ClearRows(a).row = first /\ ClearRows(a).col = 0
      /\ ClearRows(a).maxrows = a.maxrows
      /\ \A k \in Cells :
           ClearRows(a).cells[k] = IF first * width <= k /\ k < (last + 1) * width
                                   THEN " " ELSE a.cells[k]
  BY <1>4, <1>6, RowsCleared DEF rpos
<1> HIDE DEF first, last
<1>9. \A k \in Cells : ClearRows(a).cells[k] = " "
  BY <1>4, <1>8
<1>10. Cleared(ClearRows(a), 0)
  BY <1>7, <1>8, <1>9 DEF Cleared, BlankFrom
<1> QED BY <1>4, <1>5, <1>8, <1>10 DEF a

\* The window has room in its row, and the cursor is in it.
LEMMA WindowOf ==
  ASSUME Sized, NEW S, NEW text \in Seq(S), NEW p \in 0 .. Len(text)
  PROVE  LET w == Window(text, p)
         IN  /\ w \in Seq(S) /\ Len(w) \in Nat
             /\ Len(w) <= width - plen /\ Len(w) <= Len(text)
             /\ Shift(p) \in 0 .. p /\ plen + p - Shift(p) \in 0 .. width - 1
<1> DEFINE n == Len(text)
           m == Shift(p)
           last == Smaller(n, m + cols - plen)
           w == Window(text, p)
<1>1. /\ n \in Nat /\ p \in Nat /\ p <= n /\ width \in Nat /\ plen \in Nat
      /\ plen < width /\ cols = width /\ plen > 0
  BY LenProperties DEF Sized
<1> HIDE DEF n
<1>2. m \in 0 .. p /\ plen + p - m \in 0 .. width - 1
  BY <1>1 DEF Shift
<1> HIDE DEF m
<1>3. last \in Int /\ last <= n /\ last - m <= width - plen /\ m <= last
  BY <1>1, <1>2 DEF Smaller
<1> HIDE DEF last
<1>4. w = SubSeq(text, m + 1, last)
  BY DEF w, Window, last, m, n
<1> HIDE DEF w
<1>5. \A j \in m + 1 .. last : text[j] \in S
  <2> SUFFICES ASSUME NEW j \in m + 1 .. last PROVE text[j] \in S
    OBVIOUS
  <2>1. j \in 1 .. n
    BY <1>1, <1>2, <1>3
  <2> QED BY <2>1, ElementOfSeq DEF n
<1>6. m + 1 \in Int
  BY <1>2
<1>7. w \in Seq(S) /\ Len(w) = IF m + 1 <= last THEN last - (m + 1) + 1 ELSE 0
  BY <1>3, <1>4, <1>5, <1>6, SubSeqProperties
<1>8. Len(w) = last - m
  BY <1>2, <1>3, <1>7
<1> QED BY <1>1, <1>2, <1>3, <1>7, <1>8 DEF w, m, n

LEMMA WindowOK ==
  ASSUME Sized, NEW text \in Seq(Glyphs), NEW p \in 0 .. Len(text)
  PROVE  LET w == Window(text, p)
         IN  /\ w \in Seq(Glyphs) /\ Len(w) \in Nat
             /\ Len(w) <= width - plen /\ Len(w) <= Len(text)
             /\ Shift(p) \in 0 .. p /\ plen + p - Shift(p) \in 0 .. width - 1
BY WindowOf

\* ESC [ 0 K blanks the rest of the row, and no other cell.
LEMMA EraseOK ==
  ASSUME Sized, NEW s \in Screens
  PROVE  LET from == s.row * width + Smaller(s.col, width - 1)
             t == EraseRight(s)
         IN  /\ t \in Screens /\ t.row = s.row /\ t.col = s.col
             /\ t.maxrows = s.maxrows /\ t.oldpos = s.oldpos
             /\ \A k \in Cells : t.cells[k] = IF from <= k /\ k < (s.row + 1) * width
                                              THEN " " ELSE s.cells[k]
<1> DEFINE from == s.row * width + Smaller(s.col, width - 1)
           new == [k \in Cells |-> IF from <= k /\ k < (s.row + 1) * width
                                   THEN " " ELSE s.cells[k]]
           t == EraseRight(s)
<1>1. /\ s.row \in Nat /\ s.col \in Nat /\ s.maxrows \in Nat /\ s.oldpos \in Nat
      /\ s.cells \in [Cells -> Glyphs] /\ DOMAIN s.cells = Cells
  BY DEF Screens
<1> HIDE DEF from
<1>2. new \in [Cells -> Glyphs]
  BY <1>1 DEF Glyphs
<1>3. t = [s EXCEPT !.cells = new]
  BY <1>1 DEF EraseRight, from
<1>4. \A k \in Cells : new[k] = IF from <= k /\ k < (s.row + 1) * width
                                THEN " " ELSE s.cells[k]
  OBVIOUS
<1> HIDE DEF new, t
<1>5. t = [cells |-> new, row |-> s.row, col |-> s.col,
           maxrows |-> s.maxrows, oldpos |-> s.oldpos]
  BY <1>3 DEF Screens
<1>6. t \in Screens
  BY <1>1, <1>2, <1>5 DEF Screens
<1>7. /\ t.row = s.row /\ t.col = s.col /\ t.cells = new
      /\ t.maxrows = s.maxrows /\ t.oldpos = s.oldpos
  BY <1>5
<1> QED BY <1>4, <1>6, <1>7 DEF t, from

LEMMA Within == ASSUME NEW w \in Nat, NEW m \in 0 .. w - 1 PROVE m \div w = 0
<1>1. 0 * w + m = m
  OBVIOUS
<1> QED BY <1>1, Quotient

\* What is in single-line mode below the row of the prompt: nothing.
RestBlank(s, tp) == s \in Screens /\ s.row = tp /\ BlankFrom(s, tp * width + width)

\* refreshSingleLine, in row tp.
LEMMA SingleDraws ==
  ASSUME Sized, ~mlmode, NEW s, NEW tp \in Nat, RestBlank(s, tp), NEW text \in Seq(Glyphs),
         NEW p \in 0 .. Len(text), NEW size \in Nat
  PROVE  LET h == Hint(Len(text), size)
             t == RefreshSingle(s, text, p, h)
         IN  /\ Drawn(t, tp, text, p, Len(h))
             /\ \A k \in Cells : k < tp * width => t.cells[k] = s.cells[k]
<1> DEFINE n == Len(text)
           h == Hint(n, size)
           w == Window(text, p)
           base == tp * width
           shown == Prompt \o w \o h
           c == Return(s)
           printed == Write(Write(Write(c, Prompt), w), h)
           erased == EraseRight(printed)
           back == Return(erased)
           cursor == p - Shift(p) + plen
           t == RefreshSingle(s, text, p, h)
<1>0. /\ width \in Nat /\ width > 0 /\ plen \in Nat /\ plen > 0 /\ cols = width /\ plen < width
      /\ n \in Nat /\ p \in Nat /\ p <= n
  BY LenProperties DEF Sized
<1>1. /\ h \in Seq(Glyphs) /\ Len(h) \in Nat /\ h = Marks(Len(h))
      /\ Len(h) > 0 => plen + n + Len(h) <= width
  BY <1>0, HintOK
<1>2. /\ w \in Seq(Glyphs) /\ Len(w) \in Nat /\ Len(w) <= width - plen /\ Len(w) <= n
      /\ Shift(p) \in 0 .. p /\ cursor \in 0 .. width - 1 /\ cursor = plen + p - Shift(p)
  <2> HIDE DEF w
  <2>1. /\ w \in Seq(Glyphs) /\ Len(w) \in Nat /\ Len(w) <= width - plen /\ Len(w) <= n
        /\ Shift(p) \in 0 .. p /\ plen + p - Shift(p) \in 0 .. width - 1
    BY WindowOK DEF w
  <2> DEFINE m == Shift(p)
  <2>2. m \in Int
    BY <2>1, <1>0
  <2> HIDE DEF m
  <2>3. p - m + plen = plen + p - m
    BY <2>2, <1>0
  <2> QED BY <2>1, <2>3 DEF m
<1>3. /\ shown \in Seq(Glyphs) /\ Len(shown) \in 1 .. width
  <2>1. /\ shown \in Seq(Glyphs) /\ Len(shown) = plen + Len(w) + Len(h)
    BY <1>1, <1>2, ShownOK
  <2> HIDE DEF shown, h, w, n
  <2>2. Len(w) \in Nat /\ Len(w) <= width - plen /\ Len(w) <= n
    BY <1>2
  <2>3. Len(h) \in Nat /\ (Len(h) > 0 => plen + n + Len(h) <= width)
    BY <1>1
  <2>4. plen + Len(w) + Len(h) \in 1 .. width
    BY <2>2, <2>3, <1>0
  <2> QED BY <2>1, <2>4
<1>4. /\ c \in Screens /\ c.row = tp /\ c.col = 0 /\ base \in Nat /\ base + width \in Nat
      /\ BlankFrom(c, base + width) /\ c.cells = s.cells /\ s \in Screens
  <2>1. s \in Screens /\ s.row = tp /\ BlankFrom(s, base + width)
    BY DEF RestBlank
  <2>2. base \in Nat /\ base + width \in Nat
    BY <1>0
  <2>3. Moves(s, c) /\ c.row = s.row /\ c.col = 0
    BY <2>1, ScreenOps
  <2> HIDE DEF c, base
  <2> QED BY <2>1, <2>2, <2>3 DEF Moves, BlankFrom
<1> HIDE DEF c, h, w, cursor, n
<1>5. Printed(printed, base, shown, base + width) /\ Keeps(c, printed, base)
  BY <1>1, <1>2, <1>4, LinePrinted
<1> HIDE DEF printed, shown
<1>6. /\ printed \in Screens /\ printed.row = tp /\ printed.col = Len(shown)
  <2>1. printed.row = tp + ((Len(shown) - 1) \div width)
    BY <1>3, <1>4, <1>5, PrintedRow
  <2>2. (Len(shown) - 1) \div width = 0
    <3>1. Len(shown) - 1 \in 0 .. width - 1
      BY <1>0, <1>3
    <3> QED BY <3>1, <1>0, Within
  <2>3. printed.row = tp
    BY <2>1, <2>2
  <2>4. printed \in Screens /\ printed.row * width + printed.col = base + Len(shown)
    BY <1>5 DEF Printed
  <2> HIDE DEF base
  <2>5. base + printed.col = base + Len(shown)
    BY <2>3, <2>4 DEF base
  <2>6. printed.col \in Nat
    BY <2>4 DEF Screens
  <2> QED BY <2>3, <2>4, <2>5, <2>6, <1>3, <1>4
<1> DEFINE from == base + Smaller(Len(shown), width - 1)
<1>7. /\ erased \in Screens /\ erased.row = tp
      /\ \A k \in Cells : erased.cells[k] = IF from <= k /\ k < (tp + 1) * width
                                            THEN " " ELSE printed.cells[k]
      /\ erased.maxrows = printed.maxrows /\ erased.oldpos = printed.oldpos
  BY <1>6, EraseOK
<1>8. (tp + 1) * width = base + width
  BY <1>0
<1>15. Drawn(t, tp, text, p, Len(h)) <=> Drawn(Forward(back, cursor), tp, text, p, Len(h))
  BY DEF RefreshSingle, printed, erased, back, c, w, cursor
<1>16. t = Forward(back, cursor)
  BY DEF RefreshSingle, printed, c, w, cursor
<1> HIDE DEF base, erased, t
<1>9. /\ t \in Screens /\ t.cells = erased.cells /\ t.row = tp /\ t.col = cursor
  <2>1. Moves(erased, back) /\ back.row = tp /\ back.col = 0
    BY <1>7, ScreenOps
  <2> HIDE DEF back
  <2>2. back \in Screens /\ cursor \in Nat
    BY <2>1, <1>2 DEF Moves
  <2>3. Moves(back, t) /\ t.row = tp /\ t.col = Smaller(0 + cursor, width - 1)
    <3>1. /\ Moves(back, Forward(back, cursor)) /\ Forward(back, cursor).row = back.row
          /\ Forward(back, cursor).col = Smaller(back.col + cursor, width - 1)
      BY <2>2, ScreenOps
    <3> QED BY <3>1, <2>1, <1>16
  <2>4. Smaller(0 + cursor, width - 1) = cursor
    <3>1. cursor \in 0 .. width - 1
      BY <1>2
    <3> QED BY <3>1, <1>0, SmallerOf
  <2> QED BY <2>1, <2>3, <2>4 DEF Moves
<1>10. Len(shown) \in Nat /\ from \in Nat
       /\ (Len(shown) < width => from = base + Len(shown))
       /\ (Len(shown) = width => from = base + width - 1)
  BY <1>0, <1>3, <1>4 DEF Smaller
<1> HIDE DEF from
<1>11. ASSUME NEW k \in Cells, base <= k
       PROVE  \/ t.cells[k] = IF k - base + 1 <= Len(shown) THEN shown[k - base + 1] ELSE " "
              \/ k - base + 1 = width /\ t.cells[k] = " "
  <2>1. k \in Nat
    BY CellsOK
  <2>2. CASE k < from
    <3>1. k - base < Len(shown) /\ k - base + 1 <= Len(shown) /\ ~(from <= k)
      BY <2>1, <2>2, <1>0, <1>3, <1>4, <1>10
    <3>2. t.cells[k] = printed.cells[k]
      BY <3>1, <1>7, <1>9
    <3>3. printed.cells[k] = shown[k - base + 1]
      BY <3>1, <1>5, <1>11 DEF Printed
    <3> QED BY <3>1, <3>2, <3>3
  <2>3. CASE from <= k /\ k < base + width
    <3>1. t.cells[k] = " "
      BY <2>3, <1>7, <1>8, <1>9
    <3>2. ~(k - base + 1 <= Len(shown)) \/ k - base + 1 = width
      BY <2>1, <2>3, <1>0, <1>3, <1>4, <1>10
    <3> QED BY <3>1, <3>2
  <2>4. CASE base + width <= k
    <3>1. base + Len(shown) <= k /\ ~(k < base + width) /\ ~(k - base + 1 <= Len(shown))
      BY <2>1, <2>4, <1>0, <1>3, <1>4
    <3>2. t.cells[k] = printed.cells[k]
      BY <3>1, <1>7, <1>8, <1>9
    <3>3. printed.cells[k] = " "
      BY <2>4, <3>1, <1>5 DEF Printed
    <3> QED BY <3>1, <3>2, <3>3
  <2>5. k < from \/ (from <= k /\ k < base + width) \/ base + width <= k
    <3>1. base \in Nat /\ from \in Nat
      BY <1>4, <1>10
    <3> QED BY <2>1, <3>1, <1>0
  <2> QED BY <2>2, <2>3, <2>4, <2>5
<1>12. ASSUME NEW k \in Cells, k < base PROVE t.cells[k] = s.cells[k]
  <2>1. ~(from <= k)
    BY <1>0, <1>3, <1>4, <1>10, <1>12, CellsOK
  <2>2. t.cells[k] = printed.cells[k]
    BY <2>1, <1>7, <1>9
  <2> QED BY <2>2, <1>4, <1>5, <1>12 DEF Keeps
<1>13. t.row * width + t.col = base + CursorCell(p) /\ t.col < width
  BY <1>0, <1>2, <1>9 DEF CursorCell, base
<1>14. Prompt \o LineShown(text, p) \o Marks(Len(h)) = shown
  BY <1>1 DEF LineShown, shown, w
<1>17. Drawn(t, tp, text, p, Len(h))
  BY <1>1, <1>9, <1>11, <1>13, <1>14 DEF Drawn, base, n
<1> QED BY <1>12, <1>17 DEF t, h, n, base

\* What it has drawn it can draw over.
LEMMA DrawnRest ==
  ASSUME Sized, ~mlmode, NEW s, NEW tp \in Nat, NEW text \in Seq(Glyphs),
         NEW p \in 0 .. Len(text), NEW n, Drawn(s, tp, text, p, n)
  PROVE  RestBlank(s, tp)
<1> DEFINE w == Window(text, p)
           shown == Prompt \o w \o Marks(n)
           base == tp * width
<1>1. /\ s \in Screens /\ s.row = tp /\ n \in Nat /\ (n > 0 => plen + Len(text) + n <= width)
      /\ \A k \in Cells : base <= k =>
           \/ s.cells[k] = IF k - base + 1 <= Len(shown) THEN shown[k - base + 1] ELSE " "
           \/ s.cells[k] = " "
  BY DEF Drawn, LineShown
<1>2. /\ width \in Nat /\ plen \in Nat /\ plen < width /\ base \in Nat /\ Len(text) \in Nat
  BY LenProperties DEF Sized
<1>3. Len(shown) \in Nat /\ Len(shown) <= width
  <2>1. Marks(n) \in Seq(Glyphs) /\ Len(Marks(n)) = n
    BY <1>1, MarksOK
  <2>2. w \in Seq(Glyphs) /\ Len(w) \in Nat /\ Len(w) <= width - plen /\ Len(w) <= Len(text)
    BY WindowOK
  <2>3. Len(shown) = plen + Len(w) + n
    BY <2>1, <2>2, ShownOK
  <2>4. n \in Nat /\ (n > 0 => plen + Len(text) + n <= width)
    BY <1>1
  <2> HIDE DEF shown, w
  <2> QED BY <2>2, <2>3, <2>4, <1>2
<1> HIDE DEF base, shown, w
<1>4. ASSUME NEW k \in Cells, base + width <= k PROVE s.cells[k] = " "
  <2>1. base <= k /\ ~(k - base + 1 <= Len(shown))
    BY <1>2, <1>3, <1>4, CellsOK
  <2> QED BY <2>1, <1>1
<1> QED BY <1>1, <1>4 DEF RestBlank, BlankFrom, base

LEMMA WindowWhole ==
  ASSUME Sized, NEW text \in Seq(Glyphs), NEW p \in 0 .. Len(text),
         plen + p < width, plen + Len(text) <= width
  PROVE  Shift(p) = 0 /\ Window(text, p) = text
<1> DEFINE n == Len(text)
<1>1. n \in Nat /\ p \in Nat /\ width \in Nat /\ plen \in Nat /\ cols = width
  BY LenProperties DEF Sized
<1>2. Shift(p) = 0
  BY <1>1 DEF Shift
<1>3. Smaller(n, 0 + cols - plen) = n
  <2>1. n <= 0 + cols - plen
    BY <1>1
  <2> HIDE DEF n
  <2> QED BY <2>1, <1>1 DEF Smaller
<1>4. Window(text, p) = SubSeq(text, 1, n)
  BY <1>2, <1>3 DEF Window
<1> QED BY <1>2, <1>4, SubSeqFull

LEMMA NoMarks == 0 \in Nat /\ ~(0 > 0)
OBVIOUS

LEMMA BareDrawn ==
  ASSUME ~mlmode, NEW t \in Screens, NEW tp, NEW text, NEW p,
         t.row = tp, t.col < width, t.row * width + t.col = tp * width + CursorCell(p),
         \A k \in Cells : tp * width <= k =>
           LET j == k - tp * width + 1
               shown == Prompt \o LineShown(text, p) \o Marks(0)
           IN  t.cells[k] = IF j <= Len(shown) THEN shown[j] ELSE " "
  PROVE  Drawn(t, tp, text, p, 0)
<1> DEFINE shown == Prompt \o LineShown(text, p) \o Marks(0)
<1>1. \A k \in Cells : tp * width <= k =>
        LET j == k - tp * width + 1
        IN  t.cells[k] = IF j <= Len(shown) THEN shown[j] ELSE " "
  OBVIOUS
<1> QED BY <1>1, NoMarks, Zenon DEF Drawn

\* The trivial case of linenoiseEditInsert: the character after the line.
LEMMA TrivialDraws ==
  ASSUME Sized, ~mlmode, NEW s, NEW tp \in Nat, NEW text \in Seq(Glyphs),
         NEW c \in Glyphs, Drawn(s, tp, text, Len(text), 0),
         plen + Len(text) + 1 < cols
  PROVE  LET t == Write(s, <<c>>)
             m == Len(text) + 1
         IN  /\ Drawn(t, tp, text \o <<c>>, m, 0)
             /\ \A k \in Cells : k < tp * width => t.cells[k] = s.cells[k]
<1> DEFINE n == Len(text)
           base == tp * width
           shown == Prompt \o text
           more == text \o <<c>>
           after == shown \o <<c>>
           t == Write(s, <<c>>)
<1>0. /\ width \in Nat /\ width > 0 /\ plen \in Nat /\ plen > 0 /\ cols = width /\ plen < width
      /\ n \in Nat /\ plen + n + 1 < width
  BY LenProperties DEF Sized
<1>1. /\ <<c>> \in Seq(Glyphs) /\ Len(<<c>>) = 1
      /\ more \in Seq(Glyphs) /\ Len(more) = n + 1 /\ Prompt \o more = after
      /\ shown \in Seq(Glyphs) /\ Len(shown) = plen + n
      /\ after \in Seq(Glyphs) /\ Len(after) = plen + n + 1
  <2>1. <<c>> \in Seq(Glyphs) /\ Len(<<c>>) = 1
    OBVIOUS
  <2>2. more \in Seq(Glyphs) /\ Len(more) = n + 1
    BY <2>1, ConcatProperties
  <2>4. Len(Prompt) = plen /\ Prompt \in Seq(Glyphs)
    BY PromptOK
  <2>3. after = Prompt \o more
    <3> DEFINE d == <<c>>
               b == Prompt
    <3>1. d \in Seq(Glyphs) /\ b \in Seq(Glyphs)
      BY <2>1, <2>4
    <3> HIDE DEF d, b
    <3>2. (b \o text) \o d = b \o (text \o d)
      BY <3>1, ConcatAssociative
    <3> QED BY <3>2 DEF d, b
  <2>5. shown \in Seq(Glyphs) /\ Len(shown) = plen + n
    BY <2>4, ConcatProperties
  <2> HIDE DEF shown, n
  <2>6. after \in Seq(Glyphs) /\ Len(after) = plen + n + 1
    BY <2>1, <2>5, ConcatProperties
  <2> QED BY <2>1, <2>2, <2>3, <2>5, <2>6
<1>2. Shift(n) = 0 /\ Window(text, n) = text /\ Shift(n + 1) = 0 /\ Window(more, n + 1) = more
  <2> HIDE DEF more
  <2>1. n \in 0 .. Len(text) /\ plen + n < width /\ plen + Len(text) <= width
    BY <1>0
  <2>2. n + 1 \in 0 .. Len(more) /\ plen + (n + 1) < width /\ plen + Len(more) <= width
    BY <1>0, <1>1
  <2> HIDE DEF n
  <2>3. Shift(n) = 0 /\ Window(text, n) = text
    BY <2>1, WindowWhole
  <2>4. Shift(n + 1) = 0 /\ Window(more, n + 1) = more
    BY <2>2, <1>1, WindowWhole
  <2> QED BY <2>3, <2>4
<1>3. \A str \in Seq(Glyphs) : str \o Marks(0) = str
  <2>1. Marks(0) = << >>
    BY EmptySeq DEF Marks
  <2> QED BY <2>1, ConcatEmptySeq
<1> HIDE DEF n, shown, more, after
<1>4. /\ s \in Screens /\ s.row = tp /\ s.row * width + s.col = base + (plen + n)
      /\ \A k \in Cells : base <= k =>
           \/ s.cells[k] = IF k - base + 1 <= Len(shown) THEN shown[k - base + 1] ELSE " "
           \/ k - base + 1 = width /\ s.cells[k] = " "
  <2>1. shown = Prompt \o text /\ shown \o Marks(0) = shown
    BY <1>1, <1>3 DEF shown
  <2>2. LineShown(text, n) = text /\ CursorCell(n) = plen + n
    BY <1>0, <1>2 DEF LineShown, CursorCell
  <2> QED BY <2>1, <2>2 DEF Drawn, n
<1>5. base \in Nat /\ s.col = plen + n
  <2>1. base \in Nat /\ s.col \in Nat
    <3>1. base \in Nat
      BY <1>0
    <3> QED BY <3>1, <1>4 DEF Screens
  <2>2. base + s.col = base + (plen + n)
    BY <1>4
  <2> HIDE DEF base
  <2> QED BY <2>1, <2>2, <1>0
<1> HIDE DEF base
<1>6. Printed(s, base, shown, base)
  <2>1. ASSUME NEW k \in Cells, base <= k, k - base < Len(shown)
        PROVE  s.cells[k] = shown[k - base + 1]
    <3>1. k - base + 1 <= Len(shown) /\ k - base + 1 # width
      BY <2>1, <1>0, <1>1, <1>5, CellsOK
    <3> QED BY <3>1, <2>1, <1>4
  <2>2. ASSUME NEW k \in Cells, base + Len(shown) <= k PROVE s.cells[k] = " "
    <3>1. ~(k - base + 1 <= Len(shown)) /\ base <= k
      BY <2>2, <1>0, <1>1, <1>5, CellsOK
    <3> QED BY <3>1, <1>4
  <2>3. s.col <= width /\ s.col > 0
    BY <1>0, <1>5
  <2> QED BY <2>1, <2>2, <2>3, <1>1, <1>4 DEF Printed
<1>7. Printed(t, base, after, base) /\ Keeps(s, t, base)
  BY <1>1, <1>5, <1>6, WriteOn DEF after
<1> HIDE DEF t
<1>8. t \in Screens /\ t.row = tp /\ t.col = plen + n + 1
  <2>1. Len(after) - 1 = plen + n /\ plen + n \in 0 .. width - 1 /\ Len(after) > 0
    BY <1>0, <1>1
  <2>2. t.row = tp + ((Len(after) - 1) \div width)
    BY <2>1, <1>1, <1>7, PrintedRow DEF base
  <2>3. t.row = tp
    <3>1. (Len(after) - 1) \div width = 0
      BY <2>1, <1>0, Within
    <3> QED BY <2>2, <3>1
  <2>4. t \in Screens /\ t.row * width + t.col = base + Len(after)
    BY <1>7 DEF Printed
  <2>5. base + t.col = base + Len(after)
    BY <2>3, <2>4 DEF base
  <2>6. t.col \in Nat
    BY <2>4 DEF Screens
  <2>7. t.col = Len(after)
    <3>1. Len(after) \in Nat
      BY <1>0, <1>1
    <3> QED BY <3>1, <2>5, <2>6, <1>5
  <2> QED BY <2>3, <2>4, <2>7, <1>1
<1>9. ASSUME NEW k \in Cells, base <= k
      PROVE  t.cells[k] = IF k - base + 1 <= Len(after) THEN after[k - base + 1] ELSE " "
  <2>1. k \in Nat /\ Len(after) \in Nat
    BY <1>0, <1>1, CellsOK
  <2>2. CASE k - base < Len(after)
    <3>1. t.cells[k] = after[k - base + 1]
      BY <2>2, <1>7, <1>9 DEF Printed
    <3>2. k - base + 1 <= Len(after)
      BY <2>1, <2>2, <1>5
    <3> QED BY <3>1, <3>2
  <2>3. CASE ~(k - base < Len(after))
    <3>1. base + Len(after) <= k /\ ~(k - base + 1 <= Len(after))
      BY <2>1, <2>3, <1>5
    <3>2. t.cells[k] = " "
      BY <3>1, <1>7, <1>9 DEF Printed
    <3> QED BY <3>1, <3>2
  <2> QED BY <2>2, <2>3
<1>10. CursorCell(n + 1) = plen + (n + 1)
  <2>1. plen + (n + 1) - 0 = plen + (n + 1)
    BY <1>0
  <2> QED BY <2>1, <1>2 DEF CursorCell
<1>14. Prompt \o LineShown(more, n + 1) \o Marks(0) = after
  <2>1. LineShown(more, n + 1) = more
    BY <1>2 DEF LineShown
  <2> QED BY <2>1, <1>1, <1>3
<1>11. t.row * width + t.col = base + (plen + (n + 1)) /\ t.col < width
  BY <1>0, <1>5, <1>8 DEF base
<1>12. Drawn(t, tp, more, n + 1, 0)
  <2> DEFINE str == Prompt \o LineShown(more, n + 1) \o Marks(0)
  <2>1. t \in Screens /\ t.row = tp /\ t.col < width
    BY <1>8, <1>11
  <2>2. ASSUME NEW k \in Cells, base <= k
        PROVE  t.cells[k] = IF k - base + 1 <= Len(str) THEN str[k - base + 1] ELSE " "
    BY <2>2, <1>9, <1>14
  <2>3. t.row * width + t.col = base + CursorCell(n + 1)
    BY <1>10, <1>11
  <2> QED BY <2>1, <2>2, <2>3, BareDrawn DEF base
<1>13. \A k \in Cells : k < base => t.cells[k] = s.cells[k]
  BY <1>7 DEF Keeps
<1> QED BY <1>12, <1>13 DEF t, n, more, base

(* ------------------------------- Refreshing ---------------------------- *)

\* refreshLine can draw over s, in row tp.
Redrawable(s, tp) ==
  /\ s \in Screens
  /\ mlmode => /\ Cleared(ClearRows(s), tp) /\ ClearRows(s).maxrows = s.maxrows
               /\ \A k \in Cells : k < tp * width => ClearRows(s).cells[k] = s.cells[k]
  /\ ~mlmode => RestBlank(s, tp)

LEMMA DrawnRedrawable ==
  ASSUME Sized, NEW s, NEW tp \in Nat, NEW text \in Seq(Glyphs), NEW p \in 0 .. Len(text),
         NEW n, Drawn(s, tp, text, p, n)
  PROVE  Redrawable(s, tp)
<1>1. s \in Screens
  BY DEF Drawn
<1> QED BY <1>1, DrawnCleared, DrawnRest DEF Redrawable

LEMMA ClearedRedrawable ==
  ASSUME Sized, NEW s \in Screens PROVE Redrawable(ClearAll(s), 0)
<1> DEFINE a == ClearAll(s)
<1>1. /\ a \in Screens /\ Cleared(a, 0)
      /\ mlmode => Cleared(ClearRows(a), 0) /\ ClearRows(a).maxrows = a.maxrows
  BY ClearedAll
<1> HIDE DEF a
<1>2. 0 * width = 0 /\ 0 * width + width >= 0
  BY DEF Sized
<1>3. \A k \in Cells : ~(k < 0 * width)
  BY <1>2, CellsOK
<1>4. RestBlank(a, 0)
  <2>1. \A k \in Cells : 0 * width <= k
    BY <1>2, CellsOK
  <2> QED BY <1>1, <2>1 DEF Cleared, RestBlank, BlankFrom
<1> QED BY <1>1, <1>3, <1>4 DEF Redrawable, a

LEMMA RefreshedDraws ==
  ASSUME Sized, NEW s, NEW tp \in Nat, Redrawable(s, tp), NEW text \in Seq(Glyphs),
         NEW p \in 0 .. Len(text), NEW size \in Nat
  PROVE  LET h == Hint(Len(text), size)
             t == Refreshed(s, text, p, h)
         IN  /\ Drawn(t, tp, text, p, Len(h))
             /\ \A k \in Cells : k < tp * width => t.cells[k] = s.cells[k]
<1>1. CASE mlmode
  <2>1. /\ s \in Screens /\ Cleared(ClearRows(s), tp) /\ ClearRows(s).maxrows = s.maxrows
        /\ \A k \in Cells : k < tp * width => ClearRows(s).cells[k] = s.cells[k]
    BY <1>1 DEF Redrawable
  <2> DEFINE h == Hint(Len(text), size)
             t == RefreshMulti(s, text, p, h)
  <2>2. /\ Drawn(t, tp, text, p, Len(h))
        /\ \A k \in Cells : k < tp * width => t.cells[k] = ClearRows(s).cells[k]
    BY <1>1, <2>1, MultiDraws
  <2>3. t = Refreshed(s, text, p, h)
    BY <1>1 DEF Refreshed
  <2> HIDE DEF t, h
  <2>4. \A k \in Cells : k < tp * width => t.cells[k] = s.cells[k]
    BY <2>1, <2>2
  <2> QED BY <2>2, <2>3, <2>4 DEF h
<1>2. CASE ~mlmode
  <2> DEFINE h == Hint(Len(text), size)
             t == RefreshSingle(s, text, p, h)
  <2>1. RestBlank(s, tp)
    BY <1>2 DEF Redrawable
  <2>2. /\ Drawn(t, tp, text, p, Len(h))
        /\ \A k \in Cells : k < tp * width => t.cells[k] = s.cells[k]
    BY <1>2, <2>1, SingleDraws
  <2>3. t = Refreshed(s, text, p, h)
    BY <1>2 DEF Refreshed
  <2> HIDE DEF t, h
  <2> QED BY <2>2, <2>3 DEF h
<1> QED BY <1>1, <1>2

\* With no callback there is no hint.
LEMMA NoHint == ASSUME Sized, NEW n \in Nat PROVE Hint(n, 0) = << >>
<1> DEFINE h == Hint(n, 0)
<1>1. /\ h \in Seq(Glyphs) /\ Len(h) \in Nat /\ Len(h) <= 0
  BY HintOK
<1> HIDE DEF h
<1>2. Len(h) = 0
  BY <1>1
<1> QED BY <1>1, <1>2, EmptySeq DEF h

(* ------------------------------- The screen ----------------------------- *)

\* getColumns moves 999 columns to the right to find the margin.
NarrowScreens == \A w \in Columns : w <= 1000

\* Rows is what LineScreen says it is.
EnoughRows == \A w \in Columns, n \in PromptLens : FirstRow * w + n + BufLen <= Rows * w

Live == {"read", "escape", "complete"}

ScreenInv ==
  /\ Sized /\ width \in Columns /\ plen \in PromptLens
  /\ top \in {0, FirstRow}
  /\ ~hintsCallback => hint = 0
  /\ OutputKept
  /\ pc \in Live => Drawn(scr, top, Displayed, DisplayedPos, hint)

LEMMA TopOK == ASSUME top \in {0, FirstRow} PROVE top \in Nat
BY ScreenAssumption

LEMMA DrawnShows ==
  ASSUME Sized, top \in Nat, NEW text, NEW p, Drawn(scr, top, text, p, hint)
  PROVE  ScreenShows(text, p)
<1> DEFINE shown == Prompt \o LineShown(text, p) \o Marks(hint)
           base == top * width
<1>1. Shown(text, p) = shown
  BY DEF Shown, Marks, LineShown
<1>2. base \in Nat /\ width \in Nat
  BY DEF Sized
<1>3. /\ scr.row * width + scr.col = base + CursorCell(p) /\ scr.col < width
      /\ \A k \in Cells : base <= k =>
           LET j == k - base + 1
           IN  \/ scr.cells[k] = IF j <= Len(shown) THEN shown[j] ELSE " "
               \/ ~mlmode /\ j = width /\ scr.cells[k] = " "
  BY DEF Drawn
<1>4. \A k \in base .. Rows * width - 1 : k \in Cells /\ base <= k
  <2>1. Rows * width - 1 \in Int
    BY CellsOK
  <2> HIDE DEF base
  <2> QED BY <2>1, <1>2 DEF Cells
<1> HIDE DEF shown, base
<1>5. \A k \in base .. Rows * width - 1 :
        LET j == k - base + 1
        IN  \/ scr.cells[k] = IF j <= Len(shown) THEN shown[j] ELSE " "
            \/ ~mlmode /\ j = width /\ scr.cells[k] = " "
  BY <1>3, <1>4
<1> QED BY <1>1, <1>3, <1>5, Zenon DEF ScreenShows, base

\* Whether linenoise asks the system or the terminal, it learns the width.
LEMMA ColumnsFound ==
  ASSUME NEW s \in Screens, s.col = 0, width \in Nat, 1 < width, width <= 1000
  PROVE  GetColumns(s).columns = width /\ GetColumns(s).screen = s
<1> DEFINE margin == Forward(s, 999)
           start == CursorPosition(s)
           columns == CursorPosition(margin)
<1>1. start = 1
  BY DEF CursorPosition, Smaller
<1>2. margin = At(s, s.row, width - 1)
  <2>1. Smaller(0 + 999, width - 1) = width - 1
    BY DEF Smaller
  <2> QED BY <2>1 DEF Forward, At, Screens
<1>3. margin.col = width - 1
  BY <1>2 DEF At
<1> HIDE DEF margin, start
<1>4. columns = width
  BY <1>3 DEF CursorPosition, Smaller
<1> HIDE DEF columns
<1>5. Back(margin, columns - start) = s
  <2>1. Larger(width - 1 - (width - 1), 0) = 0
    BY DEF Larger
  <2>2. columns - start = width - 1
    BY <1>1, <1>4
  <2>3. Back(margin, width - 1) = [At(s, s.row, width - 1) EXCEPT !.col = 0]
    BY <1>2, <1>3, <2>1 DEF Back, At
  <2>4. [At(s, s.row, width - 1) EXCEPT !.col = 0] = At(s, s.row, 0)
    BY DEF At
  <2>5. At(s, s.row, 0) = s
    BY DEF At, Screens
  <2> QED BY <2>2, <2>3, <2>4, <2>5
<1>6. GetColumns(s) = [columns |-> columns, screen |-> Back(margin, columns - start)]
  <2>1. columns > start
    BY <1>1, <1>4
  <2> QED BY <2>1 DEF GetColumns, margin, columns, start
<1> QED BY <1>4, <1>5, <1>6

\* The prompt, on a row below which nothing is printed yet.
LEMMA PromptDrawn ==
  ASSUME Sized, NEW s \in Screens, s.col = 0, s.maxrows = 0, s.oldpos = 0,
         BlankFrom(s, s.row * width)
  PROVE  LET t == Write(s, Prompt)
         IN  /\ Drawn(t, s.row, << >>, 0, 0)
             /\ \A k \in Cells : k < s.row * width => t.cells[k] = s.cells[k]
<1> DEFINE tp == s.row
           base == tp * width
           t == Write(s, Prompt)
           none == << >>
<1>0. /\ width \in Nat /\ width > 0 /\ plen \in Nat /\ plen > 0 /\ cols = width /\ plen < width
      /\ tp \in Nat
  BY DEF Sized, Screens
<1>1. base \in Nat /\ BlankFrom(s, base)
  BY <1>0
<1> HIDE DEF base
<1>2. /\ none \in Seq(Glyphs) /\ Len(none) = 0 /\ none = Marks(0)
      /\ Prompt \in Seq(Glyphs) /\ Len(Prompt) = plen
      /\ Prompt \o none = Prompt /\ none \o Prompt = Prompt
  <2>1. none \in Seq(Glyphs) /\ Len(none) = 0 /\ none = Marks(0)
    BY EmptySeq DEF Marks
  <2> QED BY <2>1, PromptOK, ConcatEmptySeq
<1>3. Printed(s, base, none, base)
  <2>1. s.row * width + s.col = base + 0
    BY <1>1 DEF base
  <2>2. \A k \in Cells : ~(k - base < 0 /\ base <= k)
    BY <1>1, CellsOK
  <2>3. \A k \in Cells : base <= k => s.cells[k] = " "
    BY <1>1 DEF BlankFrom
  <2>4. s.col <= width /\ ~(0 > 0)
    BY <1>0
  <2> HIDE DEF none
  <2> QED BY <2>1, <2>2, <2>3, <2>4, <1>2 DEF Printed
<1>4. Printed(t, base, Prompt, base) /\ Keeps(s, t, base)
  <2> HIDE DEF none
  <2>1. Printed(t, base, none \o Prompt, base) /\ Keeps(s, t, base)
    BY <1>1, <1>2, <1>3, WriteOn
  <2> QED BY <2>1, <1>2
<1> HIDE DEF t
<1>5. t \in Screens /\ t.row = tp /\ t.col = plen
  <2>1. plen - 1 \in 0 .. width - 1
    BY <1>0
  <2>2. t.row = tp + ((Len(Prompt) - 1) \div width)
    BY <1>0, <1>2, <1>4, PrintedRow DEF base
  <2>3. (plen - 1) \div width = 0
    BY <2>1, <1>0, Within
  <2>4. t.row = tp
    BY <2>2, <2>3, <1>0, <1>2
  <2>5. t \in Screens /\ t.row * width + t.col = base + plen
    BY <1>2, <1>4 DEF Printed
  <2>6. base + t.col = base + plen
    BY <2>4, <2>5 DEF base
  <2>7. t.col \in Nat
    BY <2>5 DEF Screens
  <2>8. t.col = plen
    BY <2>6, <2>7, <1>0, <1>1
  <2> QED BY <2>4, <2>5, <2>8
<1>6. LineShown(none, 0) = none /\ CursorCell(0) = plen
  <2>1. 0 \in 0 .. Len(none) /\ plen + 0 < width /\ plen + Len(none) <= width
    BY <1>0, <1>2
  <2>2. Shift(0) = 0 /\ Window(none, 0) = none
    BY <2>1, <1>2, WindowWhole
  <2>3. plen + 0 - 0 = plen /\ plen + 0 = plen
    BY <1>0
  <2> QED BY <2>2, <2>3 DEF LineShown, CursorCell
<1>7. Prompt \o LineShown(none, 0) \o Marks(0) = Prompt
  BY <1>2, <1>6
<1>8. ASSUME NEW k \in Cells, base <= k
      PROVE  t.cells[k] = IF k - base + 1 <= Len(Prompt) THEN Prompt[k - base + 1] ELSE " "
  <2>1. k \in Nat
    BY CellsOK
  <2>2. CASE k - base < plen
    <3>1. k - base + 1 <= plen
      BY <2>1, <2>2, <1>0, <1>1
    <3> QED BY <2>2, <3>1, <1>2, <1>4, <1>8 DEF Printed
  <2>3. CASE ~(k - base < plen)
    <3>1. base + plen <= k /\ ~(k - base + 1 <= plen)
      BY <2>1, <2>3, <1>0, <1>1
    <3> QED BY <3>1, <1>2, <1>4, <1>8 DEF Printed
  <2> QED BY <2>2, <2>3
<1>9. /\ t.oldpos = 0 /\ t.maxrows = 0
      /\ \A k \in Cells : k < base => t.cells[k] = s.cells[k]
  BY <1>4 DEF Keeps
<1>10. /\ plen + Len(none) <= Larger(t.maxrows, 1) * width
       /\ plen + 0 < Larger(t.maxrows, 1) * width
  <2>1. Larger(t.maxrows, 1) = 1 /\ 1 * width = width
    BY <1>0, <1>9 DEF Larger
  <2> QED BY <2>1, <1>0, <1>2
<1>11. t.row * width + t.col = base + CursorCell(0) /\ t.col < width
  BY <1>0, <1>5, <1>6 DEF base
<1>12. Drawn(t, tp, none, 0, 0)
  <2> HIDE DEF none
  <2> QED BY <1>5, <1>7, <1>8, <1>9, <1>10, <1>11, NoMarks, Zenon DEF Drawn, base
<1> QED BY <1>9, <1>12 DEF t, base

(* The line shown, and the next one.                                        *)
LEMMA Characters == ASSUME NEW s \in Seq(Chars) PROVE s \in Seq(Glyphs)
<1>1. s \in [1 .. Len(s) -> Chars] /\ Len(s) \in Nat
  BY LenProperties
<1>2. s \in [1 .. Len(s) -> Glyphs]
  BY <1>1 DEF Glyphs
<1> QED BY <1>1, <1>2

LEMMA WholeLine ==
  ASSUME NEW b, NEW l,
         b \in [0 .. BufLen -> Chars \cup {NUL}], l \in 0 .. BufLen,
         \A k \in 0 .. l - 1 : b[k] # NUL
  PROVE  LET t == [k \in 1 .. l |-> b[k - 1]] IN t \in Seq(Chars) /\ Len(t) = l
<1>1. l \in Nat /\ l <= BufLen /\ BufLen \in Nat
  BY BufferAssumption
<1>2. \A k \in 1 .. l : b[k - 1] \in Chars
  BY <1>1
<1> QED BY <1>1, <1>2

LEMMA TextIs == BufferOK => Text \in Seq(Glyphs) /\ Len(Text) = len /\ pos \in 0 .. Len(Text)
<1> SUFFICES ASSUME BufferOK
             PROVE  Text \in Seq(Glyphs) /\ Len(Text) = len /\ pos \in 0 .. Len(Text)
  OBVIOUS
<1>1. Text \in Seq(Chars) /\ Len(Text) = len
  BY WholeLine DEF BufferOK, Text
<1> QED BY <1>1, Characters DEF BufferOK

LEMMA TextNext ==
  BufferOK' => Text' \in Seq(Glyphs) /\ Len(Text') = len' /\ pos' \in 0 .. Len(Text')
<1> SUFFICES ASSUME BufferOK'
             PROVE  Text' \in Seq(Glyphs) /\ Len(Text') = len' /\ pos' \in 0 .. Len(Text')
  OBVIOUS
<1>1. Text' \in Seq(Chars) /\ Len(Text') = len'
  BY WholeLine DEF BufferOK, Text
<1> QED BY <1>1, Characters DEF BufferOK

\* A completion is a line that fits.
LEMMA ListedOK ==
  ASSUME NEW l \in Completions, NEW k \in Nat, k < Len(l)
  PROVE  /\ l[k + 1] \in Line /\ l[k + 1] \in Seq(Glyphs)
         /\ Len(l[k + 1]) \in Nat /\ Len(l[k + 1]) < BufLen
<1>1. l \in Seq(Line) /\ Len(l) \in Nat
  BY EditAssumption
<1>2. k + 1 \in DOMAIN l
  BY <1>1
<1>3. l[k + 1] \in Line /\ Len(l[k + 1]) < BufLen
  BY <1>1, <1>2, EditAssumption
<1>4. \A line \in Line : line \in Seq(Glyphs) /\ Len(line) \in Nat
  <2> SUFFICES ASSUME NEW m \in 0 .. BufLen, NEW line \in [1 .. m -> Chars]
               PROVE  line \in Seq(Glyphs) /\ Len(line) \in Nat
    BY DEF Line
  <2>1. m \in Nat
    BY BufferAssumption
  <2>2. line \in Seq(Chars) /\ Len(line) \in Nat
    BY <2>1
  <2> QED BY <2>2, Characters
<1> QED BY <1>3, <1>4

DisplayedOK == Displayed \in Seq(Glyphs) /\ DisplayedPos \in 0 .. Len(Displayed)

LEMMA ShownLine == BufferOK /\ LoopOK => DisplayedOK
<1> SUFFICES ASSUME BufferOK, LoopOK PROVE DisplayedOK
  OBVIOUS
<1>1. CASE pc = "complete" /\ i < Len(lc)
  <2>1. i \in Nat /\ lc \in Completions
    BY <1>1, EmptySeq DEF LoopOK
  <2>2. lc[i + 1] \in Seq(Glyphs) /\ Len(lc[i + 1]) \in Nat
    BY <2>1, <1>1, ListedOK
  <2>3. Displayed = lc[i + 1] /\ DisplayedPos = Len(lc[i + 1])
    BY <1>1 DEF Displayed, DisplayedPos
  <2> QED BY <2>2, <2>3 DEF DisplayedOK
<1>2. CASE ~(pc = "complete" /\ i < Len(lc))
  <2>1. Displayed = Text /\ DisplayedPos = pos
    BY <1>2 DEF Displayed, DisplayedPos
  <2> QED BY <2>1, TextIs DEF DisplayedOK
<1> QED BY <1>1, <1>2

LEMMA ShownLineNext == BufferOK' /\ LoopOK' => DisplayedOK'
<1> SUFFICES ASSUME BufferOK', LoopOK' PROVE DisplayedOK'
  OBVIOUS
<1>1. CASE pc' = "complete" /\ i' < Len(lc')
  <2>1. i' \in Nat /\ lc' \in Completions
    BY <1>1, EmptySeq DEF LoopOK
  <2>2. lc'[i' + 1] \in Seq(Glyphs) /\ Len(lc'[i' + 1]) \in Nat
    BY <2>1, <1>1, ListedOK
  <2>3. Displayed' = lc'[i' + 1] /\ DisplayedPos' = Len(lc'[i' + 1])
    BY <1>1 DEF Displayed, DisplayedPos
  <2> QED BY <2>2, <2>3 DEF DisplayedOK
<1>2. CASE ~(pc' = "complete" /\ i' < Len(lc'))
  <2>1. Displayed' = Text' /\ DisplayedPos' = pos'
    BY <1>2 DEF Displayed, DisplayedPos
  <2> QED BY <2>1, TextNext DEF DisplayedOK
<1> QED BY <1>1, <1>2

\* Typing at the end of the line.
LEMMA TypedText ==
  ASSUME BufferOK, NEW c \in Chars, Insert(c), pos = len
  PROVE  Text' = Text \o <<c>> /\ pos' = len + 1 /\ len' = len + 1
<1>1. /\ BufferOK' /\ pos' = len + 1 /\ len' = len + 1
      /\ \A k \in 0 .. len : buf'[k] = IF k < pos THEN buf[k]
                                      ELSE IF k = pos THEN c ELSE buf[k - 1]
  BY InsertCells DEF Insert
<1>2. /\ Text \in Seq(Glyphs) /\ Len(Text) = len /\ len \in Nat
      /\ Text' \in Seq(Glyphs) /\ Len(Text') = len + 1
  BY <1>1, TextIs, TextNext, LenProperties
<1>3. <<c>> \in Seq(Glyphs) /\ Len(<<c>>) = 1 /\ <<c>>[1] = c
  <2>1. <<c>> \in Seq(Chars) /\ Len(<<c>>) = 1 /\ <<c>>[1] = c
    OBVIOUS
  <2> QED BY <2>1, Characters
<1> DEFINE t == Text \o <<c>>
<1>4. /\ t \in Seq(Glyphs) /\ Len(t) = len + 1
      /\ \A k \in 1 .. len + 1 : t[k] = IF k <= len THEN Text[k] ELSE <<c>>[k - len]
  BY <1>2, <1>3, ConcatProperties
<1> HIDE DEF t
<1>5. ASSUME NEW k \in 1 .. len + 1 PROVE Text'[k] = t[k]
  <2>1. k - 1 \in 0 .. len /\ Text'[k] = buf'[k - 1]
    BY <1>1, <1>2 DEF Text
  <2>2. CASE k <= len
    <3>1. k \in 1 .. len /\ k - 1 < pos
      BY <2>2, <1>2
    <3>2. Text[k] = buf[k - 1]
      BY <3>1 DEF Text
    <3> QED BY <2>1, <2>2, <3>1, <3>2, <1>1, <1>4
  <2>3. CASE k = len + 1
    <3>1. k - 1 = pos /\ ~(k - 1 < pos) /\ ~(k <= len) /\ k - len = 1
      BY <2>3, <1>2
    <3> QED BY <2>1, <3>1, <1>1, <1>3, <1>4
  <2> QED BY <2>2, <2>3, <1>2
<1>6. Text' = t
  BY <1>2, <1>4, <1>5, SeqEqual
<1> QED BY <1>1, <1>6 DEF t

\* Accepting a completion copies it.
LEMMA AcceptedText ==
  ASSUME BufferOK, NEW line \in Line, line \in Seq(Glyphs), Len(line) < BufLen, Complete(line)
  PROVE  Text' = line /\ pos' = Len(line)
<1>1. /\ Len(line) \in Nat /\ BufLen \in Nat /\ BufferOK'
  BY BufferAssumption, CompleteOK, LenProperties
<1>2. /\ pos' = Len(line) /\ len' = Len(line)
      /\ buf' = [k \in 0 .. BufLen |-> IF k < Len(line) THEN line[k + 1]
                                       ELSE IF k = Len(line) THEN NUL ELSE buf[k]]
  BY DEF Complete
<1>3. Text' \in Seq(Glyphs) /\ Len(Text') = Len(line)
  BY <1>1, <1>2, TextNext
<1>4. ASSUME NEW k \in 1 .. Len(line) PROVE Text'[k] = line[k]
  <2>1. k - 1 \in 0 .. BufLen /\ k - 1 < Len(line) /\ k - 1 + 1 = k
    BY <1>1
  <2>2. Text'[k] = buf'[k - 1]
    BY <1>2 DEF Text
  <2>3. buf'[k - 1] = line[k - 1 + 1]
    BY <2>1, <1>2
  <2> QED BY <2>1, <2>2, <2>3
<1>5. Text' = line
  BY <1>3, <1>4, SeqEqual
<1> QED BY <1>2, <1>5

(* What a step does to the screen.                                          *)

\* linenoiseEditInsert in the trivial case.
Typed(c) ==
  /\ Insert(c) /\ Trivial
  /\ scr' = Write(scr, <<c>>) /\ UNCHANGED <<top, hint>>
  /\ pc = "read" /\ pc' = "read"

\* The screen stays, and so does what it has to show.
Same == /\ UNCHANGED screenVars
        /\ pc' \in Live => /\ pc \in Live
                           /\ Displayed' = Displayed /\ DisplayedPos' = DisplayedPos

ScreenStep ==
  /\ UNCHANGED modeVars
  /\ \/ pc \in Live /\ Refresh(scr, Displayed', DisplayedPos') /\ UNCHANGED top
     \/ pc \in Live /\ ClearScreen(Displayed', DisplayedPos')
     \/ Same
     \/ \E c \in Chars : Typed(c)
     \/ Enter

LEMMA CommandScreen == ASSUME NEW name, Command(name) PROVE Redraw \/ Nothing \/ ClearKey
BY DEF Command, MoveLeftKey, MoveRightKey, MoveHomeKey, MoveEndKey, DeleteKey,
       BackspaceKey, TransposeKey, HistoryKey

LEMMA Shows ==
  ASSUME pc # "complete" PROVE Displayed = Text /\ DisplayedPos = pos
BY DEF Displayed, DisplayedPos

LEMMA ShowsNext ==
  ASSUME pc' # "complete" PROVE Displayed' = Text' /\ DisplayedPos' = pos'
BY DEF Displayed, DisplayedPos

\* A command is one refresh or none.
LEMMA KeyScreen ==
  ASSUME pc \in {"read", "escape"}, pc' \in {"read", "escape"}, UNCHANGED modeVars,
         Redraw \/ Nothing \/ ClearKey
  PROVE  ScreenStep
<1>1. pc \in Live /\ pc # "complete" /\ pc' # "complete"
  BY DEF Live
<1>2. /\ Displayed = Text /\ DisplayedPos = pos
      /\ Displayed' = Text' /\ DisplayedPos' = pos'
  BY <1>1, Shows, ShowsNext
<1>3. UNCHANGED bufVars => Text' = Text /\ pos' = pos
  BY DEF bufVars, Text
<1>4. CASE Redraw
  <2>1. Refresh(scr, Text', pos') /\ UNCHANGED top
    BY <1>4 DEF Redraw
  <2> QED BY <2>1, <1>1, <1>2 DEF ScreenStep
<1>5. CASE Nothing
  <2>1. UNCHANGED screenVars /\ UNCHANGED bufVars
    BY <1>5 DEF Nothing
  <2>2. Same
    BY <2>1, <1>1, <1>2, <1>3 DEF Same
  <2> QED BY <2>2 DEF ScreenStep
<1>6. CASE ClearKey
  <2>1. ClearScreen(Text, pos) /\ UNCHANGED bufVars
    BY <1>6 DEF ClearKey
  <2>2. ClearScreen(Displayed', DisplayedPos')
    BY <2>1, <1>2, <1>3
  <2> QED BY <2>2, <1>1 DEF ScreenStep
<1> QED BY <1>4, <1>5, <1>6

LEMMA EndScreen ==
  ASSUME UNCHANGED modeVars, pc' \notin Live, UNCHANGED screenVars PROVE ScreenStep
BY DEF ScreenStep, Same

LEMMA NextScreen == ASSUME BufferOK, LoopOK, Next PROVE ScreenStep
<1>1. ASSUME NEW c \in DOMAIN ControlKeys, Control(c) PROVE ScreenStep
  <2>1. pc = "read" /\ pc' = "read" /\ UNCHANGED modeVars /\ Command(ControlKeys[c])
    BY <1>1 DEF Control, Gets, LoopTo
  <2> QED BY <2>1, CommandScreen, KeyScreen
<1>2. ASSUME NEW c \in Chars, Type(c) PROVE ScreenStep
  <2>1. pc = "read" /\ pc' = "read" /\ UNCHANGED modeVars /\ InsertKey(c)
    BY <1>2 DEF Type, Gets, LoopTo
  <2>2. CASE Redraw \/ Nothing
    BY <2>1, <2>2, KeyScreen
  <2>3. CASE Insert(c) /\ Trivial /\ scr' = Write(scr, <<c>>) /\ UNCHANGED <<top, hint>>
    BY <2>1, <2>3 DEF ScreenStep, Typed
  <2> QED BY <2>1, <2>2, <2>3 DEF InsertKey
<1>3. ASSUME CtrlD PROVE ScreenStep
  <2>1. pc = "read" /\ UNCHANGED modeVars
        /\ ((pc' = "read" /\ Command("delete")) \/ (pc' = "ended" /\ Nothing))
    BY <1>3 DEF CtrlD, Gets, LoopTo
  <2>2. CASE pc' = "read" /\ Command("delete")
    BY <2>1, <2>2, CommandScreen, KeyScreen
  <2>3. CASE pc' = "ended" /\ Nothing
    BY <2>1, <2>3, EndScreen DEF Nothing, Live
  <2> QED BY <2>1, <2>2, <2>3
<1>4. ASSUME Enter PROVE ScreenStep
  BY <1>4 DEF ScreenStep, Enter, LoopTo
<1>5. ASSUME Stop PROVE ScreenStep
  BY <1>5, EndScreen DEF Stop, LoopTo, Nothing, Live
<1>6. ASSUME Escape \/ EscapeFails PROVE ScreenStep
  <2>1. /\ pc \in {"read", "escape"} /\ pc' \in {"read", "escape"} /\ UNCHANGED modeVars
        /\ Nothing
    BY <1>6 DEF Escape, EscapeFails, Gets, LoopTo
  <2> QED BY <2>1, KeyScreen
<1>7. ASSUME NEW b \in EscBytes, EscapeFirst(b) \/ EscapeSecond(b) \/ EscapeThird(b)
      PROVE  ScreenStep
  <2>1. pc = "escape" /\ pc' \in {"read", "escape"} /\ UNCHANGED modeVars
    BY <1>7 DEF EscapeFirst, EscapeSecond, EscapeThird, LoopTo
  <2>2. Nothing \/ \E name : Command(name)
    BY <1>7 DEF EscapeFirst, EscapeSecond, EscapeThird
  <2> QED BY <2>1, <2>2, CommandScreen, KeyScreen
<1>8. ASSUME Tab PROVE ScreenStep
  <2>1. pc = "read" /\ UNCHANGED modeVars
        /\ ((pc' = "read" /\ Nothing) \/ (pc' = "complete" /\ ShowCompletion))
    BY <1>8 DEF Tab, ShowCompletion
  <2>2. CASE pc' = "read" /\ Nothing
    BY <2>1, <2>2, KeyScreen
  <2>3. CASE ShowCompletion
    BY <2>1, <2>3 DEF ShowCompletion, ScreenStep, Live
  <2> QED BY <2>1, <2>2, <2>3
<1>9. ASSUME NextCompletion PROVE ScreenStep
  <2>1. pc = "complete" /\ ShowCompletion
    BY <1>9 DEF NextCompletion
  <2> QED BY <2>1 DEF ShowCompletion, ScreenStep, Live
<1>10. ASSUME LeaveCompletion PROVE ScreenStep
  <2>1. /\ pc = "complete" /\ pc' = "read" /\ UNCHANGED modeVars /\ UNCHANGED bufVars
        /\ \/ i < Len(lc) /\ Refresh(scr, Text, pos) /\ UNCHANGED top
           \/ ~(i < Len(lc)) /\ UNCHANGED screenVars
    BY <1>10 DEF LeaveCompletion
  <2>2. Text' = Text /\ pos' = pos
    BY <2>1 DEF bufVars, Text
  <2>3. Displayed' = Text /\ DisplayedPos' = pos
    BY <2>1, <2>2, ShowsNext
  <2>4. CASE i < Len(lc)
    BY <2>1, <2>3, <2>4 DEF ScreenStep, Live
  <2>5. CASE ~(i < Len(lc))
    <3>1. Displayed = Text /\ DisplayedPos = pos
      BY <2>5 DEF Displayed, DisplayedPos
    <3> QED BY <2>1, <2>3, <2>5, <3>1 DEF ScreenStep, Same, Live
  <2> QED BY <2>4, <2>5
<1>11. ASSUME NEW c, AcceptCompletion(c) PROVE ScreenStep
  <2>1. /\ pc = "complete" /\ pc' = "read" /\ UNCHANGED modeVars /\ UNCHANGED screenVars
        /\ \/ i < Len(lc) /\ Complete(lc[i + 1])
           \/ ~(i < Len(lc)) /\ UNCHANGED bufVars
    BY <1>11 DEF AcceptCompletion
  <2>2. Displayed' = Text' /\ DisplayedPos' = pos'
    BY <2>1, ShowsNext
  <2>3. CASE i < Len(lc)
    <3>1. i \in Nat /\ lc \in Completions
      BY <2>3, EmptySeq DEF LoopOK
    <3>2. /\ lc[i + 1] \in Line /\ lc[i + 1] \in Seq(Glyphs) /\ Len(lc[i + 1]) < BufLen
      BY <3>1, <2>3, ListedOK
    <3>3. Text' = lc[i + 1] /\ pos' = Len(lc[i + 1])
      BY <3>2, <2>1, <2>3, AcceptedText
    <3>4. Displayed = lc[i + 1] /\ DisplayedPos = Len(lc[i + 1])
      BY <2>1, <2>3 DEF Displayed, DisplayedPos
    <3> QED BY <2>1, <2>2, <3>3, <3>4 DEF ScreenStep, Same, Live
  <2>4. CASE ~(i < Len(lc))
    <3>1. Displayed = Text /\ DisplayedPos = pos
      BY <2>4 DEF Displayed, DisplayedPos
    <3>2. Text' = Text /\ pos' = pos
      BY <2>1, <2>4 DEF bufVars, Text
    <3> QED BY <2>1, <2>2, <3>1, <3>2 DEF ScreenStep, Same, Live
  <2> QED BY <2>3, <2>4
<1>12. ASSUME CompletionFails PROVE ScreenStep
  BY <1>12, EndScreen DEF CompletionFails, Live
<1> QED
  BY <1>1, <1>2, <1>3, <1>4, <1>5, <1>6, <1>7, <1>8, <1>9, <1>10, <1>11, <1>12 DEF Next

LEMMA SizedNext == ASSUME Sized, UNCHANGED modeVars PROVE Sized'
BY DEF Sized, modeVars

LEMMA DrawnNext ==
  ASSUME UNCHANGED modeVars, Drawn(scr', top', Displayed', DisplayedPos', hint')
  PROVE  Drawn(scr, top, Displayed, DisplayedPos, hint)'
<1>1. /\ width' = width /\ plen' = plen /\ cols' = cols /\ mlmode' = mlmode
  BY DEF modeVars
<1>2. Prompt' = Prompt
  BY <1>1 DEF Prompt
<1>3. Marks(hint)' = Marks(hint')
  BY DEF Marks
<1>4. Window(Displayed, DisplayedPos)' = Window(Displayed', DisplayedPos')
  BY <1>1 DEF Window, Shift, Smaller
<1>5. LineShown(Displayed, DisplayedPos)' = LineShown(Displayed', DisplayedPos')
  BY <1>1, <1>4 DEF LineShown
<1>6. CursorCell(DisplayedPos)' = CursorCell(DisplayedPos')
  BY <1>1 DEF CursorCell, Shift
<1>7. Cells' = Cells
  BY <1>1 DEF Cells
<1>8. Screens' = Screens
  BY <1>7 DEF Screens
<1> QED BY <1>1, <1>2, <1>3, <1>5, <1>6, <1>7, <1>8 DEF Drawn, Larger

\* What refreshLine does, over a screen it can draw over.
LEMMA RefreshKeeps ==
  ASSUME Sized, NEW s, NEW tp \in Nat, Redrawable(s, tp), NEW text \in Seq(Glyphs),
         NEW p \in 0 .. Len(text), Refresh(s, text, p)
  PROVE  /\ Drawn(scr', tp, text, p, hint')
         /\ \A k \in Cells : k < tp * width => scr'.cells[k] = s.cells[k]
         /\ ~hintsCallback => hint' = 0
<1>1. PICK size \in IF hintsCallback THEN HintLens ELSE {0} :
        /\ scr' = Refreshed(s, text, p, Hint(Len(text), size))
        /\ hint' = Len(Hint(Len(text), size))
  BY DEF Refresh
<1>2. size \in Nat /\ (~hintsCallback => size = 0)
  BY ScreenAssumption
<1> DEFINE h == Hint(Len(text), size)
           t == Refreshed(s, text, p, h)
<1>3. /\ Drawn(t, tp, text, p, Len(h))
      /\ \A k \in Cells : k < tp * width => t.cells[k] = s.cells[k]
  BY <1>2, RefreshedDraws
<1>4. ~hintsCallback => Len(h) = 0
  <2>1. Len(text) \in Nat /\ Len(<< >>) = 0
    BY LenProperties
  <2> QED BY <2>1, <1>2, NoHint
<1> HIDE DEF h, t
<1>5. scr' = t /\ hint' = Len(h)
  BY <1>1 DEF t, h
<1> QED BY <1>3, <1>4, <1>5

LEMMA KeptNext ==
  ASSUME OutputKept, UNCHANGED modeVars, top' = top,
         \A k \in Cells : k < top * width => scr'.cells[k] = scr.cells[k]
  PROVE  OutputKept'
<1>1. width' = width
  BY DEF modeVars
<1> QED BY <1>1 DEF OutputKept, Cells

LEMMA KeptFromTop == ASSUME Sized, UNCHANGED modeVars, top' = 0 PROVE OutputKept'
<1>1. width' = width /\ width \in Nat /\ Rows * width - 1 \in Int
  BY CellsOK DEF modeVars, Sized
<1>2. 0 * width = 0
  BY <1>1
<1>3. \A k \in 0 .. Rows * width - 1 : ~(k < 0)
  BY <1>1
<1> QED BY <1>1, <1>2, <1>3 DEF OutputKept

\* Before the cursor leaves the line it is drawn once more, without its hint.
LEMMA EnterDraws ==
  ASSUME ScreenInv, BufferOK, LoopOK, Enter
  PROVE  \E b : /\ Drawn(b, top, Text, IF mlmode THEN len ELSE pos, 0)
                /\ scr' = Return(LineFeed(b))
                /\ \A k \in Cells : k < top * width => b.cells[k] = scr.cells[k]
<1> DEFINE atEnd == IF mlmode THEN len ELSE pos
           h(size) == Hint(len, size)
           moved(size) == IF atEnd = pos THEN scr ELSE Refreshed(scr, Text, atEnd, h(size))
           bare(size) == IF hintsCallback THEN Refreshed(moved(size), Text, atEnd, << >>)
                         ELSE moved(size)
<1>1. PICK size \in IF hintsCallback THEN HintLens ELSE {0} :
        scr' = Return(LineFeed(bare(size))) /\ pc = "read"
  BY DEF Enter, Gets
<1>2. size \in Nat /\ (~hintsCallback => size = 0)
  BY ScreenAssumption
<1>3. /\ Sized /\ top \in Nat /\ (~hintsCallback => hint = 0)
      /\ Text \in Seq(Glyphs) /\ Len(Text) = len /\ pos \in 0 .. Len(Text)
      /\ len \in Nat /\ atEnd \in 0 .. Len(Text)
  <2>1. Text \in Seq(Glyphs) /\ Len(Text) = len /\ pos \in 0 .. Len(Text)
    BY TextIs
  <2>2. len \in Nat
    BY <2>1, LenProperties
  <2>3. len \in 0 .. len
    BY <2>2
  <2> QED BY <2>1, <2>2, <2>3, TopOK DEF ScreenInv
<1>4. Drawn(scr, top, Text, pos, hint)
  <2>1. pc \in Live /\ Displayed = Text /\ DisplayedPos = pos
    BY <1>1, Shows DEF Live
  <2> QED BY <2>1 DEF ScreenInv
<1> DEFINE m == moved(size)
           n == IF atEnd = pos THEN hint ELSE Len(h(size))
           b == bare(size)
<1> HIDE DEF atEnd
<1>5. /\ Drawn(m, top, Text, atEnd, n)
      /\ \A k \in Cells : k < top * width => m.cells[k] = scr.cells[k]
  <2>1. CASE atEnd = pos
    BY <2>1, <1>4
  <2>2. CASE atEnd # pos
    <3>1. Redrawable(scr, top)
      BY <1>3, <1>4, DrawnRedrawable
    <3> DEFINE t == Refreshed(scr, Text, atEnd, Hint(Len(Text), size))
    <3>2. /\ Drawn(t, top, Text, atEnd, Len(Hint(Len(Text), size)))
          /\ \A k \in Cells : k < top * width => t.cells[k] = scr.cells[k]
      <4>1. Sized /\ top \in Nat /\ Text \in Seq(Glyphs) /\ atEnd \in 0 .. Len(Text)
        BY <1>3
      <4> QED BY <4>1, <3>1, <1>2, RefreshedDraws
    <3>3. m = t /\ n = Len(Hint(Len(Text), size))
      BY <2>2, <1>3
    <3> HIDE DEF m, n, t
    <3> QED BY <3>2, <3>3
  <2> QED BY <2>1, <2>2
<1>6. ~hintsCallback => n = 0
  <2>1. CASE atEnd = pos
    BY <2>1, <1>3
  <2>2. CASE atEnd # pos
    <3>1. ~hintsCallback => h(size) = << >>
      BY <1>2, <1>3, NoHint
    <3> QED BY <2>2, <3>1
  <2> QED BY <2>1, <2>2
<1>7. b = IF hintsCallback THEN Refreshed(m, Text, atEnd, << >>) ELSE m
  OBVIOUS
<1>8. scr' = Return(LineFeed(b))
  BY <1>1
<1> HIDE DEF m, n, b
<1>9. /\ Drawn(b, top, Text, atEnd, 0)
      /\ \A k \in Cells : k < top * width => b.cells[k] = scr.cells[k]
  <2>1. CASE hintsCallback
    <3>1. Redrawable(m, top)
      BY <1>3, <1>5, DrawnRedrawable
    <3> DEFINE g == Hint(Len(Text), 0)
               t == Refreshed(m, Text, atEnd, g)
    <3>2. /\ Drawn(t, top, Text, atEnd, Len(g))
          /\ \A k \in Cells : k < top * width => t.cells[k] = m.cells[k]
      <4>1. /\ Sized /\ top \in Nat /\ 0 \in Nat
            /\ Text \in Seq(Glyphs) /\ atEnd \in 0 .. Len(Text)
        BY <1>3
      <4> QED BY <4>1, <3>1, RefreshedDraws
    <3>3. g = << >> /\ Len(g) = 0
      BY <1>3, NoHint
    <3>4. b = t
      BY <2>1, <3>3, <1>7
    <3> HIDE DEF t, g
    <3> QED BY <3>2, <3>3, <3>4, <1>5
  <2>2. CASE ~hintsCallback
    BY <2>2, <1>5, <1>6, <1>7
  <2> QED BY <2>1, <2>2
<1> QED BY <1>8, <1>9 DEF atEnd

LEMMA ScreenStepOK ==
  ASSUME ScreenInv, BufferOK, LoopOK, BufferOK', LoopOK', ScreenStep PROVE ScreenInv'
<1>1. /\ Sized /\ top \in Nat /\ UNCHANGED modeVars /\ OutputKept
      /\ (~hintsCallback => hint = 0) /\ top \in {0, FirstRow}
      /\ pc \in Live => Drawn(scr, top, Displayed, DisplayedPos, hint)
  BY TopOK DEF ScreenInv, ScreenStep
<1>2. /\ Sized' /\ width' \in Columns /\ plen' \in PromptLens /\ hintsCallback' = hintsCallback
  BY <1>1, SizedNext DEF ScreenInv, modeVars
<1>3. /\ Displayed \in Seq(Glyphs) /\ DisplayedPos \in 0 .. Len(Displayed)
      /\ Displayed' \in Seq(Glyphs) /\ DisplayedPos' \in 0 .. Len(Displayed')
  BY ShownLine, ShownLineNext DEF DisplayedOK
<1>4. ASSUME top' \in {0, FirstRow}, ~hintsCallback => hint' = 0, OutputKept',
             pc' \in Live => Drawn(scr', top', Displayed', DisplayedPos', hint')
      PROVE  ScreenInv'
  <2>1. pc' \in Live => Drawn(scr, top, Displayed, DisplayedPos, hint)'
    BY <1>1, <1>4, DrawnNext
  <2> QED BY <2>1, <1>2, <1>4 DEF ScreenInv, Live
<1>5. CASE pc \in Live /\ Refresh(scr, Displayed', DisplayedPos') /\ UNCHANGED top
  <2>1. Redrawable(scr, top)
    BY <1>1, <1>3, <1>5, DrawnRedrawable
  <2>2. /\ Drawn(scr', top, Displayed', DisplayedPos', hint')
        /\ \A k \in Cells : k < top * width => scr'.cells[k] = scr.cells[k]
        /\ ~hintsCallback => hint' = 0
    BY <2>1, <1>1, <1>3, <1>5, RefreshKeeps
  <2>3. OutputKept'
    BY <2>2, <1>1, <1>5, KeptNext
  <2> QED BY <2>2, <2>3, <1>1, <1>4, <1>5
<1>6. CASE pc \in Live /\ ClearScreen(Displayed', DisplayedPos')
  <2>1. scr \in Screens
    BY <1>1, <1>6 DEF Drawn
  <2>2. Redrawable(ClearAll(scr), 0)
    BY <2>1, <1>1, ClearedRedrawable
  <2>3. top' = 0 /\ Refresh(ClearAll(scr), Displayed', DisplayedPos')
    BY <1>6 DEF ClearScreen
  <2>4. /\ Drawn(scr', 0, Displayed', DisplayedPos', hint')
        /\ ~hintsCallback => hint' = 0
    BY <2>2, <2>3, <1>1, <1>3, RefreshKeeps
  <2>5. OutputKept'
    BY <2>3, <1>1, KeptFromTop
  <2> QED BY <2>3, <2>4, <2>5, <1>4
<1>7. CASE Same
  <2>1. scr' = scr /\ top' = top /\ hint' = hint
    BY <1>7 DEF Same, screenVars
  <2>2. OutputKept'
    BY <2>1, <1>1, KeptNext
  <2>3. pc' \in Live => Drawn(scr', top', Displayed', DisplayedPos', hint')
    BY <2>1, <1>1, <1>7 DEF Same
  <2> QED BY <2>1, <2>2, <2>3, <1>1, <1>4
<1>8. ASSUME NEW c \in Chars, Typed(c) PROVE ScreenInv'
  <2>1. /\ Insert(c) /\ pos = len /\ ~mlmode /\ plen + len + 1 < cols /\ ~hintsCallback
        /\ scr' = Write(scr, <<c>>) /\ top' = top /\ hint' = hint
        /\ pc = "read" /\ pc' = "read"
    BY <1>8 DEF Typed, Trivial
  <2>2. /\ Text' = Text \o <<c>> /\ pos' = len + 1
        /\ Text \in Seq(Glyphs) /\ Len(Text) = len
    BY <2>1, TypedText, TextIs
  <2>3. /\ Displayed = Text /\ DisplayedPos = pos
        /\ Displayed' = Text' /\ DisplayedPos' = pos'
    BY <2>1, Shows, ShowsNext
  <2>4. Drawn(scr, top, Text, Len(Text), 0)
    BY <2>1, <2>2, <2>3, <1>1 DEF Live
  <2>5. c \in Glyphs /\ plen + Len(Text) + 1 < cols
    BY <2>1, <2>2 DEF Glyphs
  <2>6. /\ Drawn(scr', top, Text \o <<c>>, Len(Text) + 1, 0)
        /\ \A k \in Cells : k < top * width => scr'.cells[k] = scr.cells[k]
    BY <2>1, <2>2, <2>4, <2>5, <1>1, TrivialDraws
  <2>7. hint' = 0
    BY <2>1, <1>1
  <2>8. Drawn(scr', top', Displayed', DisplayedPos', hint')
    BY <2>1, <2>2, <2>3, <2>6, <2>7
  <2>9. OutputKept'
    BY <2>1, <2>6, <1>1, KeptNext
  <2> QED BY <2>1, <2>7, <2>8, <2>9, <1>1, <1>4
<1>9. CASE Enter
  <2>1. pc' = "entered" /\ hint' = 0 /\ top' = top
    BY <1>9 DEF Enter, LoopTo
  <2>2. PICK b : /\ Drawn(b, top, Text, IF mlmode THEN len ELSE pos, 0)
                 /\ scr' = Return(LineFeed(b))
                 /\ \A k \in Cells : k < top * width => b.cells[k] = scr.cells[k]
    BY <1>9, EnterDraws
  <2>3. scr'.cells = b.cells
    <3>1. b \in Screens
      BY <2>2 DEF Drawn
    <3>2. LineFeed(b) \in Screens /\ LineFeed(b).cells = b.cells
      BY <3>1, <1>1, ScreenOps DEF Moves
    <3>3. Return(LineFeed(b)).cells = LineFeed(b).cells
      BY <3>2, <1>1, ScreenOps DEF Moves
    <3> QED BY <3>2, <3>3, <2>2
  <2>4. OutputKept'
    BY <2>1, <2>2, <2>3, <1>1, KeptNext
  <2> QED BY <2>1, <2>4, <1>1, <1>4 DEF Live
<1> QED BY <1>5, <1>6, <1>7, <1>8, <1>9 DEF ScreenStep

\* The characters that stand for a hint are not those of a line.
HintsDiffer == "h" \notin Chars

LEMMA InitScreen == ASSUME NarrowScreens, Init PROVE ScreenInv
<1>1. /\ width \in Columns /\ plen \in PromptLens /\ mlmode \in BOOLEAN
      /\ top = FirstRow /\ hint = 0 /\ ScreenInit /\ pc = "read" /\ len = 0 /\ pos = 0
  BY DEF Init, ScreenInit, BufInit
<1>2. /\ width \in Nat /\ plen \in Nat /\ 0 < plen /\ plen < width /\ 1 < width /\ width <= 1000
      /\ FirstRow \in Nat
  <2>1. plen \in Nat \ {0} /\ width \in Nat /\ plen < width /\ FirstRow \in Nat
    BY <1>1, ScreenAssumption
  <2>2. width <= 1000
    BY <1>1 DEF NarrowScreens
  <2> QED BY <2>1, <2>2
<1> DEFINE new == [k \in Cells |-> IF k < FirstRow * width THEN "o" ELSE " "]
           s == [cells |-> new, row |-> FirstRow, col |-> 0, maxrows |-> 0, oldpos |-> 0]
           base == FirstRow * width
<1>3. \/ cols = width /\ scr = Write(s, Prompt)
      \/ cols = GetColumns(s).columns /\ scr = Write(GetColumns(s).screen, Prompt)
  BY <1>1 DEF ScreenInit, Cells
<1>4. base \in Nat /\ Rows * width - 1 \in Int
  <2>1. Rows \in Nat
    BY ScreenAssumption
  <2> QED BY <2>1, <1>2
<1> HIDE DEF base
<1>5. /\ new \in [Cells -> Glyphs]
      /\ \A k \in Cells : /\ k < base => new[k] = "o"
                          /\ base <= k => new[k] = " "
  <2>1. new \in [Cells -> Glyphs]
    BY DEF Glyphs
  <2>2. Cells \subseteq Int
    BY <1>4 DEF Cells
  <2>3. \A k \in Cells : base <= k => ~(k < base)
    BY <2>2, <1>4
  <2> QED BY <2>1, <2>3 DEF base
<1> HIDE DEF new
<1>6. /\ s \in Screens /\ s.row = FirstRow /\ s.col = 0 /\ s.maxrows = 0 /\ s.oldpos = 0
      /\ s.cells = new
  BY <1>2, <1>5 DEF Screens
<1> HIDE DEF s
<1>7. cols = width /\ scr = Write(s, Prompt)
  BY <1>2, <1>3, <1>6, ColumnsFound
<1>8. Sized
  BY <1>1, <1>2, <1>7 DEF Sized
<1>9. BlankFrom(s, base)
  BY <1>5, <1>6 DEF BlankFrom
<1>10. /\ Drawn(scr, FirstRow, << >>, 0, 0)
       /\ \A k \in Cells : k < base => scr.cells[k] = s.cells[k]
  BY <1>6, <1>7, <1>8, <1>9, PromptDrawn DEF base
<1>11. Displayed = << >> /\ DisplayedPos = 0
  <2>1. Text = << >>
    BY <1>1 DEF Text
  <2> QED BY <2>1, <1>1, Shows
<1>12. OutputKept
  BY <1>1, <1>5, <1>6, <1>10 DEF OutputKept, Cells, base
<1> QED BY <1>1, <1>8, <1>10, <1>11, <1>12 DEF ScreenInv

LEMMA AlwaysScreen == ASSUME NarrowScreens PROVE Spec => [](ScreenInv /\ BufferOK /\ LoopOK)
<1> DEFINE Inv == ScreenInv /\ BufferOK /\ LoopOK
<1>1. Init => Inv
  BY InitScreen, InitOK
<1>2. Inv /\ [Next]_vars => Inv'
  <2> SUFFICES ASSUME ScreenInv, BufferOK, LoopOK, [Next]_vars PROVE Inv'
    OBVIOUS
  <2>1. BufferOK' /\ LoopOK'
    <3>1. UNCHANGED vars => Operation
      BY DEF vars, Operation
    <3>2. Operation
      BY <3>1, NextOperation
    <3> QED BY <3>2, OperationOK, LoopStep
  <2>2. UNCHANGED vars => ScreenStep
    <3> SUFFICES ASSUME UNCHANGED vars PROVE ScreenStep
      OBVIOUS
    <3>1. /\ UNCHANGED modeVars /\ UNCHANGED screenVars /\ UNCHANGED <<pc, lc, i, buf, len, pos>>
      BY DEF vars, loopVars, bufVars
    <3>2. Displayed' = Displayed /\ DisplayedPos' = DisplayedPos
      BY <3>1 DEF Displayed, DisplayedPos, Text
    <3> QED BY <3>1, <3>2 DEF ScreenStep, Same
  <2>3. ScreenStep
    BY <2>2, NextScreen
  <2> QED BY <2>1, <2>3, ScreenStepOK
<1> QED BY <1>1, <1>2, PTL DEF Spec

\* After every key, for every mode, width and length of line, the screen shows the
\* line or the completion offered, with the cursor in it and nothing of what was
\* there before: refreshLine, the trivial case of linenoiseEditInsert, Ctrl-L and
\* completeLine leave the terminal and linenoiseState in step.
THEOREM ScreenIsRight == ASSUME NarrowScreens PROVE Spec => []ScreenOK
<1>1. ScreenInv => ScreenOK
  <2> SUFFICES ASSUME ScreenInv, pc \in {"read", "escape", "complete"}
               PROVE  ScreenShows(Displayed, DisplayedPos)
    BY DEF ScreenOK
  <2>1. Sized /\ top \in Nat /\ Drawn(scr, top, Displayed, DisplayedPos, hint)
    BY TopOK DEF ScreenInv, Live
  <2> QED BY <2>1, DrawnShows
<1> QED BY <1>1, AlwaysScreen, PTL

\* However many rows the line takes and has taken, refreshMultiLine goes up no
\* further than the prompt: what the program had printed above it stays.
THEOREM OutputIsKept == ASSUME NarrowScreens PROVE Spec => []OutputKept
<1>1. ScreenInv => OutputKept
  BY DEF ScreenInv
<1> QED BY <1>1, AlwaysScreen, PTL

\* What Enter leaves on the screen.
LEMMA EnterLeaves ==
  ASSUME EnoughRows, HintsDiffer, ScreenInv, BufferOK, LoopOK, Enter
  PROVE  EnteredLineStays'
<1>1. PICK b : /\ Drawn(b, top, Text, IF mlmode THEN len ELSE pos, 0)
               /\ scr' = Return(LineFeed(b))
               /\ \A k \in Cells : k < top * width => b.cells[k] = scr.cells[k]
  BY EnterDraws
<1> DEFINE p == IF mlmode THEN len ELSE pos
           shown == Prompt \o LineShown(Text, p) \o Marks(0)
           base == top * width
<1>2. /\ Sized /\ top \in Nat /\ top \in {0, FirstRow} /\ OutputKept
      /\ width \in Columns /\ plen \in PromptLens
  BY TopOK DEF ScreenInv
<1>3. /\ width \in Nat /\ plen \in Nat /\ width > 0 /\ base \in Nat /\ Rows * width - 1 \in Int
  <2>1. width \in Nat /\ plen \in Nat /\ width > 0
    BY <1>2 DEF Sized
  <2> QED BY <2>1, <1>2, CellsOK
<1>4. /\ Text \in Seq(Glyphs) /\ Len(Text) = len /\ pos \in 0 .. Len(Text) /\ len \in Nat
      /\ Text \in Seq(Chars) /\ len <= BufLen
  <2>1. Text \in Seq(Glyphs) /\ Len(Text) = len /\ pos \in 0 .. Len(Text)
    BY TextIs
  <2>2. len \in Nat /\ len <= BufLen
    BY BufferAssumption DEF BufferOK
  <2>3. Text \in Seq(Chars)
    BY WholeLine DEF BufferOK, Text
  <2> QED BY <2>1, <2>2, <2>3
<1>5. p \in 0 .. Len(Text)
  BY <1>4
<1> HIDE DEF p
<1>6. b \in Screens /\ Drawn(b, top, Text, p, 0)
  BY <1>1 DEF Drawn, p
<1>7. scr'.cells = b.cells /\ scr'.row = b.row + 1
  <2>1. LineFeed(b) \in Screens /\ LineFeed(b).cells = b.cells /\ LineFeed(b).row = b.row + 1
    BY <1>2, <1>6, ScreenOps DEF Moves
  <2>2. Return(LineFeed(b)).cells = LineFeed(b).cells
        /\ Return(LineFeed(b)).row = LineFeed(b).row
    BY <2>1, <1>2, ScreenOps DEF Moves
  <2> QED BY <2>1, <2>2, <1>1
<1>8. /\ width' = width /\ plen' = plen /\ mlmode' = mlmode /\ top' = top
      /\ len' = len /\ buf' = buf /\ pc' = "entered"
  BY DEF Enter, LoopTo, modeVars
<1>9. Text' = Text /\ Prompt' = Prompt
  BY <1>8 DEF Text, Prompt
<1>10. \A k \in Cells : base <= k =>
         \/ b.cells[k] = IF k - base + 1 <= Len(shown) THEN shown[k - base + 1] ELSE " "
         \/ ~mlmode /\ b.cells[k] = " "
  BY <1>6 DEF Drawn
\* No mark of a hint is among them.
<1>11. /\ shown \in Seq(Chars \cup {">"}) /\ Len(shown) \in Nat
       /\ mlmode => shown = Prompt \o Text /\ Len(shown) = plen + len
  <2> DEFINE T == Chars \cup {">"}
             l == LineShown(Text, p)
  <2>1. Marks(0) = << >> /\ << >> \in Seq(T)
    BY EmptySeq DEF Marks
  <2>2. Prompt \in Seq(T) /\ Len(Prompt) = plen
    BY <1>3 DEF Prompt
  <2>3. Text \in Seq(T)
    <3>1. Text \in [1 .. Len(Text) -> Chars]
      BY <1>4, LenProperties
    <3>2. Text \in [1 .. Len(Text) -> T]
      BY <3>1
    <3> QED BY <3>2, <1>4
  <2>4. l \in Seq(T) /\ (mlmode => l = Text)
    <3>1. Window(Text, p) \in Seq(T)
      BY <2>3, <1>2, <1>5, WindowOf
    <3> QED BY <3>1, <2>3 DEF LineShown
  <2> HIDE DEF T, l
  <2>5. Prompt \o l \in Seq(T) /\ Len(Prompt \o l) = plen + Len(l)
    BY <2>2, <2>4, ConcatProperties
  <2>6. (Prompt \o l) \o << >> = Prompt \o l
    BY <2>5, ConcatEmptySeq
  <2>7. shown = Prompt \o l
    BY <2>1, <2>6 DEF l
  <2> HIDE DEF shown
  <2>8. shown \in Seq(T) /\ Len(shown) \in Nat
    BY <2>5, <2>7, LenProperties
  <2>9. mlmode => shown = Prompt \o Text /\ Len(shown) = plen + len
    BY <2>4, <2>5, <2>7, <1>4
  <2> QED BY <2>8, <2>9 DEF T
<1> HIDE DEF shown
<1>12. ASSUME NEW k \in (b.row + 1) * width .. Rows * width - 1 PROVE b.cells[k] = " "
  <2>1. /\ b.row \in Nat /\ b.col \in Nat /\ b.row * width \in Nat
        /\ (b.row + 1) * width = b.row * width + width
    BY <1>3, <1>6 DEF Screens
  <2> DEFINE x == b.row * width
  <2>2. k \in Int /\ x + width <= k /\ k <= Rows * width - 1 /\ x \in Nat
    BY <2>1, <1>3
  <2>3. k \in Cells
    <3> DEFINE y == Rows * width - 1
    <3>1. y \in Int /\ k <= y
      BY <2>2, <1>3
    <3> HIDE DEF x, y
    <3>2. k \in 0 .. y
      BY <2>2, <3>1, <1>3
    <3> QED BY <3>2 DEF y, Cells
  <2>4. CASE mlmode
    <3>1. x + b.col = base + (plen + p) /\ b.col < width /\ p = len
      BY <2>4, <1>6 DEF Drawn, CursorCell, p
    <3> HIDE DEF x, base
    <3>2. base <= k /\ ~(k - base + 1 <= plen + len)
      BY <2>1, <2>2, <3>1, <1>3, <1>4
    <3> QED BY <2>3, <2>4, <3>2, <1>10, <1>11
  <2>5. CASE ~mlmode
    <3>1. RestBlank(b, top)
      BY <2>5, <1>2, <1>4, <1>5, <1>6, DrawnRest
    <3>2. b.row = top /\ BlankFrom(b, base + width)
      BY <3>1 DEF RestBlank
    <3>3. base + width <= k
      BY <2>2, <3>2
    <3> QED BY <2>3, <3>2, <3>3 DEF BlankFrom
  <2> QED BY <2>4, <2>5
<1>13. ASSUME mlmode, NEW k \in 1 .. plen + len
       PROVE  b.cells[base + k - 1] = (Prompt \o Text)[k]
  <2> DEFINE j == base + k - 1
  <2>1. base + plen + BufLen <= Rows * width
    <3>1. FirstRow * width + plen + BufLen <= Rows * width
      BY <1>2 DEF EnoughRows
    <3>2. FirstRow \in Nat /\ FirstRow * width \in Nat /\ BufLen \in Nat /\ Rows * width \in Int
      BY <1>3, ScreenAssumption, BufferAssumption
    <3>3. base <= FirstRow * width
      <4>1. top <= FirstRow
        BY <3>2, <1>2
      <4> QED BY <4>1, <3>2, <1>2, <1>3, Times
    <3> DEFINE f == FirstRow * width
               r == Rows * width
    <3> HIDE DEF f, r, base
    <3>4. base + plen + BufLen <= r
      BY <3>1, <3>2, <3>3, <1>3 DEF f, r
    <3> QED BY <3>4 DEF r
  <2>2. j \in Cells /\ base <= j /\ j - base + 1 = k
    <3> DEFINE r == Rows * width
    <3>1. r \in Int /\ base + plen + BufLen <= r /\ BufLen \in Nat
      BY <2>1, <1>3, ScreenAssumption, BufferAssumption
    <3>2. k \in Int /\ 1 <= k /\ k <= plen + len
      BY <1>3, <1>4
    <3> HIDE DEF r, base
    <3>3. j \in 0 .. r - 1 /\ base <= j /\ j - base + 1 = k
      <4>1. base \in Nat /\ plen \in Nat /\ len \in Nat /\ len <= BufLen
        BY <1>3, <1>4
      <4>2. r \in Int
        BY <3>1
      <4>3. k <= plen + BufLen
        BY <3>1, <3>2, <4>1
      <4> QED BY <3>1, <3>2, <4>1, <4>2, <4>3
    <3> QED BY <3>3 DEF r, Cells
  <2>3. k <= Len(shown) /\ shown = Prompt \o Text
    BY <1>3, <1>4, <1>11, <1>13
  <2> HIDE DEF j
  <2>4. b.cells[j] = shown[k]
    BY <2>2, <2>3, <1>10, <1>13
  <2> QED BY <2>3, <2>4 DEF j
<1>14. ASSUME NEW k \in Cells PROVE b.cells[k] # "h"
  <2>1. k \in Nat
    BY <1>2, CellsOK
  <2>2. CASE k < base
    BY <2>2, <1>1, <1>2 DEF OutputKept, Cells
  <2>3. CASE base <= k
    <3>1. CASE k - base + 1 <= Len(shown)
      <4>1. k - base + 1 \in 1 .. Len(shown)
        BY <2>1, <2>3, <3>1, <1>3, <1>11
      <4>2. shown[k - base + 1] \in Chars \cup {">"}
        BY <4>1, <1>11, ElementOfSeq
      <4> QED BY <2>3, <3>1, <4>2, <1>10 DEF HintsDiffer
    <3>2. CASE ~(k - base + 1 <= Len(shown))
      BY <2>3, <3>2, <1>10
    <3> QED BY <3>1, <3>2
  <2> QED BY <2>1, <2>2, <2>3, <1>3
<1> HIDE DEF base
<1>15. \A k \in scr'.row * width' .. Rows * width' - 1 : scr'.cells[k] = " "
  BY <1>7, <1>8, <1>12
<1>16. mlmode' => \A k \in 1 .. plen' + len' :
                    scr'.cells[top' * width' + k - 1] = (Prompt' \o Text')[k]
  BY <1>7, <1>8, <1>9, <1>13 DEF base
<1>17. \A k \in 0 .. Rows * width' - 1 : scr'.cells[k] # "h"
  BY <1>7, <1>8, <1>14 DEF Cells
<1> QED BY <1>15, <1>16, <1>17 DEF EnteredLineStays

LEMMA OnlyEnter ==
  ASSUME Next PROVE Enter \/ pc' \in {"read", "escape", "complete", "ended"}
BY DEF Next, Control, Type, CtrlD, Stop, Escape, EscapeFirst, EscapeSecond, EscapeThird,
       EscapeFails, Tab, NextCompletion, LeaveCompletion, AcceptCompletion, CompletionFails,
       LoopTo

\* Enter leaves the whole line on the screen, with no hint behind it and the cursor
\* on a row of its own below, wherever in the line the cursor was.
THEOREM EnteredLinesStay ==
  ASSUME NarrowScreens, EnoughRows, HintsDiffer PROVE Spec => []EnteredLineStays
<1>1. Init => EnteredLineStays
  BY DEF Init, EnteredLineStays
<1>2. ScreenInv /\ BufferOK /\ LoopOK /\ EnteredLineStays /\ [Next]_vars => EnteredLineStays'
  <2> SUFFICES ASSUME ScreenInv, BufferOK, LoopOK, EnteredLineStays, [Next]_vars
               PROVE  EnteredLineStays'
    OBVIOUS
  <2>1. CASE UNCHANGED vars
    <3>1. /\ UNCHANGED <<width, plen, mlmode, scr, top, pc, buf, len>>
      BY <2>1 DEF vars, modeVars, screenVars, loopVars, bufVars
    <3>2. Text' = Text /\ Prompt' = Prompt
      BY <3>1 DEF Text, Prompt
    <3> QED BY <3>1, <3>2 DEF EnteredLineStays
  <2>2. CASE Enter
    BY <2>2, EnterLeaves
  <2>3. CASE pc' \in {"read", "escape", "complete", "ended"}
    BY <2>3 DEF EnteredLineStays
  <2> QED BY <2>1, <2>2, <2>3, OnlyEnter
<1> QED BY <1>1, <1>2, AlwaysScreen, PTL DEF Spec
=============================================================================
