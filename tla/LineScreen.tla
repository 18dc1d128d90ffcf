----------------------------- MODULE LineScreen -----------------------------
(***************************************************************************)
(* How lib/wrappers/linenoise/linenoise.c draws the line: refreshSingleLine *)
(* scrolls it through one row, refreshMultiLine lets it run over as many    *)
(* rows as it needs and clears the rows it used before.                     *)
(*                                                                         *)
(* The terminal is not in the repository.  Here it has Rows rows of width   *)
(* cells, a cursor, and the deferred wrap of a VT100: after a character in  *)
(* the last column the cursor waits there, written col = width, until the   *)
(* next character.  Cell k is in row k \div width and column k % width.     *)
(***************************************************************************)
EXTENDS Integers, Sequences

CONSTANTS Rows,         \* rows of the terminal, more than any line needs
          FirstRow,     \* the row the prompt is printed in
          Columns,      \* widths of terminal
          PromptLens,   \* lengths of prompt, all less than the widths
          HintLens      \* lengths of hint

ASSUME ScreenAssumption ==
  /\ Rows \in Nat /\ FirstRow \in 0 .. Rows - 1
  /\ Columns \subseteq Nat /\ PromptLens \subseteq Nat \ {0} /\ HintLens \subseteq Nat
  /\ \A w \in Columns, n \in PromptLens : n < w

VARIABLES
  scr,       \* cells, row and col: the terminal; maxrows, oldpos: in linenoiseState
  width,                \* cells in a row of the terminal
  cols, plen,           \* l.cols and l.plen
  mlmode,               \* multi-line mode
  hintsCallback,        \* is there one?
  top,       \* the row where the prompt began
  hint       \* length of the hint shown

modeVars == <<width, cols, plen, mlmode, hintsCallback>>
screenVars == <<scr, top, hint>>

-----------------------------------------------------------------------------
(* The terminal.                                                            *)

Larger(a, b) == IF a > b THEN a ELSE b
Smaller(a, b) == IF a < b THEN a ELSE b

Write(s, str) ==
  LET start == s.row * width + s.col
      end == start + Len(str)
      row == (end - 1) \div width
  IN  IF str = << >> THEN s
      ELSE [s EXCEPT !.cells = [k \in DOMAIN @ |-> IF start <= k /\ k < end
                                                   THEN str[k - start + 1] ELSE @[k]],
                     !.row = row,
                     !.col = end - row * width]

Return(s) == [s EXCEPT !.col = 0]                               \* \r
LineFeed(s) == [s EXCEPT !.row = @ + 1]                         \* \n, raw mode
Up(s, n) == [s EXCEPT !.row = Larger(@ - n, 0)]                 \* ESC [ n A
Down(s, n) == [s EXCEPT !.row = @ + n]                          \* ESC [ n B
Forward(s, n) == [s EXCEPT !.col = Smaller(@ + n, width - 1)]    \* ESC [ n C

Back(s, n) == [s EXCEPT !.col = Larger(@ - n, 0)]              \* ESC [ n D

\* The answer to ESC [ 6 n, which getCursorPosition reads.
CursorPosition(s) == Smaller(s.col, width - 1) + 1

\* ESC [ 0 K; a cursor that waits at the margin erases the cell it is on.
EraseRight(s) ==
  LET from == s.row * width + Smaller(s.col, width - 1)
  IN  [s EXCEPT !.cells = [k \in DOMAIN @ |-> IF from <= k /\ k < (s.row + 1) * width
                                              THEN " " ELSE @[k]]]

\* ESC [ H ESC [ 2 J
ClearAll(s) == [s EXCEPT !.cells = [k \in DOMAIN @ |-> " "], !.row = 0, !.col = 0]

-----------------------------------------------------------------------------
\* getColumns, when the operating system does not know the width: go to the
\* right margin, ask where that is, and go back.  (If nothing answers, 80 columns
\* are assumed: a screen of another width is then drawn wrongly, and one of 80 as
\* if the system had known.)
GetColumns(s) ==
  LET start == CursorPosition(s)
      margin == Forward(s, 999)
      columns == CursorPosition(margin)
  IN  [columns |-> columns,
       screen |-> IF columns > start THEN Back(margin, columns - start) ELSE margin]

Prompt == [i \in 1 .. plen |-> ">"]

\* refreshShowHints, for a callback whose hint has n characters and a colour:
\* what fits to the right of the line.
Hint(n, size) ==
  IF plen + n < cols
  THEN [i \in 1 .. Smaller(size, cols - (plen + n)) |-> "h"] ELSE << >>

\* How many characters of the line have scrolled out of its row on the left.
Shift(p) == IF plen + p >= cols THEN plen + p - cols + 1 ELSE 0

\* The part of the line that its row has room for.
Window(text, p) ==
  SubSeq(text, Shift(p) + 1, Smaller(Len(text), Shift(p) + cols - plen))

RefreshSingle(s, text, p, h) ==
  LET printed == Write(Write(Write(Return(s), Prompt), Window(text, p)), h)
  IN  Forward(Return(EraseRight(printed)), p - Shift(p) + plen)

\* refreshMultiLine up to "Clean the top line": from the last row used so far,
\* clear and go up.
ClearRows_FromTheCursor(s) ==
  LET last == s.row
      first == Larger(last - Larger(s.maxrows - 1, 0), 0)
  IN  [s EXCEPT !.cells = [k \in DOMAIN @ |-> IF first * width <= k /\ k < (last + 1) * width
                                              THEN " " ELSE @[k]],
                !.row = first, !.col = 0]

ClearRows(s) ==
  LET rpos == (plen + s.oldpos + cols) \div cols
      last == Down(s, Larger(s.maxrows - rpos, 0)).row
      first == Up([s EXCEPT !.row = last], Larger(s.maxrows - 1, 0)).row
  IN  [s EXCEPT !.cells = [k \in DOMAIN @ |-> IF first * width <= k /\ k < (last + 1) * width
                                              THEN " " ELSE @[k]],
                !.row = first, !.col = 0]

\* The cursor is at the very end of the screen: it needs a row of its own.
AtMargin(text, p) == p > 0 /\ p = Len(text) /\ (plen + p) % cols = 0

RefreshMulti(s, text, p, h) ==
  LET printed == Write(Write(Write(ClearRows(s), Prompt), text), h)
      wrapped == IF AtMargin(text, p) THEN Return(LineFeed(printed)) ELSE printed
      rows == (plen + Len(text) + cols - 1) \div cols
                + (IF AtMargin(text, p) THEN 1 ELSE 0)
      rpos2 == (plen + p + cols) \div cols
      placed == Forward(Return(Up(wrapped, Larger(rows - rpos2, 0))), (plen + p) % cols)
  IN  [placed EXCEPT !.maxrows = Larger(@, rows), !.oldpos = p]

\* refreshLine
Refreshed(s, text, p, h) ==
  IF mlmode THEN RefreshMulti(s, text, p, h) ELSE RefreshSingle(s, text, p, h)

Refresh(s, text, p) ==
  \E size \in IF hintsCallback THEN HintLens ELSE {0} :
    LET h == Hint(Len(text), size)
    IN  scr' = Refreshed(s, text, p, h) /\ hint' = Len(h)

\* The terminal once linenoiseEdit has written the prompt; rows above it hold
\* what the program has printed before.  The operating system knows the width,
\* or the terminal answers.
ScreenInit ==
  /\ width \in Columns /\ plen \in PromptLens
  /\ mlmode \in BOOLEAN /\ hintsCallback \in BOOLEAN
  /\ top = FirstRow /\ hint = 0
  /\ LET s == [cells |-> [k \in 0 .. Rows * width - 1 |->
                            IF k < FirstRow * width THEN "o" ELSE " "],
               row |-> FirstRow, col |-> 0, maxrows |-> 0, oldpos |-> 0]
     IN  \/ cols = width /\ scr = Write(s, Prompt)
         \/ cols = GetColumns(s).columns /\ scr = Write(GetColumns(s).screen, Prompt)

\* linenoiseClearScreen, then refreshLine.
ClearScreen(text, p) == top' = 0 /\ Refresh(ClearAll(scr), text, p)

-----------------------------------------------------------------------------
\* What a user should see from row top on, as the sequence of cells.
Shown(text, p) ==
  Prompt \o (IF mlmode THEN text ELSE Window(text, p)) \o [i \in 1 .. hint |-> "h"]

CursorCell(p) == IF mlmode THEN plen + p ELSE plen + p - Shift(p)

\* The screen shows the prompt, the line (in single-line mode the part of it
\* around the cursor) and the hint, nothing of what was there before, and the
\* cursor is where it is in the line.  In single-line mode ESC [ 0 K may have
\* erased the character in the last column of a full row.
ScreenShows(text, p) ==
  LET shown == Shown(text, p)
  IN  /\ top * width + CursorCell(p) = scr.row * width + scr.col
      /\ scr.col < width
      /\ \A k \in top * width .. Rows * width - 1 :
           LET i == k - top * width + 1
           IN  \/ scr.cells[k] = IF i <= Len(shown) THEN shown[i] ELSE " "
               \/ ~mlmode /\ i = width /\ scr.cells[k] = " "
=============================================================================
