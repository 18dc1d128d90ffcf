------------------------------ MODULE LineEdit ------------------------------
(***************************************************************************)
(* The loop of linenoiseEdit in lib/wrappers/linenoise/linenoise.c: which   *)
(* key does what, the bytes of an escape sequence, completion, and what     *)
(* every command does to the buffer (LineBuffer) and to the screen          *)
(* (LineScreen).  A line of the history is any line here; LineSession has   *)
(* the history and the ways out of the loop.                               *)
(***************************************************************************)
EXTENDS LineBuffer, LineScreen

CONSTANTS Completions,   \* the lists that completionCallback may return
          HistoryLines,  \* the lines that a move in the history may show
          NoKey

\* What Complete assumes: every completion fits into the buffer.
ASSUME EditAssumption ==
  /\ HistoryLines \subseteq Line
  /\ Completions \subseteq Seq(Line)
  /\ \A list \in Completions : \A i \in DOMAIN list : Len(list[i]) < BufLen
  /\ NoKey \notin Chars

VARIABLES pc,      \* where linenoiseEdit or completeLine is
          seq,     \* the bytes of an escape sequence read so far
          key,     \* the character completeLine has returned, or NoKey
          lc, i    \* completeLine: the completions, the one shown

loopVars == <<pc, seq, key, lc, i>>
vars == <<bufVars, modeVars, screenVars, loopVars>>

Init == /\ BufInit /\ ScreenInit
        /\ pc = "read" /\ seq = << >> /\ key = NoKey /\ lc = << >> /\ i = 0

-----------------------------------------------------------------------------
(* Commands.                                                                *)

Nothing == UNCHANGED <<bufVars, screenVars>>

\* An operation on the buffer is followed by refreshLine.
Redraw == Refresh(scr, Text', pos') /\ UNCHANGED top

\* An operation that finds nothing to do leaves the screen alone, too.
MoveLeftKey == (MoveLeft /\ Redraw) \/ (pos = 0 /\ Nothing)
MoveRightKey == (MoveRight /\ Redraw) \/ (pos = len /\ Nothing)
MoveHomeKey == (MoveHome /\ Redraw) \/ (pos = 0 /\ Nothing)
MoveEndKey == (MoveEnd /\ Redraw) \/ (pos = len /\ Nothing)
DeleteKey == (Delete /\ Redraw) \/ (pos = len /\ Nothing)
BackspaceKey == (Backspace /\ Redraw) \/ (pos = 0 /\ Nothing)
TransposeKey == (Transpose /\ Redraw) \/ (pos \in {0, len} /\ Nothing)
ClearKey == ClearScreen(Text, pos) /\ UNCHANGED bufVars

\* linenoiseEditHistoryNext: a line of the history, or none in that direction.
HistoryKey == (\E line \in HistoryLines : Recall(line) /\ Redraw) \/ Nothing

\* The trivial case of linenoiseEditInsert: a character at the end of a line that
\* its row has room for is only printed.
Trivial_AtMargin == len = pos /\ ~mlmode /\ plen + len <= cols /\ ~hintsCallback
Trivial == len = pos /\ ~mlmode /\ plen + len + 1 < cols /\ ~hintsCallback

InsertKey(c) ==
  \/ /\ Insert(c)
     /\ IF Trivial THEN scr' = Write(scr, <<c>>) /\ UNCHANGED <<top, hint>>
        ELSE Redraw
  \/ len = BufLen /\ Nothing

Commands == {"left", "right", "home", "end", "delete", "backspace", "transpose",
             "history", "clear", "deleteWord", "deleteLine", "deleteToEnd"}

Command(name) ==
  \/ name = "left" /\ MoveLeftKey
  \/ name = "right" /\ MoveRightKey
  \/ name = "home" /\ MoveHomeKey
  \/ name = "end" /\ MoveEndKey
  \/ name = "delete" /\ DeleteKey
  \/ name = "backspace" /\ BackspaceKey
  \/ name = "transpose" /\ TransposeKey
  \/ name = "history" /\ HistoryKey
  \/ name = "clear" /\ ClearKey
  \/ name = "deleteWord" /\ DeletePrevWord /\ Redraw
  \/ name = "deleteLine" /\ DeleteLine /\ Redraw
  \/ name = "deleteToEnd" /\ DeleteToEnd /\ Redraw
  \/ name \notin Commands /\ Nothing

-----------------------------------------------------------------------------
(* The switch of linenoiseEdit.                                             *)

\* The character to handle: just read, or returned by completeLine.
Gets(c) == pc = "read" /\ key \in {c, NoKey}

LoopTo(l) == pc' = l /\ key' = NoKey /\ UNCHANGED <<modeVars, lc, i>>

ControlKeys ==
  [ctrlA |-> "home", ctrlB |-> "left", ctrlE |-> "end", ctrlF |-> "right",
   backspace |-> "backspace", ctrlH |-> "backspace", ctrlK |-> "deleteToEnd",
   ctrlL |-> "clear", ctrlN |-> "history", ctrlP |-> "history",
   ctrlT |-> "transpose", ctrlU |-> "deleteLine", ctrlW |-> "deleteWord"]

Control(c) == Gets(c) /\ Command(ControlKeys[c]) /\ LoopTo("read") /\ UNCHANGED seq

Type(c) == Gets(c) /\ InsertKey(c) /\ LoopTo("read") /\ UNCHANGED seq

\* Ctrl-D deletes, or ends the input if the line is empty.
CtrlD ==
  /\ Gets("ctrlD")
  /\ IF len > 0 THEN Command("delete") /\ LoopTo("read")
     ELSE Nothing /\ LoopTo("ended")
  /\ UNCHANGED seq

\* Enter: in multi-line mode the cursor goes to the end of the line, then the
\* hint is erased; disableRawMode and the newline of linenoiseRaw follow.
Enter_LeavesCursor ==
  LET s == IF hintsCallback THEN Refreshed(scr, Text, pos, << >>) ELSE scr
  IN  /\ Gets("enter")
      /\ scr' = Return(LineFeed(s))
      /\ hint' = 0
      /\ LoopTo("entered")
      /\ UNCHANGED <<bufVars, top, seq>>

Enter ==
  \E size \in IF hintsCallback THEN HintLens ELSE {0} :
    LET atEnd == IF mlmode THEN len ELSE pos
        moved == IF atEnd = pos THEN scr
                 ELSE Refreshed(scr, Text, atEnd, Hint(len, size))
        bare == IF hintsCallback THEN Refreshed(moved, Text, atEnd, << >>) ELSE moved
    IN  /\ Gets("enter")
        /\ pos' = atEnd
        /\ scr' = Return(LineFeed(bare))
        /\ hint' = 0
        /\ LoopTo("entered")
        /\ UNCHANGED <<buf, len, top, seq>>

\* Ctrl-C, or the end of the input.
Stop == /\ Gets("ctrlC")
        /\ Nothing
        /\ LoopTo("ended")
        /\ UNCHANGED seq

-----------------------------------------------------------------------------
(* Escape sequences: two more bytes, and a third after ESC [ digit.         *)

CsiKeys == [A |-> "history", B |-> "history", C |-> "right", D |-> "left",
            H |-> "home", F |-> "end"]
Ss3Keys == [H |-> "home", F |-> "end"]
Digits == {"3", "5"}
EscBytes == {"[", "O", "~", "Z"} \cup Digits \cup DOMAIN CsiKeys

Meaning(keys, b) == IF b \in DOMAIN keys THEN keys[b] ELSE "nothing"

Escape == /\ Gets("esc")
          /\ seq' = << >>
          /\ Nothing
          /\ LoopTo("escape")

EscapeFirst(b) == /\ pc = "escape" /\ seq = << >>
                  /\ seq' = <<b>>
                  /\ Nothing
                  /\ LoopTo("escape")

EscapeSecond(b) ==
  /\ pc = "escape" /\ Len(seq) = 1
  /\ \/ /\ seq[1] = "[" /\ b \in Digits
        /\ seq' = Append(seq, b)
        /\ Nothing
        /\ LoopTo("escape")
     \/ /\ ~(seq[1] = "[" /\ b \in Digits)
        /\ seq' = << >>
        /\ Command(CASE seq[1] = "[" -> Meaning(CsiKeys, b)
                     [] seq[1] = "O" -> Meaning(Ss3Keys, b)
                     [] OTHER -> "nothing")
        /\ LoopTo("read")

EscapeThird(b) ==
  /\ pc = "escape" /\ Len(seq) = 2
  /\ seq' = << >>
  /\ Command(IF b = "~" /\ seq[2] = "3" THEN "delete" ELSE "nothing")
  /\ LoopTo("read")

\* A read that fails gives the sequence up.
EscapeFails == /\ pc = "escape"
               /\ seq' = << >>
               /\ Nothing
               /\ LoopTo("read")

-----------------------------------------------------------------------------
(* completeLine: Tab goes through the completions and, after the last, back *)
(* to the line itself.                                                     *)

\* The line on the screen: linenoiseState borrows the completion for refreshLine.
Displayed == IF pc = "complete" /\ i < Len(lc) THEN lc[i + 1] ELSE Text
DisplayedPos == IF pc = "complete" /\ i < Len(lc) THEN Len(lc[i + 1]) ELSE pos

ShowCompletion == /\ UNCHANGED <<bufVars, modeVars, top, seq, key>>
                  /\ Refresh(scr, Displayed', DisplayedPos')

\* With an empty list there is a beep and the next key is read.
Tab == \E list \in Completions :
         /\ pc = "read" /\ key = NoKey
         /\ lc' = list /\ i' = 0
         /\ IF list = << >>
            THEN pc' = "read" /\ Nothing /\ UNCHANGED <<modeVars, seq, key>>
            ELSE pc' = "complete" /\ ShowCompletion

NextCompletion ==
  /\ pc = "complete"
  /\ i' = (i + 1) % (Len(lc) + 1)
  /\ UNCHANGED <<pc, lc>>
  /\ ShowCompletion

FreeCompletions == lc' = << >> /\ i' = 0

\* Escape shows the line again; linenoiseEdit takes it for the start of an
\* escape sequence.
LeaveCompletion ==
  /\ pc = "complete"
  /\ pc' = "read" /\ key' = "esc"
  /\ IF i < Len(lc) THEN Refresh(scr, Text, pos) /\ UNCHANGED top
     ELSE UNCHANGED screenVars
  /\ FreeCompletions /\ UNCHANGED <<bufVars, modeVars, seq>>

\* Any other character accepts what is shown and is handled next, on a line
\* that the screen shows already.  (A NUL is taken for "read the next one": NoKey.)
AcceptingKeys == Chars \cup DOMAIN ControlKeys \cup {"enter", "ctrlC", "ctrlD", NoKey}

AcceptCompletion(c) ==
  /\ pc = "complete"
  /\ pc' = "read" /\ key' = c
  /\ IF i < Len(lc) THEN Complete(lc[i + 1]) ELSE UNCHANGED bufVars
  /\ FreeCompletions /\ UNCHANGED <<screenVars, modeVars, seq>>

\* A failed read ends the line, and so does a character above 127: char is
\* signed on most targets, and linenoiseEdit takes a negative result for an error.
CompletionFails == /\ pc = "complete"
                   /\ pc' = "ended"
                   /\ FreeCompletions
                   /\ UNCHANGED <<bufVars, screenVars, modeVars, seq, key>>

-----------------------------------------------------------------------------
Next == \/ \E c \in DOMAIN ControlKeys : Control(c)
        \/ \E c \in Chars : Type(c)
        \/ CtrlD \/ Enter \/ Stop
        \/ Escape
        \/ \E b \in EscBytes : EscapeFirst(b) \/ EscapeSecond(b) \/ EscapeThird(b)
        \/ EscapeFails
        \/ Tab \/ NextCompletion \/ LeaveCompletion
        \/ \E c \in AcceptingKeys : AcceptCompletion(c)
        \/ CompletionFails

Spec == Init /\ [][Next]_vars

-----------------------------------------------------------------------------
(* Properties.  BufferOK is in LineBuffer.                                  *)

\* The buffer, with its memmoves, its two counters and its NULs, is a text with a
\* cursor, and every key does to it what a user means by that key.
Editor == INSTANCE LineEditor
            WITH MaxLen <- BufLen, left <- BeforeCursor, right <- AfterCursor
ImplementsEditor == Editor!Spec

\* After every key the screen shows the line, or the completion offered, and
\* the cursor in it, however many rows it had before and wherever the cursor was.
ScreenOK == pc \in {"read", "escape", "complete"} => ScreenShows(Displayed, DisplayedPos)

\* The rows above the prompt keep what the program printed there, until Ctrl-L.
OutputKept ==
  \A k \in 0 .. Rows * width - 1 : k < top * width => scr.cells[k] = "o"

\* After Enter the whole line is on the screen without its hint, and the cursor is
\* below it: what the program prints next overwrites none of it.
EnteredLineStays ==
  pc = "entered" =>
    /\ \A k \in scr.row * width .. Rows * width - 1 : scr.cells[k] = " "
    /\ mlmode => \A k \in 1 .. plen + len :
                   scr.cells[top * width + k - 1] = (Prompt \o Text)[k]
    /\ \A k \in 0 .. Rows * width - 1 : scr.cells[k] # "h"
=============================================================================
