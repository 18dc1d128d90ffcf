---------------------------- MODULE LineSession ----------------------------
(***************************************************************************)
(* A program that reads lines with lib/wrappers/linenoise/linenoise.c, the  *)
(* way lib/impure/rdstdin.edl does: the history, the raw mode of the        *)
(* terminal, and every way into and out of linenoiseEdit.                   *)
(*                                                                         *)
(* linenoiseEdit keeps the line it edits as the newest entry of the history *)
(* and takes it off when the line is entered.  What the keys do to the line *)
(* is LineEdit's subject: here an edit gives any line.  A line is a model   *)
(* value; memory does not run out.                                         *)
(***************************************************************************)
EXTENDS Integers, Sequences, SequencesExt

CONSTANTS Lines, Empty,
          Cut,         \* a line as strncpy brings it back into the buffer
          InFile,      \* a line as it reads from a history file: one line or more
          Files,       \* the history files there are
          MaxLens,     \* arguments of linenoiseHistorySetMaxLen
          DefaultMax,  \* LINENOISE_DEFAULT_HISTORY_MAX_LEN
          FirstSize,   \* the size linenoiseNoTTY doubles first
          MaxInput,    \* bound on the characters of a line from a pipe
          None         \* a null pointer

\* One or more lines of a history file.
Piece == Seq(Lines) \ {<< >>}

ASSUME SessionAssumption ==
  /\ Empty \in Lines /\ None \notin Lines
  /\ Cut \in [Lines -> Lines] /\ Cut[Empty] = Empty
  /\ \A l \in Lines : Cut[Cut[l]] = Cut[l]
  /\ InFile \in [Lines -> Piece]
  /\ Files \subseteq Piece
  /\ MaxLens \subseteq Nat \ {0} /\ DefaultMax \in Nat \ {0}
  /\ FirstSize \in Nat \ {0} /\ MaxInput \in Nat

VARIABLES
  pc,        \* program, load, edit, keycodes, notty or exited
  history,   \* the first history_len entries, the newest last
  maxLen,    \* history_max_len
  unread,    \* what linenoiseHistoryLoad has still to read, entry by entry
  line,      \* the line in linenoiseEdit's buffer
  index,     \* l.history_index
  stdin,     \* what standard input is: terminal, dumb (TERM) or pipe
  term,      \* the mode the terminal is in: cooked or raw
  orig,      \* the mode in orig_termios, or None
  rawmode,   \* rawmode
  atExit,    \* atexit_registered
  size, used,      \* maxlen and len of linenoiseNoTTY
  result,    \* what the last call returned
  lines,     \* (history variable) the lines the user can walk through, oldest first
  before,    \* (history variable) the history when the call began, None once edited
  saved,     \* (history variable) the history that went into that file, or None
  restoreFailed    \* (history variable) has a tcsetattr of disableRawMode failed?

histVars == <<history, maxLen>>
editVars == <<line, index, lines, before>>
termVars == <<term, orig, rawmode, atExit, restoreFailed>>
pipeVars == <<size, used>>
fileVars == <<unread, saved>>
vars == <<pc, histVars, editVars, fileVars, stdin, termVars, pipeVars, result>>

Init == /\ pc = "program"
        /\ history = << >> /\ maxLen = DefaultMax
        /\ line = Empty /\ index = 0 /\ lines = << >> /\ before = None
        /\ stdin \in {"terminal", "dumb", "pipe"}
        /\ term = "cooked" /\ orig = None /\ rawmode = FALSE /\ atExit = FALSE
        /\ restoreFailed = FALSE
        /\ unread = << >> /\ saved = None
        /\ size = 0 /\ used = 0
        /\ result = None

-----------------------------------------------------------------------------
(* The history.                                                             *)

Newest(h) == h[Len(h)]
Latest(h, n) == SubSeq(h, (IF Len(h) > n THEN Len(h) - n ELSE 0) + 1, Len(h))

\* linenoiseHistoryAdd: no duplicate of the newest entry, and the oldest goes
\* when the history is full.  (A name with an underscore is the same code with
\* a mistake in it.)
Added_Unbounded(h, l) == IF h # << >> /\ Newest(h) = l THEN h ELSE Append(h, l)

Added_WithoutShift(h, l) ==
  IF h # << >> /\ Newest(h) = l THEN h
  ELSE Append(IF Len(h) = maxLen THEN Front(h) ELSE h, l)

Added(h, l) ==
  IF h # << >> /\ Newest(h) = l THEN h
  ELSE Append(IF Len(h) = maxLen THEN Tail(h) ELSE h, l)

\* The entry of the history that is being edited.
Entry(ix) == Len(history) - ix

HistoryAdd(l) ==
  /\ pc = "program"
  /\ history' = Added(history, l)
  /\ UNCHANGED <<pc, maxLen, editVars, fileVars, stdin, termVars, pipeVars, result>>

\* linenoiseHistorySetMaxLen; an argument below one is refused.
HistorySetMaxLen(n) ==
  /\ pc = "program"
  /\ history' = Latest(history, n)
  /\ maxLen' = n
  /\ UNCHANGED <<pc, editVars, fileVars, stdin, termVars, pipeVars, result>>

\* linenoiseHistorySave writes the entries one after the other.
Saved_NewestFirst(h) == [e \in 1 .. Len(h) |-> InFile[h[Len(h) + 1 - e]]]

Saved(h) == [e \in 1 .. Len(h) |-> InFile[h[e]]]

\* linenoiseHistoryLoad adds the lines of the file one by one.
HistoryLoad(file) ==
  /\ pc = "program"
  /\ pc' = "load"
  /\ unread' = <<file>> /\ saved' = None
  /\ UNCHANGED <<histVars, editVars, stdin, termVars, pipeVars, result>>

LoadLine ==
  /\ pc = "load" /\ unread # << >>
  /\ history' = Added(history, Head(Head(unread)))
  /\ unread' = IF Len(Head(unread)) = 1 THEN Tail(unread)
               ELSE [unread EXCEPT ![1] = Tail(Head(unread))]
  /\ UNCHANGED <<pc, maxLen, editVars, saved, stdin, termVars, pipeVars, result>>

LoadEnd ==
  /\ pc = "load" /\ unread = << >>
  /\ pc' = "program"
  /\ saved' = None
  /\ UNCHANGED <<histVars, editVars, unread, stdin, termVars, pipeVars, result>>

-----------------------------------------------------------------------------
(* Raw mode.                                                                *)

\* enableRawMode; tcgetattr or tcsetattr may fail.
RawModeOn_LeavesFlag ==
  /\ orig' = term /\ term' = "raw" /\ atExit' = TRUE
  /\ UNCHANGED <<rawmode, restoreFailed>>

RawModeOn == /\ orig' = term /\ term' = "raw"
             /\ rawmode' = TRUE /\ atExit' = TRUE
             /\ UNCHANGED restoreFailed

RawModeFails == /\ orig' \in {orig, term} /\ atExit' = TRUE
                /\ UNCHANGED <<term, rawmode, restoreFailed>>

\* disableRawMode; tcsetattr may fail, and nobody hears of it.
DisableRawMode ==
  \/ /\ rawmode
     /\ term' = orig /\ rawmode' = FALSE
     /\ UNCHANGED <<orig, atExit, restoreFailed>>
  \/ /\ rawmode
     /\ restoreFailed' = TRUE
     /\ UNCHANGED <<term, orig, rawmode, atExit>>
  \/ ~rawmode /\ UNCHANGED termVars

-----------------------------------------------------------------------------
(* linenoiseExtra and linenoiseRaw.                                         *)

\* linenoiseEdit begins with an empty line, which becomes the newest entry.
Call ==
  /\ pc = "program" /\ stdin = "terminal"
  /\ RawModeOn
  /\ pc' = "edit"
  /\ line' = Empty /\ index' = 0
  /\ history' = Added(history, Empty)
  /\ lines' = history'
  /\ before' = history
  /\ UNCHANGED <<maxLen, fileVars, stdin, pipeVars, result>>

CallFails ==
  /\ pc = "program" /\ stdin = "terminal"
  /\ RawModeFails
  /\ result' = None
  /\ UNCHANGED <<pc, histVars, editVars, fileVars, stdin, pipeVars>>

\* A terminal of isUnsupportedTerm: fgets, without editing.
CallUnsupported ==
  /\ pc = "program" /\ stdin = "dumb"
  /\ result' \in Lines \cup {None}
  /\ UNCHANGED <<pc, histVars, editVars, fileVars, stdin, termVars, pipeVars>>

\* linenoiseRaw leaves linenoiseEdit, with h as the history.
Leave(h, r) ==
  /\ pc' = "program"
  /\ history' = h
  /\ result' = r
  /\ line' = Empty /\ index' = 0 /\ lines' = << >> /\ before' = None
  /\ DisableRawMode
  /\ UNCHANGED <<maxLen, fileVars, stdin, pipeVars>>

\* Enter takes the newest entry off, and so does Ctrl-D on an empty line ...
Enter == pc = "edit" /\ Leave(Front(history), line)
CtrlD == pc = "edit" /\ line = Empty /\ Leave(Front(history), None)

\* ... but not Ctrl-C, a failed write (of the prompt or of a character), nor
\* the end of the input or an interrupted read, which return the line so far.
CtrlC == pc = "edit" /\ Leave(history, None)
WriteFails == pc = "edit" /\ Leave(history, None)
ReadFails == pc = "edit" /\ Leave(history, line)

\* Keys and completions change the line.
Edit(l) ==
  /\ pc = "edit"
  /\ line' = l
  /\ lines' = [lines EXCEPT ![Entry(index)] = l]
  /\ UNCHANGED <<pc, histVars, index, before, fileVars, stdin, termVars, pipeVars, result>>

\* linenoiseEditHistoryNext stores the line in its entry before it goes to the
\* next one, d = 1 for an older, d = -1 for a newer; at either end it stays.
HistoryNext_ForgetsEdit(d) ==
  /\ pc = "edit" /\ Len(history) > 1
  /\ index + d \in 0 .. Len(history) - 1
  /\ index' = index + d
  /\ line' = Cut[history[Entry(index')]]
  /\ before' = None
  /\ UNCHANGED <<pc, histVars, lines, fileVars, stdin, termVars, pipeVars, result>>

HistoryNext(d) ==
  /\ pc = "edit" /\ Len(history) > 1
  /\ history' = [history EXCEPT ![Entry(index)] = line]
  /\ \/ /\ index + d \in 0 .. Len(history) - 1
        /\ index' = index + d
        /\ line' = Cut[history'[Entry(index')]]
     \/ /\ index + d \notin 0 .. Len(history) - 1
        /\ UNCHANGED <<index, line>>
  /\ before' = None
  /\ UNCHANGED <<pc, maxLen, lines, fileVars, stdin, termVars, pipeVars, result>>

-----------------------------------------------------------------------------
(* linenoisePrintKeyCodes: raw mode until the user has typed quit.          *)

KeyCodes == /\ pc = "program" /\ stdin # "pipe"
            /\ \/ RawModeOn /\ pc' = "keycodes"
               \/ RawModeFails /\ UNCHANGED pc
            /\ UNCHANGED <<histVars, editVars, fileVars, stdin, pipeVars, result>>

Quit == /\ pc = "keycodes"
        /\ DisableRawMode
        /\ pc' = "program"
        /\ UNCHANGED <<histVars, editVars, fileVars, stdin, pipeVars, result>>

-----------------------------------------------------------------------------
(* linenoiseNoTTY: a line of any length, in a buffer that doubles.          *)

CallPipe ==
  /\ pc = "program" /\ stdin = "pipe"
  /\ pc' = "notty" /\ size' = 0 /\ used' = 0
  /\ UNCHANGED <<histVars, editVars, fileVars, stdin, termVars, result>>

Grown_TooLate ==
  IF used > size \/ size = 0 THEN 2 * (IF size = 0 THEN FirstSize ELSE size) ELSE size

\* Room for the character about to be read, or for the NUL in its place.
Grown ==
  IF used = size THEN 2 * (IF size = 0 THEN FirstSize ELSE size) ELSE size

PipeChar ==
  /\ pc = "notty" /\ used < MaxInput
  /\ size' = Grown
  /\ used' = used + 1
  /\ UNCHANGED <<pc, histVars, editVars, fileVars, stdin, termVars, result>>

\* A newline or the end of the input; the end of an empty input gives NULL.
PipeEnd ==
  /\ pc = "notty"
  /\ pc' = "program"
  /\ size' = Grown
  /\ result' \in IF used = 0 THEN {Empty, None} ELSE Lines \ {Empty}
  /\ UNCHANGED <<histVars, editVars, fileVars, stdin, termVars, used>>

\* realloc fails: the line is given up.
PipeFails ==
  /\ pc = "notty" /\ used = size
  /\ pc' = "program"
  /\ result' = None
  /\ UNCHANGED <<histVars, editVars, fileVars, stdin, termVars, pipeVars>>

-----------------------------------------------------------------------------
\* linenoiseAtExit, if it has been registered, restores the terminal and frees
\* the history.
AtExit ==
  /\ pc' = "exited"
  /\ history' = << >>
  /\ IF atExit THEN DisableRawMode ELSE UNCHANGED termVars
  /\ UNCHANGED <<maxLen, editVars, stdin, pipeVars, result>>

\* The program, or a callback in the middle of a line, calls exit ...
Exit == /\ pc # "exited"
        /\ unread' = << >> /\ saved' = None
        /\ AtExit

\* ... perhaps after it has saved its history.
SaveAndExit == /\ pc = "program"
               /\ unread' = Saved(history) /\ saved' = history
               /\ AtExit

\* The program is started again on the same terminal, and loads what it saved.
Start ==
  /\ pc = "exited"
  /\ pc' = "load"
  /\ maxLen' = DefaultMax
  /\ line' = Empty /\ index' = 0 /\ lines' = << >> /\ before' = None
  /\ orig' = None /\ rawmode' = FALSE /\ atExit' = FALSE
  /\ size' = 0 /\ used' = 0 /\ result' = None
  /\ UNCHANGED <<history, fileVars, stdin, term, restoreFailed>>

Next == \/ \E l \in Lines \ {Empty} : HistoryAdd(l)
        \/ \E n \in MaxLens : HistorySetMaxLen(n)
        \/ \E f \in Files : HistoryLoad(f)
        \/ LoadLine \/ LoadEnd
        \/ Call \/ CallFails \/ CallUnsupported
        \/ Enter \/ CtrlD \/ CtrlC \/ WriteFails \/ ReadFails
        \/ \E l \in Lines : Edit(l)
        \/ \E d \in {-1, 1} : HistoryNext(d)
        \/ KeyCodes \/ Quit
        \/ CallPipe \/ PipeChar \/ PipeEnd \/ PipeFails
        \/ Exit \/ SaveAndExit \/ Start

Spec == Init /\ [][Next]_vars

-----------------------------------------------------------------------------
(* Properties.                                                             *)

\* The types, and the bounds the array accesses rely on: the history fits its
\* array, and while a line is edited its entry exists, so that Enter has one to
\* take off however the sessions before have ended.
HistoryOK ==
  /\ history \in Seq(Lines) /\ maxLen \in Nat \ {0}
  /\ Len(history) <= maxLen
  /\ unread \in Seq(Piece)
  /\ line \in Lines /\ index \in Nat
  /\ pc = "edit" => index < Len(history)

\* Walking through the history loses no line: the entry the user comes back to
\* is as he left it (but for the last character of a line that fills the buffer),
\* whichever entries he has edited and however often he ran into either end.
WalkKeepsLines ==
  pc = "edit" =>
    /\ Len(lines) = Len(history)
    /\ Cut[line] = Cut[lines[Entry(index)]]
    /\ \A e \in 1 .. Len(history) :
         e # Entry(index) => Cut[history[e]] = Cut[lines[e]]

\* A line that is read without walking through the history leaves the entries of
\* the program alone, however the call ends: only the oldest of a full history may
\* have made room.  (An empty newest entry is nobody's: Ctrl-C leaves one behind,
\* and the next Enter takes it off.)
CallKeepsHistory ==
  [][pc = "edit" /\ pc' = "program" /\ before # None =>
       LET kept == IF Len(before) < maxLen THEN {before}
                   ELSE {before, Latest(before, Len(before) - 1)}
       IN  \/ history' \in kept \cup {Append(h, Empty) : h \in kept}
           \/ before = Append(history', Empty)]_vars

\* A history that is saved comes back when the program is started again and
\* loads it, if its lines survive in a file, no two neighbours are equal, and the
\* default limit has room for it.
Storable(h) == /\ \A e \in 1 .. Len(h) : InFile[h[e]] = <<h[e]>>
               /\ \A e \in 1 .. Len(h) - 1 : h[e] # h[e + 1]
SavedComesBack ==
  [][LoadEnd /\ saved # None =>
       (Storable(saved) /\ Len(saved) <= DefaultMax => history' = saved)]_vars

\* Outside a call the terminal is as the program found it, and after an exit in
\* the middle of one, unless the operating system has refused to set it back once.
TerminalRestored ==
  pc \in {"program", "load", "notty", "exited"} /\ ~restoreFailed => term = "cooked"

\* In a pipe's buffer there is room for the NUL.
RoomForNul == pc = "program" /\ size > 0 /\ result # None => used < size
=============================================================================
