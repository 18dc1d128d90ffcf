------------------------- MODULE LineSessionProofs -------------------------
(***************************************************************************)
(* Theorems about LineSession, for any lines, any limits of the history,    *)
(* any files, and however often a system call fails.                       *)
(***************************************************************************)
EXTENDS LineSession, SequenceTheorems, TLAPS

(* ------------------------------ The history ---------------------------- *)

LEMMA TailOK ==
  ASSUME NEW S, NEW s \in Seq(S), s # << >>
  PROVE  Tail(s) \in Seq(S) /\ Len(Tail(s)) = Len(s) - 1 /\ Head(s) \in S
BY HeadTailProperties

\* linenoiseHistoryAdd keeps within the limit, and the history is not empty then.
LEMMA AddedOK ==
  ASSUME NEW l \in Lines, history \in Seq(Lines), maxLen \in Nat \ {0},
         Len(history) <= maxLen
  PROVE  /\ Added(history, l) \in Seq(Lines)
         /\ Len(Added(history, l)) <= maxLen
         /\ Len(Added(history, l)) > 0
<1>1. Len(history) \in Nat /\ (history # << >> => Len(history) > 0)
  BY EmptySeq, LenProperties
<1>2. CASE history # << >> /\ Newest(history) = l
  BY <1>1, <1>2 DEF Added
<1>3. CASE ~(history # << >> /\ Newest(history) = l) /\ Len(history) = maxLen
  <2>1. history # << >>
    BY <1>3, EmptySeq
  <2>2. Tail(history) \in Seq(Lines) /\ Len(Tail(history)) = Len(history) - 1
    BY <2>1, TailOK
  <2>3. /\ Append(Tail(history), l) \in Seq(Lines)
        /\ Len(Append(Tail(history), l)) = Len(history)
    BY <2>2, <1>1, AppendProperties
  <2> QED BY <2>1, <2>3, <1>1, <1>3 DEF Added
<1>4. CASE ~(history # << >> /\ Newest(history) = l) /\ Len(history) # maxLen
  <2>1. /\ Append(history, l) \in Seq(Lines)
        /\ Len(Append(history, l)) = Len(history) + 1
    BY AppendProperties
  <2> QED BY <2>1, <1>1, <1>4 DEF Added
<1> QED BY <1>2, <1>3, <1>4

LEMMA LatestOK ==
  ASSUME NEW h \in Seq(Lines), NEW n \in Nat
  PROVE  Latest(h, n) \in Seq(Lines) /\ Len(Latest(h, n)) <= n
<1> DEFINE m == (IF Len(h) > n THEN Len(h) - n ELSE 0) + 1
<1>1. Len(h) \in Nat /\ m \in 1 .. Len(h) + 1 /\ Len(h) - m + 1 <= n
  BY LenProperties
<1> HIDE DEF m
<1>2. \A k \in m .. Len(h) : h[k] \in Lines
  BY <1>1, ElementOfSeq
<1>3. /\ SubSeq(h, m, Len(h)) \in Seq(Lines)
      /\ Len(SubSeq(h, m, Len(h))) = IF m <= Len(h) THEN Len(h) - m + 1 ELSE 0
  BY <1>1, <1>2, SubSeqProperties
<1> QED BY <1>1, <1>3 DEF Latest, m

LEMMA FrontOK ==
  ASSUME NEW h \in Seq(Lines), Len(h) > 0
  PROVE  Front(h) \in Seq(Lines) /\ Len(Front(h)) = Len(h) - 1
<1> DEFINE n == Len(h) - 1
<1>1. n \in Nat /\ \A k \in 1 .. n : k \in 1 .. Len(h)
  BY LenProperties
<1>2. \A k \in 1 .. n : h[k] \in Lines
  BY <1>1, ElementOfSeq
<1> HIDE DEF n
<1>3. /\ SubSeq(h, 1, n) \in Seq(Lines)
      /\ Len(SubSeq(h, 1, n)) = IF 1 <= n THEN n - 1 + 1 ELSE 0
  BY <1>1, <1>2, SubSeqProperties
<1>4. (IF 1 <= n THEN n - 1 + 1 ELSE 0) = n
  BY <1>1
<1> QED BY <1>3, <1>4 DEF Front, n

LEMMA SavedOK == ASSUME NEW h \in Seq(Lines) PROVE Saved(h) \in Seq(Piece)
<1>1. Len(h) \in Nat /\ \A e \in 1 .. Len(h) : InFile[h[e]] \in Piece
  BY SessionAssumption, ElementOfSeq, LenProperties
<1> QED BY <1>1 DEF Saved

LEMMA UnreadOK ==
  ASSUME unread \in Seq(Piece), unread # << >>, LoadLine
  PROVE  unread' \in Seq(Piece) /\ Head(Head(unread)) \in Lines
<1>1. Head(unread) \in Piece /\ Tail(unread) \in Seq(Piece) /\ Len(unread) > 0
      /\ Len(unread) \in Nat
  BY TailOK, EmptySeq, LenProperties
<1>2. Head(unread) \in Seq(Lines) /\ Head(unread) # << >>
  BY <1>1 DEF Piece
<1>3. /\ Tail(Head(unread)) \in Seq(Lines) /\ Head(Head(unread)) \in Lines
      /\ Len(Tail(Head(unread))) = Len(Head(unread)) - 1
      /\ Len(Head(unread)) \in Nat
  BY <1>2, TailOK, LenProperties
<1>4. CASE Len(Head(unread)) = 1
  BY <1>1, <1>3, <1>4 DEF LoadLine
<1>5. CASE Len(Head(unread)) # 1
  <2>1. Len(Tail(Head(unread))) # 0
    BY <1>3, <1>5
  <2>2. Tail(Head(unread)) \in Piece
    BY <1>3, <2>1, EmptySeq DEF Piece
  <2>3. unread' = [unread EXCEPT ![1] = Tail(Head(unread))]
    BY <1>5 DEF LoadLine
  <2>4. 1 \in 1 .. Len(unread)
    BY <1>1
  <2> QED BY <2>2, <2>3, <2>4, <1>3, ExceptSeq
<1> QED BY <1>4, <1>5

\* The history is inside its array; it is freed at exit.
HistoryInv == HistoryOK /\ (pc = "exited" => history = << >>)

\* A step that leaves the history, the line and the file alone.
LEMMA QuietOK ==
  ASSUME HistoryInv, UNCHANGED <<history, maxLen, unread, line, index>>,
         pc' \in {"edit", "exited"} => pc' = pc
  PROVE  HistoryInv'
BY DEF HistoryInv, HistoryOK

LEMMA CallOK == ASSUME HistoryInv, Call PROVE HistoryInv'
<1>1. /\ history' = Added(history, Empty) /\ UNCHANGED <<maxLen, unread>>
      /\ line' = Empty /\ index' = 0 /\ pc' = "edit"
  BY DEF Call, fileVars
<1>2. /\ history' \in Seq(Lines) /\ Len(history') <= maxLen /\ Len(history') > 0
  BY <1>1, AddedOK, SessionAssumption DEF HistoryInv, HistoryOK
<1> QED BY <1>1, <1>2, SessionAssumption DEF HistoryInv, HistoryOK

LEMMA LeaveOK ==
  ASSUME HistoryInv, NEW h \in Seq(Lines), Len(h) <= maxLen, NEW r, Leave(h, r)
  PROVE  HistoryInv'
BY SessionAssumption DEF HistoryInv, HistoryOK, Leave, fileVars

LEMMA LeavesOK ==
  ASSUME HistoryInv, Enter \/ CtrlD \/ CtrlC \/ WriteFails \/ ReadFails
  PROVE  HistoryInv'
<1>1. /\ pc = "edit" /\ history \in Seq(Lines) /\ Len(history) <= maxLen
      /\ Len(history) \in Nat /\ maxLen \in Nat /\ Len(history) > 0
  BY LenProperties DEF HistoryInv, HistoryOK, Enter, CtrlD, CtrlC, WriteFails, ReadFails
<1>2. Front(history) \in Seq(Lines) /\ Len(Front(history)) <= maxLen
  BY <1>1, FrontOK
<1>3. CASE Enter \/ CtrlD
  BY <1>2, <1>3, LeaveOK DEF Enter, CtrlD
<1>4. CASE CtrlC \/ WriteFails \/ ReadFails
  BY <1>1, <1>4, LeaveOK DEF CtrlC, WriteFails, ReadFails
<1> QED BY <1>3, <1>4

LEMMA EditOK == ASSUME HistoryInv, NEW l \in Lines, Edit(l) PROVE HistoryInv'
BY DEF HistoryInv, HistoryOK, Edit, histVars, fileVars

\* The entry the line is stored in exists, and so does the one it is taken from.
LEMMA WalkOK == ASSUME HistoryInv, NEW d \in {-1, 1}, HistoryNext(d) PROVE HistoryInv'
<1>1. /\ history \in Seq(Lines) /\ Len(history) \in Nat /\ index \in Nat /\ line \in Lines
      /\ index < Len(history) /\ pc = "edit"
  BY LenProperties DEF HistoryInv, HistoryOK, HistoryNext
<1>2. /\ pc' = pc /\ UNCHANGED <<maxLen, unread>>
      /\ history' = [history EXCEPT ![Entry(index)] = line]
  BY DEF HistoryNext, fileVars
<1>3. Entry(index) \in 1 .. Len(history)
  BY <1>1 DEF Entry
<1>4. history' \in Seq(Lines) /\ Len(history') = Len(history)
  BY <1>1, <1>2, <1>3, ExceptSeq
<1>5. CASE index + d \notin 0 .. Len(history) - 1
  BY <1>1, <1>2, <1>4, <1>5 DEF HistoryInv, HistoryOK, HistoryNext
<1>6. CASE index + d \in 0 .. Len(history) - 1
  <2>1. index' = index + d /\ line' = Cut[history'[Entry(index')]]
    BY <1>6 DEF HistoryNext
  <2>2. index' \in Nat /\ index' < Len(history') /\ Entry(index)' \in 1 .. Len(history')
    BY <2>1, <1>1, <1>4, <1>6 DEF Entry
  <2>3. history'[Len(history') - index'] \in Lines
    BY <2>2, <1>4, ElementOfSeq DEF Entry
  <2>4. Entry(index') = Len(history) - index'
    BY DEF Entry
  <2>5. line' \in Lines
    BY <2>1, <2>3, <2>4, <1>4, SessionAssumption
  <2> QED BY <2>2, <2>5, <1>1, <1>2, <1>4 DEF HistoryInv, HistoryOK
<1> QED BY <1>5, <1>6

LEMMA ExitOK == ASSUME HistoryInv, Exit \/ SaveAndExit PROVE HistoryInv'
<1>1. /\ pc' = "exited" /\ history' = << >> /\ UNCHANGED <<maxLen, line, index>>
  BY DEF Exit, SaveAndExit, AtExit, editVars
<1>2. unread' \in Seq(Piece)
  <2>1. CASE Exit
    BY <2>1, EmptySeq DEF Exit
  <2>2. CASE SaveAndExit
    BY <2>2, SavedOK DEF SaveAndExit, HistoryInv, HistoryOK
  <2> QED BY <2>1, <2>2
<1>3. /\ history' \in Seq(Lines) /\ Len(history') = 0
  BY <1>1, EmptySeq
<1> QED BY <1>1, <1>2, <1>3 DEF HistoryInv, HistoryOK

LEMMA StartOK == ASSUME HistoryInv, Start PROVE HistoryInv'
<1>1. /\ history = << >> /\ Len(history) = 0
  BY EmptySeq DEF HistoryInv, Start
<1> QED BY <1>1, SessionAssumption DEF HistoryInv, HistoryOK, Start, fileVars

LEMMA LoadOK == ASSUME HistoryInv, LoadLine PROVE HistoryInv'
<1>1. /\ unread \in Seq(Piece) /\ unread # << >> /\ pc' = "load"
      /\ history' = Added(history, Head(Head(unread)))
      /\ UNCHANGED <<maxLen, line, index>>
  BY DEF HistoryInv, HistoryOK, LoadLine, editVars
<1>2. unread' \in Seq(Piece) /\ Head(Head(unread)) \in Lines
  BY <1>1, UnreadOK
<1>3. history' \in Seq(Lines) /\ Len(history') <= maxLen
  BY <1>1, <1>2, AddedOK DEF HistoryInv, HistoryOK
<1> QED BY <1>1, <1>2, <1>3 DEF HistoryInv, HistoryOK

LEMMA HistoryStep == ASSUME HistoryInv, [Next]_vars PROVE HistoryInv'
<1>1. ASSUME NEW l \in Lines, HistoryAdd(l) PROVE HistoryInv'
  <2>1. /\ history' = Added(history, l) /\ pc' = "program"
        /\ UNCHANGED <<maxLen, unread, line, index>>
    BY <1>1 DEF HistoryAdd, editVars, fileVars
  <2>2. history' \in Seq(Lines) /\ Len(history') <= maxLen
    BY <2>1, AddedOK DEF HistoryInv, HistoryOK
  <2> QED BY <2>1, <2>2 DEF HistoryInv, HistoryOK
<1>2. ASSUME NEW n \in MaxLens, HistorySetMaxLen(n) PROVE HistoryInv'
  <2>1. /\ history' = Latest(history, n) /\ maxLen' = n /\ pc' = "program"
        /\ UNCHANGED <<unread, line, index>> /\ n \in Nat \ {0}
    BY <1>2, SessionAssumption DEF HistorySetMaxLen, editVars, fileVars
  <2>2. history' \in Seq(Lines) /\ Len(history') <= n
    BY <2>1, LatestOK DEF HistoryInv, HistoryOK
  <2> QED BY <2>1, <2>2 DEF HistoryInv, HistoryOK
<1>3. ASSUME NEW f \in Files, HistoryLoad(f) PROVE HistoryInv'
  <2>1. f \in Piece
    BY SessionAssumption
  <2>2. <<f>> \in Seq(Piece)
    BY <2>1
  <2> QED BY <2>2, <1>3 DEF HistoryInv, HistoryOK, HistoryLoad, histVars, editVars
<1>4. LoadEnd \/ CallFails \/ CallUnsupported \/ UNCHANGED vars => HistoryInv'
  BY QuietOK
  DEF LoadEnd, CallFails, CallUnsupported, vars, histVars, editVars, fileVars
<1>5. KeyCodes \/ Quit \/ CallPipe \/ PipeEnd \/ PipeFails \/ PipeChar => HistoryInv'
  BY QuietOK
  DEF KeyCodes, Quit, CallPipe, PipeEnd, PipeFails, PipeChar, histVars, editVars, fileVars
<1> QED
  BY <1>1, <1>2, <1>3, <1>4, <1>5, LoadOK, CallOK, LeavesOK, EditOK, WalkOK, ExitOK,
     StartOK DEF Next

\* The history stays within its limit, and while a line is edited there is an entry
\* for it: the index linenoiseEditHistoryNext computes and the entry that Enter
\* frees exist, however the calls before have ended.
THEOREM HistoryInBounds == Spec => []HistoryOK
<1>1. Init => HistoryInv
  BY EmptySeq, SessionAssumption DEF Init, HistoryInv, HistoryOK
<1>2. HistoryInv => HistoryOK
  BY DEF HistoryInv
<1> QED BY <1>1, <1>2, HistoryStep, PTL DEF Spec

(* ---------------------- A walk through the history --------------------- *)

LEMMA NewestAdded ==
  ASSUME HistoryInv, NEW l \in Lines PROVE Newest(Added(history, l)) = l
<1>1. history \in Seq(Lines) /\ Len(history) \in Nat /\ maxLen \in Nat \ {0}
  BY LenProperties DEF HistoryInv, HistoryOK
<1>2. CASE history # << >> /\ Newest(history) = l
  BY <1>2 DEF Added
<1>3. CASE ~(history # << >> /\ Newest(history) = l)
  <2> DEFINE rest == IF Len(history) = maxLen THEN Tail(history) ELSE history
  <2>1. rest \in Seq(Lines)
    <3>1. Len(history) = maxLen => history # << >>
      BY <1>1, EmptySeq
    <3> QED BY <3>1, <1>1, TailOK
  <2>2. Added(history, l) = Append(rest, l)
    BY <1>3 DEF Added
  <2> HIDE DEF rest
  <2>3. Append(rest, l)[Len(Append(rest, l))] = l
    BY <2>1, AppendProperties
  <2> QED BY <2>2, <2>3 DEF Newest
<1> QED BY <1>2, <1>3

\* What the walk keeps: an entry differs from what the user left there by the cut
\* at most, and so does the line from its entry.
WalkInv ==
  /\ HistoryInv
  /\ pc = "edit" => lines \in Seq(Lines)
  /\ WalkKeepsLines

LEMMA CallWalk == ASSUME HistoryInv, Call PROVE WalkInv'
<1>1. /\ history' = Added(history, Empty) /\ lines' = history'
      /\ line' = Empty /\ index' = 0 /\ pc' = "edit"
  BY DEF Call
<1>2. HistoryInv' /\ history' \in Seq(Lines) /\ Len(history') \in Nat
  BY CallOK, LenProperties DEF HistoryInv, HistoryOK
<1>3. Entry(index)' = Len(history')
  BY <1>1, <1>2 DEF Entry
<1>4. lines'[Len(history')] = Empty
  BY <1>1, NewestAdded, SessionAssumption DEF Newest
<1> QED BY <1>1, <1>2, <1>3, <1>4 DEF WalkInv, WalkKeepsLines

LEMMA EditWalk == ASSUME WalkInv, NEW l \in Lines, Edit(l) PROVE WalkInv'
<1>1. /\ pc = "edit" /\ pc' = pc /\ line' = l /\ UNCHANGED <<history, index>>
      /\ lines' = [lines EXCEPT ![Entry(index)] = l]
      /\ HistoryInv /\ HistoryInv'
  BY EditOK DEF Edit, histVars, WalkInv
<1>2. /\ lines \in Seq(Lines) /\ Len(lines) = Len(history)
      /\ Entry(index) \in 1 .. Len(lines) /\ Entry(index)' = Entry(index)
      /\ \A e \in 1 .. Len(history) : e # Entry(index) => Cut[history[e]] = Cut[lines[e]]
  <2>1. Len(history) \in Nat /\ index \in Nat /\ index < Len(history)
    BY <1>1, LenProperties DEF HistoryInv, HistoryOK
  <2> QED BY <2>1, <1>1 DEF WalkInv, WalkKeepsLines, Entry
<1>3. /\ lines' \in Seq(Lines) /\ Len(lines') = Len(lines)
      /\ \A e \in 1 .. Len(lines) : lines'[e] = IF e = Entry(index) THEN l ELSE lines[e]
  BY <1>1, <1>2, ExceptSeq
<1> QED BY <1>1, <1>2, <1>3 DEF WalkInv, WalkKeepsLines

LEMMA NextWalk == ASSUME WalkInv, NEW d \in {-1, 1}, HistoryNext(d) PROVE WalkInv'
<1>1. /\ pc = "edit" /\ pc' = pc /\ UNCHANGED lines
      /\ history' = [history EXCEPT ![Entry(index)] = line]
      /\ HistoryInv /\ HistoryInv'
  BY WalkOK DEF HistoryNext, WalkInv
<1>2. /\ history \in Seq(Lines) /\ line \in Lines /\ lines \in Seq(Lines)
      /\ Len(lines) = Len(history) /\ Len(history) \in Nat
      /\ index \in Nat /\ index < Len(history)
      /\ Cut[line] = Cut[lines[Entry(index)]]
      /\ \A e \in 1 .. Len(history) : e # Entry(index) => Cut[history[e]] = Cut[lines[e]]
  BY <1>1, LenProperties DEF HistoryInv, HistoryOK, WalkInv, WalkKeepsLines
<1>3. Entry(index) \in 1 .. Len(history)
  BY <1>2 DEF Entry
<1>4. /\ history' \in Seq(Lines) /\ Len(history') = Len(history)
      /\ \A e \in 1 .. Len(history) : history'[e] = IF e = Entry(index) THEN line
                                                   ELSE history[e]
  BY <1>1, <1>2, <1>3, ExceptSeq
\* Whatever the entry, it is now what the user left in it.
<1>5. \A e \in 1 .. Len(history) : Cut[history'[e]] = Cut[lines[e]]
  BY <1>2, <1>4
<1>6. CASE index + d \notin 0 .. Len(history) - 1
  <2>1. UNCHANGED <<index, line>> /\ Entry(index)' = Entry(index)
    BY <1>4, <1>6 DEF HistoryNext, Entry
  <2> QED BY <2>1, <1>1, <1>2, <1>4, <1>5 DEF WalkInv, WalkKeepsLines
<1>7. CASE index + d \in 0 .. Len(history) - 1
  <2>1. index' = index + d /\ line' = Cut[history'[Entry(index')]]
    BY <1>7 DEF HistoryNext
  <2>2. /\ Entry(index)' = Entry(index') /\ Entry(index') \in 1 .. Len(history)
    BY <2>1, <1>2, <1>4, <1>7 DEF Entry
  <2>3. history'[Entry(index')] \in Lines
    BY <2>2, <1>4, ElementOfSeq
  <2>4. Cut[line'] = Cut[lines[Entry(index')]]
    BY <2>1, <2>2, <2>3, <1>5, SessionAssumption
  <2> QED BY <2>2, <2>4, <1>1, <1>2, <1>4, <1>5 DEF WalkInv, WalkKeepsLines
<1> QED BY <1>6, <1>7

\* The other steps of the program are not in linenoiseEdit, or leave it.
LEMMA WalkStep == ASSUME WalkInv, [Next]_vars PROVE WalkInv'
<1>1. HistoryInv /\ HistoryInv'
  BY HistoryStep DEF WalkInv
<1>2. pc' # "edit" => WalkInv'
  BY <1>1 DEF WalkInv, WalkKeepsLines
<1>3. UNCHANGED vars => WalkInv'
  BY <1>1 DEF WalkInv, WalkKeepsLines, Entry, vars, histVars, editVars
<1>4. /\ \A l : ~HistoryAdd(l) \/ pc' # "edit"
      /\ \A n : ~HistorySetMaxLen(n) \/ pc' # "edit"
      /\ \A f : ~HistoryLoad(f) \/ pc' # "edit"
  BY DEF HistoryAdd, HistorySetMaxLen, HistoryLoad
<1>5. LoadLine \/ LoadEnd \/ CallFails \/ CallUnsupported => pc' # "edit"
  BY DEF LoadLine, LoadEnd, CallFails, CallUnsupported
<1>6. Enter \/ CtrlD \/ CtrlC \/ WriteFails \/ ReadFails => pc' # "edit"
  BY DEF Enter, CtrlD, CtrlC, WriteFails, ReadFails, Leave
<1>7. KeyCodes \/ Quit \/ CallPipe \/ PipeChar \/ PipeEnd \/ PipeFails => pc' # "edit"
  BY DEF KeyCodes, Quit, CallPipe, PipeChar, PipeEnd, PipeFails
<1>8. Exit \/ SaveAndExit \/ Start => pc' # "edit"
  BY DEF Exit, SaveAndExit, AtExit, Start
<1> QED
  BY <1>1, <1>2, <1>3, <1>4, <1>5, <1>6, <1>7, <1>8, CallWalk, EditWalk, NextWalk DEF Next

\* linenoiseEditHistoryNext loses nothing the user has typed: every entry he comes
\* back to is as he left it, but for a last character that did not fit.
THEOREM WalksKeepLines == Spec => []WalkKeepsLines
<1>1. Init => WalkInv
  BY EmptySeq, SessionAssumption DEF Init, WalkInv, WalkKeepsLines, HistoryInv, HistoryOK
<1>2. WalkInv => WalkKeepsLines
  BY DEF WalkInv
<1> QED BY <1>1, <1>2, WalkStep, PTL DEF Spec

(* ---------------------- A call and the history ------------------------- *)

\* Until the user walks, the history is what the call began with, and the entry of
\* the line.
CallInv ==
  pc = "edit" /\ before # None =>
    /\ before \in Seq(Lines) /\ Len(before) <= maxLen
    /\ history = IF before # << >> /\ Newest(before) = Empty THEN before
                 ELSE Append(IF Len(before) = maxLen THEN Tail(before) ELSE before, Empty)

LEMMA CallStep == ASSUME HistoryInv, CallInv, [Next]_vars PROVE CallInv'
<1>1. Call => CallInv'
  BY DEF Call, CallInv, HistoryInv, HistoryOK, Added
<1>2. \A l : Edit(l) => CallInv'
  BY DEF Edit, CallInv, histVars
<1>3. \A d : HistoryNext(d) => CallInv'
  BY DEF HistoryNext, CallInv
<1>4. UNCHANGED vars => CallInv'
  BY DEF CallInv, vars, histVars, editVars
<1>5. pc' # "edit" => CallInv'
  BY DEF CallInv
<1>6. [Next]_vars => \/ Call \/ UNCHANGED vars \/ pc' # "edit"
                     \/ \E l \in Lines : Edit(l)
                     \/ \E d \in {-1, 1} : HistoryNext(d)
  BY DEF Next, HistoryAdd, HistorySetMaxLen, HistoryLoad, LoadLine, LoadEnd, CallFails,
     CallUnsupported, Enter, CtrlD, CtrlC, WriteFails, ReadFails, Leave, KeyCodes, Quit,
     CallPipe, PipeChar, PipeEnd, PipeFails, Exit, SaveAndExit, AtExit, Start
<1> QED BY <1>1, <1>2, <1>3, <1>4, <1>5, <1>6

LEMMA FrontAppend ==
  ASSUME NEW h \in Seq(Lines), NEW l \in Lines PROVE Front(Append(h, l)) = h
<1> DEFINE s == Append(h, l)
<1>1. /\ Len(h) \in Nat /\ s \in Seq(Lines) /\ Len(s) = Len(h) + 1
      /\ \A k \in 1 .. Len(h) : s[k] = h[k]
  BY AppendProperties, LenProperties
<1> HIDE DEF s
<1>2. \A k \in 1 .. Len(h) : s[k] \in Lines
  BY <1>1, ElementOfSeq
<1>3. /\ SubSeq(s, 1, Len(h)) \in Seq(Lines)
      /\ Len(SubSeq(s, 1, Len(h))) = IF 1 <= Len(h) THEN Len(h) - 1 + 1 ELSE 0
      /\ \A k \in 1 .. Len(h) - 1 + 1 : SubSeq(s, 1, Len(h))[k] = s[1 + k - 1]
  BY <1>1, <1>2, SubSeqProperties
<1>4. Len(SubSeq(s, 1, Len(h))) = Len(h)
  BY <1>1, <1>3
<1>5. \A k \in 1 .. Len(h) : SubSeq(s, 1, Len(h))[k] = h[k]
  BY <1>1, <1>3
<1>6. SubSeq(s, 1, Len(h)) = h
  BY <1>3, <1>4, <1>5, SeqEqual
<1> QED BY <1>1, <1>6 DEF Front, s

LEMMA AppendFront ==
  ASSUME NEW h \in Seq(Lines), h # << >> PROVE h = Append(Front(h), Newest(h))
<1>1. Len(h) \in Nat /\ Len(h) > 0
  BY EmptySeq, LenProperties
<1>2. /\ Front(h) \in Seq(Lines) /\ Len(Front(h)) = Len(h) - 1
      /\ Newest(h) \in Lines
  BY <1>1, FrontOK, ElementOfSeq DEF Newest
<1>3. \A k \in 1 .. Len(h) - 1 : Front(h)[k] = h[k]
  <2>1. \A k \in 1 .. Len(h) - 1 : h[k] \in Lines
    BY <1>1, ElementOfSeq
  <2>2. \A k \in 1 .. (Len(h) - 1) - 1 + 1 : SubSeq(h, 1, Len(h) - 1)[k] = h[1 + k - 1]
    BY <1>1, <2>1, SubSeqProperties
  <2> QED BY <1>1, <2>2 DEF Front
<1> DEFINE s == Append(Front(h), Newest(h))
<1>4. /\ s \in Seq(Lines) /\ Len(s) = Len(h)
      /\ \A k \in 1 .. Len(h) - 1 : s[k] = Front(h)[k]
      /\ s[Len(h)] = Newest(h)
  BY <1>1, <1>2, AppendProperties
<1> HIDE DEF s
<1>5. \A k \in 1 .. Len(h) : h[k] = s[k]
  BY <1>1, <1>3, <1>4 DEF Newest
<1>6. h = s
  BY <1>4, <1>5, SeqEqual
<1> QED BY <1>6 DEF s

\* The oldest goes: all but the first are the latest but one.
LEMMA TailIsLatest ==
  ASSUME NEW h \in Seq(Lines), h # << >> PROVE Latest(h, Len(h) - 1) = Tail(h)
<1>1. Len(h) \in Nat /\ Len(h) > 0
  BY EmptySeq, LenProperties
<1>2. (IF Len(h) > Len(h) - 1 THEN Len(h) - (Len(h) - 1) ELSE 0) + 1 = 2
  BY <1>1
<1>3. /\ Tail(h) \in Seq(Lines) /\ Len(Tail(h)) = Len(h) - 1
      /\ \A k \in 1 .. Len(Tail(h)) : Tail(h)[k] = h[k + 1]
  BY HeadTailProperties
<1>4. \A k \in 2 .. Len(h) : h[k] \in Lines
  BY <1>1, ElementOfSeq
<1>5. /\ SubSeq(h, 2, Len(h)) \in Seq(Lines)
      /\ Len(SubSeq(h, 2, Len(h))) = IF 2 <= Len(h) THEN Len(h) - 2 + 1 ELSE 0
      /\ \A k \in 1 .. Len(h) - 2 + 1 : SubSeq(h, 2, Len(h))[k] = h[2 + k - 1]
  BY <1>1, <1>4, SubSeqProperties
<1>6. Len(SubSeq(h, 2, Len(h))) = Len(Tail(h))
  BY <1>1, <1>3, <1>5
<1>7. \A k \in 1 .. Len(Tail(h)) : SubSeq(h, 2, Len(h))[k] = Tail(h)[k]
  BY <1>1, <1>3, <1>5
<1>8. SubSeq(h, 2, Len(h)) = Tail(h)
  BY <1>3, <1>5, <1>6, <1>7, SeqEqual
<1> QED BY <1>2, <1>8 DEF Latest

\* A way out keeps the history or takes its newest entry off.
LEMMA LeavesHistory ==
  ASSUME pc = "edit", pc' = "program", [Next]_vars
  PROVE  history' \in {history, Front(history)} /\ UNCHANGED maxLen
BY DEF Next, HistoryAdd, HistorySetMaxLen, HistoryLoad, LoadLine, LoadEnd, Call, CallFails,
   CallUnsupported, Enter, CtrlD, CtrlC, WriteFails, ReadFails, Leave, Edit, HistoryNext,
   KeyCodes, Quit, CallPipe, PipeChar, PipeEnd, PipeFails, Exit, SaveAndExit, AtExit, Start,
   vars, histVars

\* linenoiseEdit gives the history back as it found it, whichever of its ways out it
\* takes: the entry it puts in for its line costs the program the oldest entry of a
\* full history at most, and all it can leave behind, or take with it, is an empty one.
THEOREM CallsKeepHistory == Spec => CallKeepsHistory
<1> DEFINE Kept ==
      LET kept == IF Len(before) < maxLen THEN {before}
                  ELSE {before, Latest(before, Len(before) - 1)}
      IN  \/ history' \in kept \cup {Append(h, Empty) : h \in kept}
          \/ before = Append(history', Empty)
<1>1. Init => HistoryInv /\ CallInv
  BY EmptySeq, SessionAssumption DEF Init, HistoryInv, HistoryOK, CallInv
<1>2. ASSUME HistoryInv, CallInv, [Next]_vars, pc = "edit", pc' = "program", before # None
      PROVE  Kept
  <2>1. /\ before \in Seq(Lines) /\ Len(before) <= maxLen /\ Len(before) \in Nat
        /\ maxLen \in Nat \ {0} /\ Empty \in Lines
        /\ history' \in {history, Front(history)}
    BY <1>2, LenProperties, LeavesHistory, SessionAssumption
    DEF HistoryInv, HistoryOK, CallInv
  <2>2. CASE before # << >> /\ Newest(before) = Empty
    <3>1. history = before
      BY <1>2, <2>2 DEF CallInv
    <3>2. before = Append(Front(before), Empty)
      BY <2>1, <2>2, AppendFront
    <3>3. CASE history' = history
      BY <3>1, <3>3
    <3>4. CASE history' = Front(history)
      BY <3>1, <3>2, <3>4
    <3> QED BY <2>1, <3>3, <3>4
  <2>3. CASE ~(before # << >> /\ Newest(before) = Empty) /\ Len(before) # maxLen
    <3>1. history = Append(before, Empty)
      BY <1>2, <2>3 DEF CallInv
    <3>2. history' \in {before, Append(before, Empty)}
      BY <2>1, <3>1, FrontAppend
    <3> QED BY <3>2
  <2>4. CASE ~(before # << >> /\ Newest(before) = Empty) /\ Len(before) = maxLen
    <3> DEFINE rest == Latest(before, Len(before) - 1)
    <3>1. before # << >> /\ ~(Len(before) < maxLen)
      BY <2>1, <2>4, EmptySeq
    <3>2. rest = Tail(before) /\ Tail(before) \in Seq(Lines)
      BY <2>1, <3>1, TailIsLatest, TailOK
    <3> HIDE DEF rest
    <3>3. history = Append(rest, Empty)
      BY <1>2, <2>4, <3>2 DEF CallInv
    <3>4. history' \in {rest, Append(rest, Empty)}
      BY <2>1, <3>2, <3>3, FrontAppend
    <3> QED BY <3>1, <3>4 DEF rest
  <2> QED BY <2>2, <2>3, <2>4
<1>3. HistoryInv /\ CallInv /\ [Next]_vars
        => [pc = "edit" /\ pc' = "program" /\ before # None => Kept]_vars
  BY <1>2
<1>4. HistoryInv /\ CallInv /\ [Next]_vars => HistoryInv' /\ CallInv'
  BY HistoryStep, CallStep
<1> QED BY <1>1, <1>3, <1>4, PTL DEF Spec, CallKeepsHistory

(* -------------------- A history saved and loaded ----------------------- *)

\* While the program that was started again loads what it has saved, the history and
\* the rest of the file make up the saved one.
LoadInv ==
  saved # None =>
    /\ saved \in Seq(Lines) /\ pc \in {"exited", "load"}
    /\ pc = "exited" => unread = Saved(saved)
    /\ pc = "load" => maxLen = DefaultMax
    /\ pc = "load" /\ Storable(saved) /\ Len(saved) <= DefaultMax =>
         /\ Len(saved) = Len(history) + Len(unread)
         /\ \A e \in 1 .. Len(history) : history[e] = saved[e]
         /\ \A e \in 1 .. Len(unread) : unread[e] = <<saved[Len(history) + e]>>

LEMMA StartLoads == ASSUME HistoryInv, LoadInv, Start PROVE LoadInv'
<1>1. /\ pc = "exited" /\ pc' = "load" /\ maxLen' = DefaultMax
      /\ UNCHANGED <<history, unread, saved>> /\ history = << >> /\ Len(history) = 0
  BY EmptySeq DEF Start, fileVars, HistoryInv
<1>2. ASSUME saved # None, Storable(saved)
      PROVE  /\ Len(saved) = Len(unread)
             /\ \A e \in 1 .. Len(unread) : unread[e] = <<saved[e]>>
  <2>1. Len(saved) \in Nat /\ unread = [e \in 1 .. Len(saved) |-> InFile[saved[e]]]
    BY <1>1, <1>2, LenProperties DEF LoadInv, Saved
  <2>2. unread \in Seq(Piece) /\ Len(unread) = Len(saved)
    BY <2>1, LenProperties DEF HistoryInv, HistoryOK
  <2> QED BY <1>2, <2>1, <2>2 DEF Storable
<1> QED BY <1>1, <1>2 DEF LoadInv

LEMMA LineLoads == ASSUME HistoryInv, LoadInv, LoadLine PROVE LoadInv'
<1>1. /\ pc = "load" /\ pc' = pc /\ unread # << >> /\ UNCHANGED <<maxLen, saved>>
      /\ history' = Added(history, Head(Head(unread)))
      /\ unread' = IF Len(Head(unread)) = 1 THEN Tail(unread)
                   ELSE [unread EXCEPT ![1] = Tail(Head(unread))]
      /\ unread \in Seq(Piece) /\ history \in Seq(Lines)
      /\ Len(unread) \in Nat \ {0} /\ Len(history) \in Nat
  BY EmptySeq, LenProperties DEF LoadLine, HistoryInv, HistoryOK
<1>2. SUFFICES ASSUME saved # None, Storable(saved), Len(saved) <= DefaultMax
               PROVE  /\ Len(saved) = Len(history') + Len(unread')
                      /\ \A e \in 1 .. Len(history') : history'[e] = saved[e]
                      /\ \A e \in 1 .. Len(unread') :
                           unread'[e] = <<saved[Len(history') + e]>>
  BY <1>1 DEF LoadInv
<1> DEFINE n == Len(history)
           l == saved[n + 1]
<1>3. /\ saved \in Seq(Lines) /\ Len(saved) = n + Len(unread) /\ maxLen = DefaultMax
      /\ \A e \in 1 .. n : history[e] = saved[e]
      /\ \A e \in 1 .. Len(unread) : unread[e] = <<saved[n + e]>>
  BY <1>1, <1>2 DEF LoadInv
<1>4. Head(unread) = <<l>> /\ l \in Lines
  <2>1. unread[1] = <<saved[n + 1]>> /\ Head(unread) = unread[1]
    BY <1>1, <1>3, HeadTailProperties
  <2>2. saved[n + 1] \in Lines
    BY <1>1, <1>3, ElementOfSeq
  <2> QED BY <2>1, <2>2
<1> HIDE DEF l
<1>5. unread' = Tail(unread) /\ history' = Added(history, l)
  <2>1. Len(<<l>>) = 1 /\ Head(<<l>>) = l
    OBVIOUS
  <2> QED BY <1>1, <1>4, <2>1
\* It differs from the newest entry, and there is room.
<1>6. history' = Append(history, l)
  <2>1. history # << >> => Newest(history) # l
    <3> SUFFICES ASSUME history # << >> PROVE history[n] # saved[n + 1]
      BY DEF Newest, l
    <3>1. n \in 1 .. n /\ n \in 1 .. Len(saved) - 1
      <4>1. n > 0
        BY <1>1, EmptySeq
      <4> QED BY <1>1, <1>3, <4>1
    <3>2. saved[n] # saved[n + 1]
      BY <1>2, <3>1 DEF Storable
    <3>3. history[n] = saved[n]
      BY <1>3, <3>1
    <3> QED BY <3>2, <3>3
  <2>2. Len(history) # maxLen
    BY <1>1, <1>2, <1>3, SessionAssumption
  <2> QED BY <1>5, <2>1, <2>2 DEF Added
<1> HIDE DEF n
<1>7. /\ Len(history') = n + 1 /\ history'[n + 1] = l
      /\ \A e \in 1 .. n : history'[e] = history[e]
  BY <1>1, <1>4, <1>6, AppendProperties DEF n
<1>8. /\ Len(Tail(unread)) = Len(unread) - 1
      /\ \A e \in 1 .. Len(unread) - 1 : Tail(unread)[e] = unread[e + 1]
  BY <1>1, HeadTailProperties
<1>9. n \in Nat
  BY <1>1 DEF n
<1>10. Len(saved) = Len(history') + Len(unread')
  <2>1. Len(unread') = Len(unread) - 1 /\ Len(unread) \in Nat
    BY <1>1, <1>5, <1>8
  <2> QED BY <2>1, <1>3, <1>7, <1>9
<1>11. \A e \in 1 .. n + 1 : history'[e] = saved[e]
  BY <1>3, <1>7, <1>9 DEF l
<1>12. ASSUME NEW e \in 1 .. Len(unread) - 1
       PROVE  unread'[e] = <<saved[(n + 1) + e]>>
  <2>1. e + 1 \in 1 .. Len(unread) /\ n + (e + 1) = (n + 1) + e
    BY <1>1, <1>9
  <2>2. unread'[e] = unread[e + 1]
    BY <1>5, <1>8
  <2> QED BY <1>3, <2>1, <2>2
<1> QED BY <1>5, <1>7, <1>8, <1>10, <1>11, <1>12

LEMMA LoadStep == ASSUME HistoryInv, LoadInv, [Next]_vars PROVE LoadInv'
<1>1. SaveAndExit => LoadInv'
  BY DEF SaveAndExit, AtExit, LoadInv, HistoryInv, HistoryOK
<1>2. saved' = None => LoadInv'
  BY DEF LoadInv
<1>3. UNCHANGED vars => LoadInv'
  BY DEF LoadInv, vars, histVars, fileVars
\* Between the program's start and its exit nothing is kept of the file.
<1>4. ASSUME pc \notin {"exited", "load"}, Next
      PROVE  SaveAndExit \/ saved' = None
  <2>1. saved = None
    BY <1>4 DEF LoadInv
  <2> QED
    BY <1>4, <2>1
    DEF Next, HistoryAdd, HistorySetMaxLen, HistoryLoad, LoadLine, LoadEnd, Call, CallFails,
        CallUnsupported, Enter, CtrlD, CtrlC, WriteFails, ReadFails, Leave, Edit, HistoryNext,
        KeyCodes, Quit, CallPipe, PipeChar, PipeEnd, PipeFails, Exit, Start, fileVars
<1>5. ASSUME pc \in {"exited", "load"}, Next
      PROVE  LoadLine \/ Start \/ saved' = None
  BY <1>5
  DEF Next, HistoryAdd, HistorySetMaxLen, HistoryLoad, LoadEnd, Call, CallFails,
      CallUnsupported, Enter, CtrlD, CtrlC, WriteFails, ReadFails, Edit, HistoryNext,
      KeyCodes, Quit, CallPipe, PipeChar, PipeEnd, PipeFails, Exit, SaveAndExit
<1> QED BY <1>1, <1>2, <1>3, <1>4, <1>5, StartLoads, LineLoads

\* The next program finds the history this one has saved: linenoiseHistoryLoad, which
\* adds the lines of the file to an empty history under the default limit, neither
\* drops nor reorders any that linenoiseHistorySave wrote.
THEOREM SavedHistoryComesBack == Spec => SavedComesBack
<1>1. Init => HistoryInv /\ LoadInv
  BY EmptySeq, SessionAssumption DEF Init, HistoryInv, HistoryOK, LoadInv
<1>2. ASSUME HistoryInv, LoadInv, LoadEnd, saved # None, Storable(saved),
             Len(saved) <= DefaultMax
      PROVE  history' = saved
  <2>1. /\ pc = "load" /\ unread = << >> /\ Len(unread) = 0 /\ UNCHANGED history
        /\ history \in Seq(Lines) /\ Len(history) \in Nat
    BY <1>2, EmptySeq, LenProperties DEF LoadEnd, histVars, HistoryInv, HistoryOK
  <2>2. /\ saved \in Seq(Lines) /\ Len(saved) = Len(history)
        /\ \A e \in 1 .. Len(history) : history[e] = saved[e]
    BY <1>2, <2>1 DEF LoadInv
  <2> QED BY <2>1, <2>2, SeqEqual
<1>3. HistoryInv /\ LoadInv /\ [Next]_vars
        => [LoadEnd /\ saved # None =>
              (Storable(saved) /\ Len(saved) <= DefaultMax => history' = saved)]_vars
  BY <1>2
<1>4. HistoryInv /\ LoadInv /\ [Next]_vars => HistoryInv' /\ LoadInv'
  BY HistoryStep, LoadStep
<1> QED BY <1>1, <1>3, <1>4, PTL DEF Spec, SavedComesBack

(* ------------------------------ Raw mode ------------------------------- *)

\* As long as the operating system has set every mode it was asked for, the terminal
\* is raw only inside a call, and then the mode to go back to is known and atexit
\* will go back to it.
TermInv ==
  ~restoreFailed =>
    IF pc \in {"edit", "keycodes"} THEN orig = "cooked" /\ rawmode /\ atExit
    ELSE term = "cooked" /\ ~rawmode

LEMMA TermQuiet ==
  ASSUME TermInv, UNCHANGED termVars,
         pc \in {"edit", "keycodes"} <=> pc' \in {"edit", "keycodes"}
  PROVE  TermInv'
BY DEF TermInv, termVars

LEMMA TermStep == ASSUME TermInv, [Next]_vars PROVE TermInv'
<1>1. /\ \A l : HistoryAdd(l) => TermInv'
      /\ \A n : HistorySetMaxLen(n) => TermInv'
      /\ \A f : HistoryLoad(f) => TermInv'
  BY TermQuiet DEF HistoryAdd, HistorySetMaxLen, HistoryLoad
<1>2. LoadLine \/ LoadEnd \/ CallUnsupported \/ UNCHANGED vars => TermInv'
  BY TermQuiet DEF LoadLine, LoadEnd, CallUnsupported, vars
<1>3. CallPipe \/ PipeChar \/ PipeEnd \/ PipeFails => TermInv'
  BY TermQuiet DEF CallPipe, PipeChar, PipeEnd, PipeFails
<1>4. /\ \A l : Edit(l) => TermInv'
      /\ \A d : HistoryNext(d) => TermInv'
  BY TermQuiet DEF Edit, HistoryNext
<1>5. Call \/ CallFails \/ KeyCodes => TermInv'
  BY DEF TermInv, Call, CallFails, KeyCodes, RawModeOn, RawModeFails
<1>6. Enter \/ CtrlD \/ CtrlC \/ WriteFails \/ ReadFails \/ Quit => TermInv'
  BY DEF TermInv, Enter, CtrlD, CtrlC, WriteFails, ReadFails, Quit, Leave, DisableRawMode,
     termVars
<1>7. Exit \/ SaveAndExit => TermInv'
  BY DEF TermInv, Exit, SaveAndExit, AtExit, DisableRawMode, termVars
<1>8. Start => TermInv'
  BY DEF TermInv, Start
<1> QED BY <1>1, <1>2, <1>3, <1>4, <1>5, <1>6, <1>7, <1>8 DEF Next

\* The terminal is never left in raw mode, by whichever of its ways out a call ends
\* and whenever the program exits, unless tcsetattr has refused to set it back.
THEOREM TerminalIsRestored == Spec => []TerminalRestored
<1>1. Init => TermInv
  BY DEF Init, TermInv
<1>2. TermInv => TerminalRestored
  BY DEF TermInv, TerminalRestored
<1> QED BY <1>1, <1>2, TermStep, PTL DEF Spec

(* ------------------------- Lines from a pipe --------------------------- *)

\* The buffer of linenoiseNoTTY is never behind what has been read, and a call that
\* returned a line left room for its NUL.
PipeInv ==
  /\ size \in Nat /\ used \in Nat /\ used <= size
  /\ stdin # "pipe" => size = 0
  /\ pc \in {"edit", "keycodes"} => stdin # "pipe"
  /\ pc = "notty" => stdin = "pipe"
  /\ pc \in {"program", "load"} /\ size > 0 /\ result # None => used < size

LEMMA GrownOK ==
  ASSUME PipeInv PROVE Grown \in Nat /\ used < Grown
BY SessionAssumption DEF PipeInv, Grown

LEMMA PipeQuiet ==
  ASSUME PipeInv, UNCHANGED <<pipeVars, stdin>>,
         pc' \in {"edit", "keycodes"} => stdin # "pipe", pc' = "notty" => pc = "notty",
         \/ stdin # "pipe"
         \/ UNCHANGED result /\ (pc' \in {"program", "load"} => pc \in {"program", "load"})
         \/ result' = None
  PROVE  PipeInv'
BY DEF PipeInv, pipeVars

LEMMA PipeStep == ASSUME PipeInv, [Next]_vars PROVE PipeInv'
<1>1. /\ \A l : HistoryAdd(l) => PipeInv'
      /\ \A n : HistorySetMaxLen(n) => PipeInv'
      /\ \A f : HistoryLoad(f) => PipeInv'
  BY PipeQuiet DEF HistoryAdd, HistorySetMaxLen, HistoryLoad
<1>2. LoadLine \/ LoadEnd \/ UNCHANGED vars => PipeInv'
  BY PipeQuiet DEF LoadLine, LoadEnd, vars, PipeInv
<1>3. Call \/ CallFails \/ CallUnsupported \/ KeyCodes => PipeInv'
  BY PipeQuiet DEF Call, CallFails, CallUnsupported, KeyCodes, RawModeOn, RawModeFails
<1>4. /\ \A l : Edit(l) => PipeInv'
      /\ \A d : HistoryNext(d) => PipeInv'
  BY PipeQuiet DEF Edit, HistoryNext, PipeInv
<1>5. Enter \/ CtrlD \/ CtrlC \/ WriteFails \/ ReadFails \/ Quit => PipeInv'
  BY PipeQuiet DEF Enter, CtrlD, CtrlC, WriteFails, ReadFails, Quit, Leave, PipeInv
<1>6. Exit \/ SaveAndExit => PipeInv'
  BY DEF Exit, SaveAndExit, AtExit, PipeInv, pipeVars
<1>7. Start => PipeInv'
  BY DEF Start, PipeInv
<1>8. CallPipe => PipeInv'
  BY DEF CallPipe, PipeInv
<1>9. PipeChar \/ PipeEnd \/ PipeFails => PipeInv'
  BY GrownOK, SessionAssumption DEF PipeChar, PipeEnd, PipeFails, PipeInv, pipeVars
<1> QED
  BY <1>1, <1>2, <1>3, <1>4, <1>5, <1>6, <1>7, <1>8, <1>9 DEF Next

\* linenoiseNoTTY doubles its buffer in time: a line of any length that it returns
\* has room for its NUL.
THEOREM PipeLineFits == Spec => []RoomForNul
<1>1. Init => PipeInv
  BY DEF Init, PipeInv
<1>2. PipeInv => RoomForNul
  BY DEF PipeInv, RoomForNul
<1> QED BY <1>1, <1>2, PipeStep, PTL DEF Spec

=============================================================================
