\* A program that reads lines, adds lines to the history, saves, loads and limits
\* it, and is started again.
SPECIFICATION Spec
CONSTANTS
  empty = empty  a = a  full = full  cut = cut
  Lines = {empty, a, full, cut}
  Empty = empty
  Cut <- CutFull
  InFile <- FullInTwo
  Files <- SomeFiles
  MaxLens = {1, 2, 3}  DefaultMax = 3
  FirstSize = 1  MaxInput = 5
  None = None
INVARIANTS HistoryOK WalkKeepsLines TerminalRestored RoomForNul
PROPERTIES CallKeepsHistory SavedComesBack
