\* Lines of up to four characters on terminals of three and four columns, so that
\* they scroll through a row or run over three rows.
SPECIFICATION Spec
CONSTANTS
  Chars = {"x", " "}  Space = " "  NUL = NUL  BufLen = 4
  Rows = 5  FirstRow = 1  Columns = {3, 4}  PromptLens = {1, 2}  HintLens = {0, 2}
  Completions <- ShortCompletions
  HistoryLines <- SomeLines
  NoKey = NoKey
\* The line ends.
CHECK_DEADLOCK FALSE
INVARIANTS BufferOK ScreenOK OutputKept EnteredLineStays
PROPERTY ImplementsEditor
