SPECIFICATION MCSpec
CONSTANTS
  x = x
  nl = nl
  sp = sp
  tab = tab
  Char <- MCChar
  NL = nl
  TAB = tab
  SPACE = sp
  Alnum = {x}
  Negative = {}
  Typed = {x}
  Searches <- MCSearches
  Lines = 2
  Cols = 4
  TabSize = 8
  NoIndent = FALSE
  MaxFile = 2
  MaxText = 3
  MaxRecs = 2
  Sessions <- Checked
  Files <- MCFiles
INVARIANTS
  LinesAreCounted
  FoundIsSelected
  DownThenUp
  CutThenPaste
  IndentThenUnindent
CHECK_DEADLOCK FALSE
