SPECIFICATION Spec
CONSTANTS
  x = x
  nl = nl
  sp = sp
  tab = tab
  Char <- MCChar
  NL = nl
  TAB = tab
  SPACE = sp
  Alnum = {x}
  Negative = {}
  Typed = {x, sp}
  Searches <- MCSearches
  Lines = 2
  Cols = 4
  TabSize = 8
  NoIndent = FALSE
  MaxFile = 2
  MaxText = 4
  MaxRecs = 3
  Sessions <- Everything
  Files <- MCFiles
INVARIANTS
  SelectionInText
CHECK_DEADLOCK FALSE
