SPECIFICATION MCSpec
CONSTANTS
  a = a
  b = b
  Char <- MCChar
  Bufs <- MCBufs
  Files <- MCFiles
  MaxText = 3
  MaxRecs = 2
  f = f
  g = g
  Contents = {0, 1}
  Empty = 0
  NoFile = NoFile
  NoName = NoName
  Names <- MCNames
  Args <- MCArgs
  MaxEds = 3
  MaxUntitled = 1
  Parts = {"undo", "env"}
INVARIANTS
  UndoListOK
  RingOK
PROPERTIES
  RefinesHistory
  NothingIsLost
  OpenIsUnique
CHECK_DEADLOCK FALSE
