SPECIFICATION Spec
CONSTANTS
  a = a
  b = b
  Char = {a, b}
  Junk = Junk
  Nul = Nul
  MinText = 2
  MaxText = 5
  Bufs <- MCBufs
  Files <- MCFiles
INVARIANTS
  BufferOK
  ReadsSeeText
PROPERTIES
  RefinesText
  SearchSeesText
