SPECIFICATION MCSpec
CONSTANTS
  NumObjects = 3
  Layout <- MCLayout
  StoryId = "OTHER"
  AttrCalls <- MCAttrs
  PropCalls <- MCProps
  MathWords = {0, 1, 7, 10000, 32767, 32768, 65535, 65529}
  ShiftWords = {0, 1, 7, 15, 65535, 65521}
  Seeds = {0, 1, 3, 5, 1000}
  Ranges = {1, 2, 7}
  TableSize = 8
  CopySizes = {0, 1, 3, 5, 65533, 65531}
  ScanForms = {1, 2, 129, 130, 131}
  Names <- ObjectNames
  TextWords <- MCWords
  TextCodes <- MCCodes
  TextLines <- MCLines
  TokenMax = 3
  Leftovers <- MCLeftovers
  LowerCase <- MCLowerCase
  StackSize = 9
  Values = {0, 1}
  Variable <- MCVariable
  MaxArgs = 1
  MaxLocals = 1
  MaxEvals = 1
  MaxLoops = 1
  Short = 2
  Long = 2
  Cells <- MCCells
  Bytes <- MCBytes
  Flags = 1
  Regs = {r1, r2}
  UndoSlots = 2
  Stories <- MCStories
  Touched = {1, 6}
  Diffs <- MCDiffs
  MemDiff <- Diff
  MemUndiff <- Undiff
  CodeMemories <- MCCodeMemories
  CodeStack = 20
  CodeGlobals = 4
  CodeOffset = 1
  UserStack = 8
  UserSlots = 2
  Routines <- MCRoutines
  StartPc = 120
  Prologue <- MCPrologue
  Instructions <- MCInstructions
  CodeSteps = 2
  MaxRun = 3
  Dynamic = 16
  Refreshed = {2}
  Identity <- MCIdentity
  SavePlays <- MCSavePlays
  SaveSteps = 2
INVARIANTS
  UndoOK
  StackIsKept
  WordsAndTables
  ObjectsAreWhole
  InstructionsAreMeant
  TextIsReadBack
PROPERTIES
  IsUndo
  IsZStack
  ObjectsAreThings
CHECK_DEADLOCK FALSE
