CONSTANTS
  Rows = 4
  Cols = 20
  Compression = "spans"
  Windows = {0, 1, 7}
  ContextLines = 1
  MinPromptSpace = 10
  TextBufferSize = 200
  MaxNesting = 2
  ScriptCols = 12
  DefaultColours <- MCColours
  Transparent = FALSE
  Amiga = FALSE
  Texts <- MCTexts
  Inits <- MCInits
  Lines <- MCLinesOf
  Versions <- MCVersions
  Tables <- MCTables
  Widths <- MCWidths
  Names <- MCNames
  MemSize = 60
  MaxSteps <- MCMaxSteps
SPECIFICATION OutSpec
INVARIANTS TextIsShown NothingUnseen StreamsHoldText LooksAgree
PROPERTIES PrintsInWindow
CHECK_DEADLOCK FALSE
