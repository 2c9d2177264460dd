CONSTANTS
  MulBaseDigits = 4
  LongMax = 2047
  Terms <- MCTerms
  Factors <- MCFactors
  Dividends <- MCDividends
  Divisors <- MCDivisors
  Longs <- MCLongs
  Squares <- MCSquares
  Scales = {0, 1, 3}
  Bases = {2, 10, 16, 20}
  ScanTexts <- MCTexts
  ScanNumbers <- MCWritten
  LineSizes = {0, 3, 5}
  IdUses <- MCIdUses
  MathNames <- MCMathNames
  MaxStore = 9
  StoreIncr = 3
  NodeSize = 2
  NodeDepth = 3
  HeapBound = 9
  ElementWrites <- MCWrites
  ByteSize = 16
  VarNames = {4, 5, 7, 9, 20}
  ArrNames = {1, 2}
  DimMax = 4
  BaseMax = 40
  Kept = {7}
  Interrupted <- MCInterrupted
  Endless <- MCEndless
  Sessions <- MCSessions
SPECIFICATION MCSpec
INVARIANTS ArithmeticIsExact TextIsWhatIsMeant StorageIsKept LinesAreMeant
PROPERTIES EverythingStops
CHECK_DEADLOCK FALSE
