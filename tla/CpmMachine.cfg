CONSTANTS
  Operands = {0, 1, 15, 85, 127, 128, 154, 255}
  Decimals = {0, 9, 16, 25, 80, 89, 145, 153}
  Words = {0, 1, 255, 256, 32767, 32768, 65535}
  Blocks <- MCBlocks
  Base = 256
  BiosFns = {b1, b2}
  NoFn = NoFn
  MaxSignals = 2
  MaxTyped = 4
  MaxSent = 5
  FifoSize = 4
  UnixNames = {"u", "v"}
  UnixFcbs = {f1, f2, f3}
  CpmFiles = 2
  MaxLength = 1
  MaxLeaks = 1
  Years <- MCYears
SPECIFICATION MCSpec
INVARIANTS InstructionsAreExact ImageIsRead HostAnswers
PROPERTIES NothingIsPassed NothingWaits
CHECK_DEADLOCK FALSE
