SPECIFICATION MCSpec
CONSTANTS
  e5 = e5
  mark = mark
  Zero = mark
  Unwritten = Unwritten
  Lost = Lost
  Data <- MCData
  Blank = e5
  Images <- MCImages
  MaxDiscs = 2
  NumHDiscs = 1
  HdSectors = 2
  HdTracks = 2
  FdSectors = 1
  FdTracks = 1
  Used = {0, 1}
  Names = {a, b}
  Addresses = {w1, w2}
  Free = Free
  Nobody = Nobody
  Closed = Closed
  Inodes = {1, 2}
  Streams = {f1, f2}
  TableSize = 2
  RecordSize = 2
  ExtentRecords = 2
  ExtentsOfEx = 2
  RandomRecords = 8
  Tidy = TRUE
  MaxBytes = 9
  RefusedBytes = 5
  SmallBytes = 2
  Parts = {"disk", "files"}
INVARIANT DrivesOK
PROPERTY DrivesAreKept
SYMMETRY Symmetric
