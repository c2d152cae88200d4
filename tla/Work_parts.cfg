\* Three rows on two threads with two waits; two shards, two pulls and two faults.
SPECIFICATION WorkSpec
CONSTANTS
  Rows = {"r1", "r2", "r3"}
  Threads = {"t1", "t2"}
  PaceTries = 2
  MaxTurns = 1
  Shards = {"s1", "s2"}
  Stray = "stray"
  MaxPulls = 2
  MaxFaults = 2
  Parts = {1, 2}
  MaxMoved = 2
  MaxRuns = 2
  MaxStops = 1
  MaxPages = 4
  MaxSize = 2
  Window = 1
  MaxCells = 1
  MaxPiece = 2
  Titles = {"plain", "numbered"}
  Captions = {"numbered"}
  Deepest = 3
  MaxRows = 3
  MaxLines = 5
  Ceilings = {2, 3}
  Sliver = 2
  Texts = {"t1", "t2"}
  MaxDocs = 3
  WideFiles = 2
  Sources = {"docs", "site", "book"}
  Bodies = {"b1", "b2"}
  MaxEdits = 1
  MaxIndexes = 2
INVARIANTS
  CallsHold
  TagHolds
  ConversionHolds
  TextIsKept
PROPERTIES
  FilesAreKept
CHECK_DEADLOCK FALSE
