SPECIFICATION SourcesSpec
CONSTANTS
  Pieces = {1, 2}
  Routes = {"r1", "r2"}
  MaxVersion = 2
  MaxEdits = 2
  MaxAttempts = 2
  MaxAsks = 2
  MaxHalts = 2
  MaxPrint = 2
  MaxRows = 2
  MaxDeaths = 1
  Tools = {"tool"}
  Stoppers = {"s1", "s2"}
  MaxTakes = 3
  Limit = 1
  MaxTurns = 2
  MaxRuns = 2
INVARIANTS
  FoldersHold
  FreeUnlessCrossed
PROPERTIES
  StopsKeepPieces
  StopEnds
CHECK_DEADLOCK FALSE
