SPECIFICATION InstrumentSpec
CONSTANTS
  Files = {"a", "b"}
  Tools = {"t1", "t2"}
  MaxHops = 2
  MaxCalls = 2
  HopCalls = 2
  Restates = {FALSE}
  MaxCmpMoves = 1
  MaxCmpTries = 2
  MaxRows = 1
  MaxJobs = 3
  MaxAmiss = 1
  Books = {"book"}
  Sites = {"site"}
  MaxReleases = 1
  MaxOdd = 1
INVARIANT
  ConversionEndsAResidency
CHECK_DEADLOCK FALSE
