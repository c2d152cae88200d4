SPECIFICATION FairSpec
CONSTANTS
  Exps = {x, y}
  Names = {a, b, c}
  Copied = {a, b}
  Swept = {c}
  Kinds = {"rejudge", "generation", "retrieval"}
  Requests = {1, 2, 3}
  None = None
  MaxSweeps = 1
  MaxReturns = 1
  MaxCuts = 1
INVARIANTS
  SeriesHolds
PROPERTIES
  StepsKeepTheSeries
  UnhurtIsReported
CHECK_DEADLOCK FALSE
