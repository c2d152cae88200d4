SPECIFICATION VSpec
CONSTANTS
  Embedders = {"e1", "e2"}
  Texts = {1, 2}
  Questions = {"q1"}
  MaxMoves = 2
  MaxEdits = 1
  MaxJobs = 2
  MaxSearches = 1
INVARIANT OneGeometry
CHECK_DEADLOCK FALSE
