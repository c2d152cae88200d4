\* A run and its judge: two attempts, a restart, a death, a refused write and one client;
\* two arms of a rejudge over two questions, one move of the stand meanwhile.
SPECIFICATION QueueSpec
CONSTANTS
  e1 = e1
  g1 = g1
  p1 = p1
  run1 = run1
  default = default
  io = io
  None = None
  NoRun = NoRun
  Jobs = {e1, g1, p1}
  Lanes = {default}
  LaneOf <- MCLaneOf
  Runs = {run1}
  RunOf <- MCRunOf
  EvalRuns = {e1}
  Judges = {g1}
  Rejudged = {}
  Queued <- MCQueued
  Clients = {c1}
  Delays = {1}
  MaxAttempts = 2
  MaxDeferred = 0
  MaxReclaims = 1
  MaxCrashes = 1
  MaxOutages = 1
  Questions = {1, 2}
  MaxArms = 2
  MaxRjMoves = 1
  MaxFails = 1
CONSTRAINT OneFault
INVARIANTS
  IInv
  HandlerOwnsRow
  EndIsTold
  RecordsHold
PROPERTIES
  CancelStands
  KeepsLifecycle
CHECK_DEADLOCK FALSE
