SPECIFICATION PassesSpec
CONSTANTS
  RunRows = {1, 2}
  LiveRows = {3, 4}
  Sample = {1}
  Doubled = {2}
  Width = 2
  MaxTries = 2
  MaxSweeps = 1
  MaxAttempts = 2
  MaxJobs = 2
  MaxHalts = 1
  GuestRows = {1, 2, 3}
  GuestSweeps = 3
  Budget = 2
  Questions = {1, 2}
  Requests = {1, 2, 3}
  Pipelines = {"agent", "single_shot"}
  None = None
  MaxReclaims = 1
  RunHalts = 2
CONSTRAINT HaltsOrRequests
INVARIANTS
  VerdictsHold
  GuestsHold
  RunHolds
PROPERTIES
  VerdictStands
  ReplacedIsTold
CHECK_DEADLOCK FALSE
