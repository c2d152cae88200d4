\* One round of knobs allowed, two knobs turned around two onboardings.
SPECIFICATION KnSpec
CONSTANTS
  Limit = 1
  MaxTurns = 2
  MaxRuns = 2
INVARIANTS
  RoundsAreBounded
CHECK_DEADLOCK FALSE
