\* Turns at the card's gate with the bootstrap beside them, and turns in the card's lane, under fairness.
SPECIFICATION LaneSpec
CONSTANTS
  o1 = o1
  v1 = v1
  k1 = k1
  t1 = t1
  t2 = t2
  t3 = t3
  Engines = {o1, v1}
  Eager = {o1}
  Vllms = {v1}
  Lanes = {default}
  CardLane = default
  Threads = {t1, t2, t3}
  LaneOf <- MCOneLane
  Doors = {}
  None = None
  MaxFaults = 1
  MaxDeaths = 0
  MaxBoots = 1
  Answers = {a1, a2}
  MaxLine = 3
  MaxHands = 1
  MaxReturns = 1
  h1 = h1
  h2 = h2
  run2 = run2
INVARIANTS
  StrandedOnlyWhereSkipped
PROPERTIES
  EngineGetsItsTurn
  EveryAnswerIsJudged
  EveryJobSettles
CHECK_DEADLOCK FALSE
