\* Two engines, two doors or closers of each kind, two embedders; one fault or death.
SPECIFICATION StandSpec
CONSTANTS
  Engines = {"e1", "e2"}
  Seeded = "e1"
  MaxAttempts = 2
  MaxPulls = 3
  MaxKeys = 2
  MaxHalts = 1
  Seatable = {"m1", "m2", "m3"}
  Askers = {"d1", "d2"}
  MaxChoices = 2
  Urls = {"u1", "u2"}
  Probers = {"io", "door"}
  MaxPuts = 2
  Runs = {"r1", "r2"}
  Closers = {"c1", "c2"}
  Embedders = {"b1", "b2"}
  Texts = {1, 2}
  Questions = {"q1", "q2"}
  MaxMoves = 2
  MaxEdits = 1
  MaxJobs = 3
  MaxSearches = 1
INVARIANTS
  RegistryHolds
  IntegrationsHold
  VectorsHold
PROPERTIES
  ChoicesStand
  PromiseStands
  CutsKeepTheirModel
CHECK_DEADLOCK FALSE
