\* Three threads of one job, ollama, a vLLM and a converter, a door, one failure, one death.
SPECIFICATION Spec
SYMMETRY Symmetry
CONSTANTS
  o1 = o1
  v1 = v1
  k1 = k1
  t1 = t1
  t2 = t2
  t3 = t3
  Engines = {o1, v1, k1}
  Eager = {o1}
  Vllms = {v1}
  Lanes = {default}
  CardLane = default
  Threads = {t1, t2, t3}
  LaneOf <- MCOneLane
  Doors = {d1}
  None = None
  MaxFaults = 1
  MaxDeaths = 1
  MaxBoots = 1
CONSTRAINT BootIsAlone
INVARIANTS
  IInv
  AloneOnTheCard
PROPERTIES
  NeverSleptMidRequest
  KeepsTheGate
