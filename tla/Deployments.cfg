SPECIFICATION FairSpec
CONSTANTS
  Deps = {d1, d2}
  NoDep = NoDep
  Threads = {t1, t2}
  Window = 2
  MaxBar = 3
  MaxOps = 3
  MaxFaults = 1
INVARIANTS
  StatusAudited
  TradesAdvance
PROPERTIES
  PauseHolds
  Fed
  TornDown
CHECK_DEADLOCK FALSE
