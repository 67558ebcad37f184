SPECIFICATION HaltFairSpec
CONSTANTS
  Deployments = {d1, d2}
  NoDep = NoDep
  MaxOrders = 2
  MaxOps = 2
  MaxEvents = 3
INVARIANTS
  HaltTypeOK
PROPERTIES
  LossHalts
  RecoveryFrees
CHECK_DEADLOCK FALSE
