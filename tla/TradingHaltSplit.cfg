SPECIFICATION HaltSpec
CONSTANTS
  Deployments = {d1, d2}
  NoDep = NoDep
  MaxOrders = 1
  MaxOps = 2
  MaxEvents = 2
PROPERTIES
  HaltsRefuse
CHECK_DEADLOCK FALSE
