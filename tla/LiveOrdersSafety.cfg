SPECIFICATION Spec
CONSTANTS
  big = big
  small = small
  NumOrders = 2
  MaxBroker = 2
  Requests = {big}
  NoRequest = NoRequest
  Qty <- MCQty
  MaxAttempts = 2
  Faults = {"crash", "dbfail", "foreign"}
  MaxFaults = 2
INVARIANTS
  TrackedIdsDistinct
  OmsReflectsBroker
PROPERTIES
  RowsRefined
CHECK_DEADLOCK FALSE
