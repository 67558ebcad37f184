SPECIFICATION FairSpec
CONSTANTS
  big = big
  small = small
  NumOrders = 2
  MaxBroker = 2
  Requests = {big}
  NoRequest = NoRequest
  Qty <- MCQty
  MaxAttempts = 2
  Faults = {"foreign"}
  MaxFaults = 1
INVARIANTS
  FillsNotInvented
  BooksAgree
PROPERTIES
  OrdersSettle
CHECK_DEADLOCK FALSE
