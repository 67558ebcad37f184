SPECIFICATION Spec
CONSTANTS
  Symbols = {x, y}
  Quantities <- MCQuantities
  Rates <- MCRates
  PerDay = 3
  DupWindow = 6
  MaxQty = 1
  MaxPos = 1
  MaxOpen = 1
  DayLength = 8
  Horizon = 9
  MaxSubmits = 4
  MaxCrashes = 1
INVARIANTS
  RateCap
  EqualOrdersApart
  PositionCaps
CHECK_DEADLOCK FALSE
