SPECIFICATION FairSpec
CONSTANTS
  Ids = {i1, i2}
  Expiries = {e}
  Worker = w
  Operators = {op}
  Near = {i1}
  None = None
INVARIANTS
  LegsFollowStatus
PROPERTIES
  EndedStays
  DueExits
CHECK_DEADLOCK FALSE
