SPECIFICATION Spec
CONSTANTS
  stock = stock
  deriv = deriv
  low = 24001
  high = 48007
  Instruments = {stock, deriv}
  Kind <- MCKind
  Ids = {a, b, c}
  Prices = {24001, 48007}
  Asked <- MCAsked
  Openings = {120000}
  Deposits <- MCDeposits
  ChargeBps <- MCCharge
  MaxFunds = 120000
SYMMETRY Ordered
INVARIANTS
  ReconcileAgrees
  PnlExplained
  MarginFollowsLot
CHECK_DEADLOCK FALSE
