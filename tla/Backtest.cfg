SPECIFICATION ReplaySpec
CONSTANTS
    Universe = {x, y}
    Closes = {3, 6}
    Quantities = {1, 3, 5}
    Capital = 12
    CapGross = 20
    Slip = 1
    Charge = 1
    MaxBars = 4
    MaxOrders = 3
INVARIANTS CurveExplained CostsCarried LargestFits
CHECK_DEADLOCK FALSE
