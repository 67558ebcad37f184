SPECIFICATION FairSpec
CONSTANTS
    b1 = b1
    Baskets = {b1}
    Capital <- MCCapital
    Symbols = {1, 2}
    Rankings <- MCRankings
    Band = 40
    Loop = loop
    Requests = {r1}
    ProcOf <- MCOneProcess
    None = none
    Cash = 9
    Held <- MCHeld
    Periods = 3
    MaxCrashes = 2
INVARIANTS NoDoubleBuy ScheduledOnce
PROPERTY Cadence
CHECK_DEADLOCK FALSE
