SPECIFICATION FairSpec
CONSTANTS
    Ideas <- MCIdeas
    Swing <- MCSwing
    Spreads <- MCSpreads
    SymOf <- MCSymOf
    DirsOf <- MCDirsOf
    PairOf <- MCPairOf
    Holding = "CNC"
    MaxOpen = 1
    Days = 2
    MaxFaults = 1
INVARIANTS CapHolds StopHasEntry LegsCovered
PROPERTIES ExpiredCloses
CHECK_DEADLOCK FALSE
