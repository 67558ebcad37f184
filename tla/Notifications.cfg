SPECIFICATION FairSpec
CONSTANTS
    p1 = p1
    p2 = p2
    Procs = {p1, p2}
    t1 = t1
    Testers = {t1}
    Teams = {{p1, p2}, {p1, t1}}
    None = None
    MaxRows = 2
    Limit = 1
    TestLimit = 1
    MaxAttempts = 2
    Days = 1
    MaxFaults = 1
INVARIANTS TypeOK SentWasSeen TwiceExplained OneSummary
PROPERTIES Drains
CHECK_DEADLOCK FALSE
