SPECIFICATION FairSpec
CONSTANTS
    p1 = p1  p2 = p2
    Pollers = {p1, p2}
    MaxMsg = 3
    MaxSends = 5
    MaxSummaries = 2
INVARIANTS
    TypeOK
    NewestKeptForOneTab
PROPERTIES
    StatusNeverGoesBack
    CatchesUp
CHECK_DEADLOCK FALSE
