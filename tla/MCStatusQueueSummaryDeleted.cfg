SPECIFICATION Spec
CONSTANTS
    p1 = p1  p2 = p2
    Pollers = {p1}
    MaxMsg = 3
    MaxSends = 4
    MaxSummaries = 1
INVARIANTS
    NewestKept
CHECK_DEADLOCK FALSE
