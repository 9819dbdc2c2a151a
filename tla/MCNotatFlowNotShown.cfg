SPECIFICATION Spec
CONSTANTS
    MaxCalls = 2
    MaxRating = 1
    MaxPosts = 1
    MaxReloads = 0
    Faults = {}
INVARIANTS
    GeneratedIsShown
CHECK_DEADLOCK FALSE
