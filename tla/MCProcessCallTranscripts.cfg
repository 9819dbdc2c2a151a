SPECIFICATION Spec
CONSTANTS
    c1 = c1  c2 = c2  r1 = r1  r2 = r2
    Calls = {c1, c2}
    Requests = {r1, r2}
    MaxLen = 2  MaxTexts = 2  Lengths = {0, 2, 3}  MaxTime = 2
    Faults = {"storage", "download", "delete", "llm", "exception", "queue", "crash"}
SYMMETRY CallsAndRequests
INVARIANTS
    TypeOK
    TranscriptKept
    SummaryHasNote
CHECK_DEADLOCK FALSE
