SPECIFICATION FairSpec
CONSTANTS
    c1 = c1  c2 = c2  r1 = r1  r2 = r2
    Calls = {c1, c2}
    Requests = {r1, r2}
    MaxLen = 2  MaxTexts = 2  Lengths = {0, 2, 3}  MaxTime = 2
    Faults = {"db"}
INVARIANTS
    NoteUsesWholeCall
    ConversationInOrder
    ConversationIsStored
PROPERTIES
    NoteIsAnnounced
CHECK_DEADLOCK FALSE
