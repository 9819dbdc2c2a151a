SPECIFICATION FairSpec
CONSTANTS
    MaxCalls = 2
    MaxRating = 1
    MaxPosts = 2
    MaxReloads = 1
    Faults = {"status", "fetch", "insert", "empty", "feedback", "slow", "long", "hour"}
INVARIANTS
    TypeOK
    FinishedIsHidden
    FeedbackForShownNote
    RatingKept
    NotUsedKept
PROPERTIES
    NoteNotOlder
    SummaryIsFetched
CHECK_DEADLOCK FALSE
