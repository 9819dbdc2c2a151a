SPECIFICATION Spec
CONSTANTS
    MaxCalls = 2
    Mishaps <- AllMishaps
    Streams <- TwoCalls
    MaxBuffers <- Buffers
    Faults <- Failures
INVARIANTS
    TypeOK
    FlagMeansRecording
    AnnouncedIsStored
    BuffersInOrder
    OneStatusPerCall
CHECK_DEADLOCK FALSE
