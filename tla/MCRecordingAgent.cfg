SPECIFICATION Spec
CONSTANTS
    MaxFrames <- AgentSpeaks
    MaxBufferFrames = 2
    MinChunkFrames = 2
    Faults = {}
INVARIANTS
    TypeOK
    NoFrameVanishes
    AudioInOrder
    NotifyWaitsForThreads
    NotifyFindsTranscripts
    NewestStatusIsEndCall
CHECK_DEADLOCK FALSE
