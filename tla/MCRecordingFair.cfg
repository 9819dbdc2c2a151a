SPECIFICATION FairSpec
CONSTANTS
    MaxFrames <- OneFrame
    MaxBufferFrames = 2
    MinChunkFrames = 2
    Faults = {"token", "client"}
PROPERTIES
    RemovedFlagLeadsToNotify
    TranscribersEnd
CHECK_DEADLOCK FALSE
