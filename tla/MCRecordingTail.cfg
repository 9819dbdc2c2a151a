SPECIFICATION Spec
CONSTANTS
    MaxFrames <- AgentSpeaks
    MaxBufferFrames = 2
    MinChunkFrames = 2
    Faults = {}
INVARIANTS
    FullTranscription
CHECK_DEADLOCK FALSE
