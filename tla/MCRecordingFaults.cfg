SPECIFICATION Spec
CONSTANTS
    MaxFrames <- OneFrame
    MaxBufferFrames = 1
    MinChunkFrames = 1
    Faults = {"device", "config", "status", "api", "upload"}
PROPERTIES
    ImplementsSession
CHECK_DEADLOCK FALSE
