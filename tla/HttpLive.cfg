SPECIFICATION CaptureSpec
CONSTANTS
    Clients = {c1, c2}
    Buffers = {b1}
    NumBlocks = 4
    MaxSeq = 2
    Requests = {"stream"}
    Continuous = TRUE
    FbPreview = TRUE
    Faults = {"driver"}
    None = None
PROPERTIES
    CaptureNeverBlocked
    ShutdownCompletes
    NewFrameIsSent
    StopReachesClients
CHECK_DEADLOCK FALSE
