SPECIFICATION FairSpec
CONSTANTS
    Clients = {c1, c2}
    Buffers = {b1}
    NumBlocks = 4
    MaxSeq = 0
    Requests = {"stream"}
    Continuous = TRUE
    FbPreview = TRUE
    Faults = {}
    None = None
PROPERTY
    RequestIsAccepted
CHECK_DEADLOCK FALSE
