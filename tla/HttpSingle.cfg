SPECIFICATION Spec
CONSTANTS
    Clients = {c1, c2}
    Buffers = {b1, b2}
    NumBlocks = 4
    MaxSeq = 2
    Requests = {"stream", "snapshot", "metrics", "other"}
    Continuous = FALSE
    FbPreview = TRUE
    Faults = {"setup", "thread", "listen", "accept", "malloc", "driver"}
    None = None
SYMMETRY Symmetry
INVARIANTS
    ServiceOutlivesClients
    CleanExit
