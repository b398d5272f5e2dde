SPECIFICATION Spec
CONSTANTS
    Clients = {c1, c2}
    Buffers = {b1, b2}
    NumBlocks = 4
    MaxSeq = 2
    Requests = {"stream"}
    Continuous = TRUE
    FbPreview = TRUE
    Faults = {}
    None = None
INVARIANT
    ClosingOneLeavesOthers
