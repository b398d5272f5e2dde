SPECIFICATION Spec
CONSTANTS
    Clients = {c1, c2}
    Buffers = {b1, b2}
    NumBlocks = 4
    MaxSeq = 2
    Requests = {"stream", "snapshot"}
    Continuous = TRUE
    FbPreview = TRUE
    Faults = {"setup", "thread", "listen", "accept", "malloc", "driver"}
    None = None
SYMMETRY Symmetry
INVARIANTS
    TypeOK
    EveryCopyHasOneOwner
    SendsWhatItTook
    EverySocketHasOneOwner
    NoBufferLost
    SleepsOnlyIfNothingNew
    StreamEndsForAReason
    ServiceOutlivesCapture
    CountersAreExact
PROPERTY
    ImplementsFeed
