SPECIFICATION FairSpec
CONSTANTS
    Capacity = 3
    Consumers = {c1, c2, c3}
    MaxPush = 7
    Empty = Empty
INVARIANTS
    RingConsistent
    EveryFrameHasOneOwner
    NoLostWakeup
PROPERTIES
    ImplementsFifo
    CloseEndsEveryPop
