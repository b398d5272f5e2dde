SPECIFICATION FairSpec
CONSTANTS
    HeaderSize = 3
    PartHeaderSize = 2
    TrailerSize = 2
    BodySizes = {1, 4, 7}
    Window = 3
    MaxMessages = 4
INVARIANTS
    BytesInOrder
    CutShortForAReason
PROPERTY
    ReaderIsServed
