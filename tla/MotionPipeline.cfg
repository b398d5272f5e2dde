SPECIFICATION Spec
CONSTANTS
    Cols = 2
    Rows = 2
    Step = 2
    Threshold = 20
    Pictures <- SmallPictures
    Corrupt = Corrupt
    Panels <- MCPanels
    MaxFrames = 4
    Faults = {"malloc", "file"}
    None = None
INVARIANTS
    ComparesCameraPictures
    EventsAreRises
    LcdCountsEveryFrame
    LcdShowsThePicture
    EveryEventSavedOrReported
    BoxBoundsTheMask
