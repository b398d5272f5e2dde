SPECIFICATION Spec
CONSTANTS
    Cols = 2
    Rows = 2
    Step = 2
    Threshold = 20
    Pictures <- SmallPictures
    Corrupt = Corrupt
    Panels <- MCPanels
    MaxFrames = 3
    Faults = {}
    None = None
INVARIANT EveryEventHasASnapshot
