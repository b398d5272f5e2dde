SPECIFICATION Spec
CONSTANTS
    Cols = 1
    Rows = 2
    Step = 4
    Threshold = 20
    Pictures <- TallPictures
    Corrupt = Corrupt
    Panels <- MCPanels
    MaxFrames = 3
    Faults = {}
    None = None
INVARIANT MotionIsMarkedRed
