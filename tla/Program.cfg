SPECIFICATION FairProgramSpec
CONSTANTS
    MaxBuffers = 4
    Grants = {0, 1, 2, 3, 4}
    FrameCounts = {0, 1, 3}
    MaxFrames = 4
    DefaultCount = 3
    CommandLines <- MCCommandLines
    Cameras <- MCCameras
    Panels <- MCPanels
    Jpegs <- MCJpegs
    None = None
INVARIANTS
    BuffersGoRound
    ReportsWhatItStored
    PreviewsWholePictures
    NothingLeftBehindAtExit
    NoAmbiguousCommandLine
    ListsWhatTheCameraOffers
    TestPatternIsSeen
    DecodesWholePictures
    ExitStatusIsHonest
PROPERTY ProgramEnds
