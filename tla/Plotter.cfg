SPECIFICATION Spec
CONSTANTS
    Width = 2
    Button = {"left", "mid"}
    Point <- Screen
    FFTSize = 4
    DefaultRate = 2
    Clock <- Calls
    MinRange = 1
    MaxFactor = 2
    ZoomStep <- Steps
    ClickResolution = 2
    HORZ_DIVS_MAX = 1
    Wanted = {1}
    MaxFreq = 1
INVARIANTS
    BinsInRange
    GridFitsView
PROPERTIES
    PanFollowsPointer
