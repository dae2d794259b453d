SPECIFICATION Spec
CONSTANTS
    PGB_MAX_RELAUNCHES = 1
    PGB_RELAUNCH_WINDOW_S = 1
    GrafanaCodes <- MCGrafanaCodes
    MaxToken = 1
    Torn = Torn
    None = None
PROPERTY
    NoWriteAfterBarrier
