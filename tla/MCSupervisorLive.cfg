SPECIFICATION FairSpec
CONSTANTS
    PGB_MAX_RELAUNCHES = 1
    PGB_RELAUNCH_WINDOW_S = 2
    GrafanaCodes = {0}
    MaxToken = 1
    Torn = Torn
    None = None
PROPERTIES
    ShutdownCompletes
    SupportRevived
