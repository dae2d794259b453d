SPECIFICATION Spec
CONSTANTS
    PGB_MAX_RELAUNCHES = 1
    PGB_RELAUNCH_WINDOW_S = 2
    GrafanaCodes <- MCGrafanaCodes
    MaxToken = 2
    Torn = Torn
    None = None
INVARIANTS
    TypeOK
    CredentialAgreement
    NeverReadTorn
    StaleIsLoud
    RelaunchCeiling
    ExitCodeFaithful
    OrderlyTeardown
PROPERTIES
    ImplementsCredential
    NoCycleAfterBarrier
    ImplementsRequest
