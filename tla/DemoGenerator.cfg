SPECIFICATION FairSpec
CONSTANTS
    RECONNECT_MAX_ATTEMPTS = 3
    RECONNECT_BACKOFF_S = 1
    RUN_FOR_S = 3
    MAX_CLOCK = 5
INVARIANTS
    TypeOK
    NoGap
    TwiceOnlyAfterFailure
    OneConnection
PROPERTY
    OnlyFailuresOutlive
