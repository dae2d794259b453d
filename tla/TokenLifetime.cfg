SPECIFICATION FairSpec
CONSTANTS
    TTL = 60
    INTERVAL = 50
    CYCLE_MAX = 4
    BOOT_MAX = 5
    MAX_MISSED = 0
INVARIANTS
    TypeOK
    CredentialAlive
PROPERTY
    OutageHeals
