SPECIFICATION Spec
CONSTANTS
    Environments <- MCEnvironments
    Numerals <- MCNumerals
    MAX_BOOTS = 2
    Torn = Torn
INVARIANTS
    TypeOK
    UnprivilegedRunsNothing
    GrafanaReachesLakebase
    SecretsStayPut
PROPERTIES
    LaunchesAreReady
