SPECIFICATION FairSpec
CONSTANTS
    Members = {"grafana", "pgbouncer", "lib"}
    Marker = "grafana"
    KeyFiles <- MCKeyFiles
    Launched = {"grafana", "pgbouncer"}
    MAX_FAILURES = 3
INVARIANTS
    TypeOK
    StagedIsComplete
    UnsafeExtractsNothing
    MarkerVouchesForEarlier
PROPERTIES
    RetryCompletes
    ImplementsBundle
