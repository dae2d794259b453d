SPECIFICATION Spec
CONSTANTS
    Members = {"grafana", "pgbouncer", "lib"}
    Marker = "grafana"
    KeyFiles <- MCKeyFiles
    Launched = {"grafana", "pgbouncer"}
    MAX_FAILURES = 1
INVARIANT
    HalfStagedNeverBoots
