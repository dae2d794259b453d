SPECIFICATION Spec
CONSTANT MAX_SIGNALS = 3
INVARIANT
    RequestSeen
PROPERTY
    ImplementsRequest
CHECK_DEADLOCK FALSE
