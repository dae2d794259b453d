SPECIFICATION Spec
CONSTANT MAX_SIGNALS = 2
INVARIANT HandlerIsSafe
CHECK_DEADLOCK FALSE
