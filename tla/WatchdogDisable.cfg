CONSTANTS
    Delays = {1, 2}
    Monotonic = TRUE
    DisableInside = TRUE
    MaxTime = 3
    MaxBlocks = 2
    MaxStarts = 2
SPECIFICATION Spec
INVARIANT ExpiryIsReal
CHECK_DEADLOCK FALSE
