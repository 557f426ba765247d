CONSTANTS
    Delays = {1, 2}
    Monotonic = FALSE
    DisableInside = FALSE
    MaxTime = 4
    MaxBlocks = 3
    MaxStarts = 2
SPECIFICATION FairSpec
INVARIANTS ExpiryIsReal OncePerBlock
PROPERTIES StuckIsReported StopReturns
CHECK_DEADLOCK FALSE
