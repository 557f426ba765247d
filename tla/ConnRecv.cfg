CONSTANTS
    Shapes <- MCShapes
    Junk <- MCJunk
    MaxMsgs = 3
    ReadLen = 8
    MaxFds = 2
    MaxDgrams = 2
SPECIFICATION FairSpec
INVARIANTS
    
    FdsAccounted
PROPERTIES
    SuspendedReadsNothing
    AllDelivered
CHECK_DEADLOCK FALSE
