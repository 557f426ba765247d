CONSTANTS
    Lengths = {2}
    MaxSends = 3
    MaxNest = 3
SPECIFICATION FairSpec
INVARIANTS WireInOrder NotifiedInOrder StatusIsTrue ClosedIsClean
PROPERTIES AllNotified
CHECK_DEADLOCK FALSE
