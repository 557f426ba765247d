CONSTANTS
    ByteBits = 4
    Bytes64 = 7
    Vals <- MCVals
    MaxArgs = 2
    MaxCut = 9
    MaxDecodeStr = 1
    MaxDec = 12
    MaxFlt = 6
    FltText = 5
    AllocStep = 32
    DumpSizes = {0, 1, 4, 5, 16, 17, 18, 32}
SPECIFICATION Spec
INVARIANTS
    AdumpComplete
CHECK_DEADLOCK FALSE
