CONSTANTS
    Threads = {looper, a, b}
    Looper = looper
    Creator = a
    NoThread = nobody
    Strays = {b}
    MaxDepth = 2
    MaxCalls = 3
SPECIFICATION FairSpec
INVARIANTS NoLostRelease WakeupPending
PROPERTIES RefinesLock LockReturns ProcessingStarts
