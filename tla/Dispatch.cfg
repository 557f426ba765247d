CONSTANTS
    Evts = {i, e}
    Idle = i
    Timers = {t}
    Raws = {r}
    None = none
    Builds = {"linux", "posix", "bsd"}
    EventSets = {{"IN"}, {"OUT"}}
    NBuckets = 2
    MaxEvents = 2
    MaxCount = 2
SPECIFICATION FairSpec
INVARIANTS
    RegisteredExactly
    
    
PROPERTIES
    NoCallbackAfterDetach
    DueHandled
