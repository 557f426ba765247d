SPECIFICATION Spec
CONSTANTS
    Types = {"server", "client", "dgram"}
    MaxConn = 2
    MaxMade = 6
CHECK_DEADLOCK FALSE
INVARIANTS
    EventsPaired
    InUseNotFreed
    StoppedIsQuiet
PROPERTIES
    StopCompletes
    Reconnects
