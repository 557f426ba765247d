SPECIFICATION Spec
CONSTANTS
    Types = {"server", "client", "dgram"}
    MaxConn = 2
    MaxMade = 3
CHECK_DEADLOCK FALSE
INVARIANT KeepsTrying
