CONSTANTS
    Threads = {looper, other}
    Looper = looper
    Flushers = {looper, other}
    Keys = {k1, k2}
    Cookies = {c}
    NoCookie = none
    AllCookies = all
    MaxAdds = 2
    MaxNest = 2
SPECIFICATION FairSpec
INVARIANTS NoLostIdle OnlyOnce RemoveIsFinal
PROPERTIES CookieOrder IdleRuns
CHECK_DEADLOCK FALSE
