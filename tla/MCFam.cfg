CONSTANTS
    Procs = {p1, p2}
    Lockers = {p1, p2}
    Keys = {k1, k2}
    MaxCalls = 2
    MaxSpin = 2
    MaxNodes = 3
    MaxListCalls = 3
    Regimes = {"sequential", "pushes"}
    Ttl = 1
    MaxTime = 4
    Word = 16
SPECIFICATION MCSpec
INVARIANTS ListExact IterationComplete FindsInserted LockSerialisesInTime
PROPERTY MapCallsReturn
CHECK_DEADLOCK FALSE
