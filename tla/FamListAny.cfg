CONSTANTS
    Threads = {t1, t2}
    MaxNodes = 2
    MaxCalls = 2
    Regimes = {"any"}
SPECIFICATION Spec
INVARIANT ListExact
CHECK_DEADLOCK FALSE
