CONSTANTS
    Lockers = {p1, p2}
    Ttl = 1
    MaxTime = 3
    Word = 16
SPECIFICATION LockSpec
INVARIANT LockSerialises
CHECK_DEADLOCK FALSE
