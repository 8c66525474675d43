CONSTANTS
    Threads = {t1, t2}
    Events = {e1, e2}
    MaxUpdates = 2
    MaxCrashes = 2
    MaxID = 5
    Counts = {1, 2, 3}
    MaxWrites = 4
    MaxOpens = 2
    None = none
    Partial = partial
SPECIFICATION MCSpec
SYMMETRY Symmetry
INVARIANTS NothingLost AssertionsHold RecoveryComplete BuffersHeld
PROPERTIES RepeatsAreLeftovers FlushMeansWritten
CHECK_DEADLOCK FALSE
