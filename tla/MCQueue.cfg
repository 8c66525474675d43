CONSTANTS
    Threads = {t1, t2, t3}
    Elem = {a, b}
    Sizes = {1, 2}
    Batches = {0, 2}
    MaxPushes = 3
SPECIFICATION FairSpec
INVARIANT NoLostWakeup
PROPERTIES ImplementsChannel CallsReleased
