CONSTANTS
    a = a
    b = b
    Workers = {w1, w2}
    Clients = {c1}
    Waiters = {c1}
    Tasks = {a, b}
    Lists <- OneList
    PoolSizes = {1, 2}
    MaxCalls = 2
    SizeT = 4
    Null = null
SPECIFICATION FairSpec
INVARIANT CountersExact
PROPERTIES WaitIsBarrier EveryTaskRuns JoinReturns
CHECK_DEADLOCK FALSE
