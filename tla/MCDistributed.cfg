CONSTANTS
    Procs = {p1, p2, p3}
    MaxInodes = 4
    MaxEvictions = 1
    Workers = {w1, w2}
    MaxMessages = 3
    MaxProduced = 3
    MaxRanks = 4
    MaxWriters = 2
SPECIFICATION MCSpec
INVARIANTS NeverPartial CreatedOnce SentOnce TagsExpected
PROPERTIES RunReturns EveryRankReturns
CHECK_DEADLOCK FALSE
