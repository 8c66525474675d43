CONSTANTS
    a = a
    b = b
    c1 = c1
    c2 = c2
    t1 = t1
    t2 = t2
    t3 = t3
    Threads = {t1, t2, t3}
    Clients = {c1, c2}
    Requests = {a, b}
    Conflicts <- NoneOrTwo
    Sizes = {0, 1, 2}
    MaxCalls = 1
    MaxGrown = 1
    Main = main
    Null = null
SPECIFICATION MCSpec
INVARIANTS ThreadsCounted EachDeletedOnce
PROPERTY EveryRequestHandled
CHECK_DEADLOCK FALSE
