CONSTANTS
    Threads = {t1, t2, t3, t4}
    Paths = {p, q}
    Users = {h1, h2, h3}
    None = none
    Size = 1
    MaxPooled = 1
    Removers = {t1, t2, t3, t4}
    Handles = {h1, h2, h3}
    Capacities = {0, 1, 2}
    FilesVanish = TRUE
    OpenFails = TRUE
    CloseFails = TRUE
    NoHandle = none
    MaxOps = 5
SPECIFICATION MCSpec
SYMMETRY Symmetry
INVARIANTS ReadsOwnPlace OneUser SignalChain
PROPERTIES EntriesKept
CHECK_DEADLOCK FALSE
