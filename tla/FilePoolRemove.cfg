CONSTANTS
    Threads = {t1, t2, t3}
    Paths = {p}
    Removers = {t3}
    Handles = {h1, h2}
    Capacities = {1}
    FilesVanish = FALSE
    OpenFails = FALSE
    CloseFails = FALSE
    NoHandle = none
SPECIFICATION FairSpec
PROPERTIES WaitEndsAfterCheckin
CHECK_DEADLOCK FALSE
