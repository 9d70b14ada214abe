\* Two objects, two callback threads, three requests, one restart.
CONSTANTS
    Ids = {x, y}
    Vals = {a, b}
    NoVal = NoVal
    Threads = {t1, t2}
    MaxTry = 3
    MaxSendFail = 1
    MaxReq = 3
    MaxCancel = 0
    MaxCrash = 1
    ShortOutage = FALSE
    GapOutage = FALSE
    SyncLoss = FALSE
    Recreate = FALSE
SPECIFICATION Spec
INVARIANTS TypeOK SuccessMeansInstalled RestartRebuilds
SYMMETRY Interchangeable
CHECK_DEADLOCK FALSE
