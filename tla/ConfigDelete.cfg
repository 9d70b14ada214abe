\* A create that succeeds and a delete that fails.
CONSTANTS
    Ids = {x}
    Vals = {a}
    NoVal = NoVal
    Threads = {t1}
    MaxTry = 2
    MaxSendFail = 1
    MaxReq = 2
    MaxCancel = 0
    MaxCrash = 0
    ShortOutage = FALSE
    GapOutage = FALSE
    SyncLoss = FALSE
    Recreate = FALSE
SPECIFICATION Spec
INVARIANT DeletedIsNotCached
CHECK_DEADLOCK FALSE
