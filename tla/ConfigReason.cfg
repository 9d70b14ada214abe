\* A create the DCO refuses.
CONSTANTS
    Ids = {x}
    Vals = {a}
    NoVal = NoVal
    Threads = {t1}
    MaxTry = 2
    MaxSendFail = 1
    MaxReq = 1
    MaxCancel = 0
    MaxCrash = 0
    ShortOutage = FALSE
    GapOutage = FALSE
    SyncLoss = FALSE
    Recreate = FALSE
SPECIFICATION Spec
INVARIANT FailureIsExplained
CHECK_DEADLOCK FALSE
