\* Liveness and the transactions: two threads that compete with the poll thread, a cancel, a
\* restart; a failed send is not tried again, only a manager that is not ready.
CONSTANTS
    Ids = {x, y}
    Vals = {a}
    NoVal = NoVal
    Threads = {t1, t2}
    MaxTry = 2
    MaxSendFail = 0
    MaxReq = 2
    MaxCancel = 1
    MaxCrash = 1
    ShortOutage = FALSE
    GapOutage = FALSE
    SyncLoss = FALSE
    Recreate = FALSE
SPECIFICATION FairSpec
PROPERTIES EveryRequestAnswered ImplementsStore
CHECK_DEADLOCK FALSE
