\* One express cross-connect of either payload, a create and a delete, a restart.
CONSTANTS
    Payloads = {"100G", "GE"}
    MaxSendCount = 1
    MaxTrouble = 2
    MaxRestart = 1
    MaxReq = 2
    RestartInGap = FALSE
SPECIFICATION FairSpec
INVARIANTS TypeOK CreatedIsWhole DeletedIsGone
PROPERTY RequestAnswered
CHECK_DEADLOCK FALSE
