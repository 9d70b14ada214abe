\* A power mode that changes while SyncReady is set.
CONSTANTS
    NumMgrs = 2
    BothConn = {1}
    SubOnZynq = {1}
    SubFlagged = {1, 2}
    PowerModes = {"LOW", "HIGH"}
    RepeatInit = TRUE
    ShortOutage = FALSE
    StreamBreak = FALSE
    LateError = FALSE
    EarlyConnect = FALSE
    PartialNotify = FALSE
SPECIFICATION Spec
INVARIANT ConfigReadyMeansConnected
