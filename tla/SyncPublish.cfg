\* A board init state that is published again.
CONSTANTS
    NumMgrs = 2
    BothConn = {1}
    SubOnZynq = {1}
    SubFlagged = {1, 2}
    PowerModes = {"HIGH"}
    RepeatInit = TRUE
    ShortOutage = FALSE
    StreamBreak = FALSE
    LateError = FALSE
    EarlyConnect = FALSE
    PartialNotify = FALSE
SPECIFICATION Spec
INVARIANT PublishedAgrees
