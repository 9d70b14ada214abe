\* Outages the poll thread sees, stream errors that come before the reconnection.
CONSTANTS
    NumMgrs = 3
    BothConn = {1, 3}
    SubOnZynq = {1}
    SubFlagged = {1, 2}
    PowerModes = {"LOW", "HIGH"}
    RepeatInit = FALSE
    ShortOutage = FALSE
    StreamBreak = FALSE
    LateError = FALSE
    EarlyConnect = FALSE
    PartialNotify = FALSE
SPECIFICATION FairSpec
INVARIANTS SyncEffective SubscribedWhenReady
PROPERTY EventuallySyncReady
