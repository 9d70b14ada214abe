\* Every outage, restart and callback order; the board is initialised once.
CONSTANTS
    NumMgrs = 2
    BothConn = {1}
    SubOnZynq = {1}
    SubFlagged = {1, 2}
    PowerModes = {"LOW", "HIGH"}
    RepeatInit = FALSE
    ShortOutage = TRUE
    StreamBreak = TRUE
    LateError = TRUE
    EarlyConnect = TRUE
    PartialNotify = TRUE
SPECIFICATION Spec
INVARIANTS TypeOK SyncReadySound DcoStateSound PublishedSound
PROPERTY ImplementsGate
