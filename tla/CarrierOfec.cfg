\* One carrier in depth: a fault bitmap with and one without an OFEC fault; requests
\* the DCO refuses.
CONSTANTS
    Carriers = {c1}
    QueueSize = 256
    Bitmaps = {clear, lossOfFrame}
    OfecFaults = {lossOfFrame}
    MaxChange = 1
    MaxConf = 2
    MaxTrouble = 2
    Overlap = FALSE
    FastActor = FALSE
    LateRx = FALSE
    RxFail = FALSE
    DeleteFail = FALSE
    ShortOutage = FALSE
    GapOutage = FALSE
SPECIFICATION FairSpec
INVARIANTS TypeOK NoNewsIsNoDifference
PROPERTIES UpOnlyAfterUp LatestEventFirst OfecConverges RxConverges DeletedIsGone
CHECK_DEADLOCK FALSE
