\* A Set of the Rx state fails once.
CONSTANTS
    Carriers = {c1}
    QueueSize = 256
    Bitmaps = {clear, lossOfFrame}
    OfecFaults = {lossOfFrame}
    MaxChange = 1
    MaxConf = 1
    MaxTrouble = 1
    Overlap = FALSE
    FastActor = FALSE
    LateRx = FALSE
    RxFail = TRUE
    DeleteFail = FALSE
    ShortOutage = FALSE
    GapOutage = FALSE
SPECIFICATION FairSpec
PROPERTY RxConverges
CHECK_DEADLOCK FALSE
