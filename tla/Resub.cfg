\* One object of one carrier in depth: up to three streams of it at a time.
CONSTANTS
    Carriers = {c1}
    Kinds = {vlan}
    MaxRetries = 6
    MaxStreams = 3
    MaxFail = 2
    MaxLoss = 2
    MaxConf = 2
    EarlyCallback = FALSE
    LongWait = FALSE
    ShortOutage = FALSE
SPECIFICATION FairSpec
INVARIANTS TypeOK NothingForgotten ActiveHasStream
PROPERTY EventuallySubscribed
CHECK_DEADLOCK FALSE
