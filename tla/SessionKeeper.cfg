SPECIFICATION FairSpec
CONSTANTS
    igpm = igpm
    skm = skm
    Steps <- MCSteps
    Mode = {"03"}
    S3 = 10
    Interval = 4
    IdleLimit = 3
    Delay = 1
    TimeoutOf <- MCTimeoutOf
    CloseLimit = 6
    Most <- MCMost
    MostAtAll = 1
INVARIANTS TypeOK SessionsKept
PROPERTIES SessionsEnd LinkErrorSurfaces
CHECK_DEADLOCK FALSE
