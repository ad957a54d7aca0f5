SPECIFICATION Spec
CONSTANTS
    igpm = igpm
    skm = skm
    Steps <- MCSteps
    Mode = {"03"}
    S3 = 10
    Interval = 4
    IdleLimit = 3
    Delay = 0
    TimeoutOf <- MCTimeoutOf
    CloseLimit = 6
    Most <- MCOnlyKeepalive
    MostAtAll = 1
INVARIANT OneLossSurvived
CHECK_DEADLOCK FALSE
