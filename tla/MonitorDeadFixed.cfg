SPECIFICATION FairSpec
CONSTANTS
    bms = bms
    vcu = vcu
    Key <- MCKey
    Period <- MCPeriod
    EscalateAfter = 2
    RecoverAfter = 3
    MaxSlowdown = 4
    StaleLimit = 3
    Runs <- MCFixed
    Candidate = {home}
    Forever = TRUE
    SilentPolls = 2
    Overrun = 0
    MaxUser = 0
PROPERTY DeadLinkIsRehomed
CHECK_DEADLOCK FALSE
