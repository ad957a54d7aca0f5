SPECIFICATION FairSpec
CONSTANTS
    bms = bms
    vcu = vcu
    Key <- MCKey
    Period <- MCPeriod
    EscalateAfter = 2
    RecoverAfter = 3
    MaxSlowdown = 2
    StaleLimit = 3
    Runs <- MCRuns
    Candidate = {home}
    Forever = TRUE
    SilentPolls = 2
    Overrun = 0
    MaxUser = 1
INVARIANTS TypeOK SlowdownsRecorded SitsOutLessThanItsFactor EventsMirrored TuiRehomesDrops
PROPERTIES GapIsRecorded PerPidDeadLinkIsRehomed RatesRecover StopEnds
CHECK_DEADLOCK FALSE
