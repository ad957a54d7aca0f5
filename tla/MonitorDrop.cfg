SPECIFICATION Spec
CONSTANTS
    bms = bms
    vcu = vcu
    Key <- MCKey
    Period <- MCPeriod
    EscalateAfter = 2
    RecoverAfter = 3
    MaxSlowdown = 2
    StaleLimit = 3
    Runs <- MCPlain
    Candidate = {home}
    Forever = TRUE
    SilentPolls = 2
    Overrun = 0
    MaxUser = 0
INVARIANT DropsAreRehomed
CHECK_DEADLOCK FALSE
