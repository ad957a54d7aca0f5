SPECIFICATION FairSpec
CONSTANTS
    bms = bms
    vcu = vcu
    Ecu = {bms, vcu}
    Held = {bms}
    Plan <- MCPlan
    KeepAlive = "3E00"
    OpenSession = "1003"
    MaxOwed = 2
    DeadLimit = 3
    MaxFaults = 2
INVARIANTS TypeOK LedgerCovers
PROPERTIES ServedIsOwn NeverBlindForGood
CHECK_DEADLOCK FALSE
