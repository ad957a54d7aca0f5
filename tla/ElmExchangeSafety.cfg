SPECIFICATION FairSpec
CONSTANTS
    MaxOwed = 3
    Cycle = 3
    Unchecked = {1}
    Silent = {3}
    Retries = 1
    Backlog = 3
    MaxCancels = 1
    Faulty = TRUE
INVARIANTS TypeOK LedgerBound LedgerExact BlocksAreWhole
PROPERTIES SatisfiedIsOwn OffsetHeals
