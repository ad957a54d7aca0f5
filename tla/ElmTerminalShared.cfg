SPECIFICATION FairSpec
CONSTANTS
    MaxOwed = 2
    Task = {poll, keepalive}
    Ecu = {bms, vcu, gw}
    Refused = {gw}
    Nobody = Nobody
    Retries = 1
    Rounds = 2
    Backlog = 2
    MaxFaults = 1
INVARIANTS TypeOK CacheCoherent
PROPERTIES AcceptedFromAddressed TransactionsEnd
