SPECIFICATION FairSpec
CONSTANTS
    Clients = {1}
    ReconnMax = 1
    CycleMax = 2
    DupCnt = 2
    MaxPubs = 1
    MaxCalls = 1
    MaxEvents = 2
    Cases = {"midsend"}
CHECK_DEADLOCK FALSE
INVARIANTS
    Inv
PROPERTIES
    NobodyWaitsForEver
