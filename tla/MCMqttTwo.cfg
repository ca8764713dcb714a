SPECIFICATION Spec
CONSTANTS
    Clients = {1, 2}
    ReconnMax = 1
    CycleMax = 2
    DupCnt = 1
    MaxPubs = 0
    MaxCalls = 2
    MaxEvents = 1
    Cases = {}
CHECK_DEADLOCK FALSE
INVARIANTS
    ConningIsTrue
