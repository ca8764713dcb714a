SPECIFICATION FairSpec
CONSTANTS
    Fncs = {f}
    Args = {a}
    NoArg = none
    MaxLuaTimers = 2
    Handles = {h1, h2, h3}
    HandlesReused = FALSE
    MaxTid = 3
    MaxCalls = 3
CHECK_DEADLOCK FALSE
INVARIANTS
    Inv
PROPERTIES
    ImplementsTimers
    TimersFire
