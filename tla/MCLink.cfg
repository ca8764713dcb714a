SPECIFICATION Spec
CONSTANTS
    MaxLinks = 0
    Holders = {"update"}
    Calls = {"open", "connect", "call", "disconnect", "close", "send", "shut"}
    Reactions = {"disconnect", "close"}
    Habits = {"deact"}
    CloseAnswers = {"CLOSE_OK", "ERROR"}
    Crosses = TRUE
    ShutFails = TRUE
    MaxCalls = 6
    MaxEvents = 1
    MaxQueue = 3
    MaxOut = 3
CHECK_DEADLOCK FALSE
INVARIANTS
    Inv
    ConnectIsGuarded
