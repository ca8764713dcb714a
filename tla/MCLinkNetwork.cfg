SPECIFICATION Spec
CONSTANTS
    MaxLinks = 1
    Holders = {"update"}
    Calls = {"open", "connect", "call", "disconnect", "close", "send", "shut"}
    Reactions = {"connect"}
    Habits = {}
    CloseAnswers = {"CLOSE_OK"}
    Crosses = FALSE
    ShutFails = FALSE
    MaxCalls = 4
    MaxEvents = 1
    MaxQueue = 4
    MaxOut = 3
CHECK_DEADLOCK FALSE
INVARIANTS
    Inv
    PendingWillGo
    ConnectedIsReal
