SPECIFICATION FairSpec
CONSTANTS
    MaxItems = 4
    MaxCalls = 9
    MaxEvents = 2
    Habits = {}
CHECK_DEADLOCK FALSE
INVARIANTS
    Inv
PROPERTIES
    ResultIsTrue
    EverySendIsTold
