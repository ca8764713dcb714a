SPECIFICATION FairSpec
CONSTANTS
    Positions = {p1, p2}
    Full = 2
    MaxParts = 2
    MaxSends = 3
    MaxNews = 3
    Habits = {}
    p1 = p1
    p2 = p2
CHECK_DEADLOCK FALSE
INVARIANTS
    Inv
PROPERTIES
    ResultIsOwn
    EverySendIsTold
    NewIsShown
