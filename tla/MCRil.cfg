SPECIFICATION FairSpec
CONSTANTS
    Last = 5
    MaxRx = 3
    MaxUrc = 1
    MaxPayload = 2
    ClosedUrc = FALSE
CHECK_DEADLOCK FALSE
INVARIANTS
    Inv
    InOrder
    OneInFlight
    PayloadIsFiltered
    NoLostWakeup
PROPERTIES
    ImplementsChannel
    QueuedIsServed
