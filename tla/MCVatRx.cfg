SPECIFICATION FairSpec
CONSTANTS
    Size = 3
    Chunk = 2
    MaxBurst = 5
    MaxBytes = 9
CHECK_DEADLOCK FALSE
INVARIANTS
    Inv
    NoLostWakeup
PROPERTIES
    ImplementsFifo
    BytesAreRead
