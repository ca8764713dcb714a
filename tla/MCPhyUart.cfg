SPECIFICATION PhyFairSpec
CONSTANTS
    Ports = {2, 3}
    Console = 9
    HostPreempts = FALSE
    Size = 3
    Chunk = 2
    Lengths = 5
    MaxBurst = 4
    MaxBytes = 5
CHECK_DEADLOCK FALSE
INVARIANTS
    PhyInv
PROPERTIES
    NewestIsKept
    ImplementsPort
    PhyBytesAreRead
