SPECIFICATION NvmFairSpec
CONSTANTS
    Numbers = {n, m}
    Tables = {tab}
    Values = {1, 12}
    Fields = {f, g}
    Default = 12
    MaxCrashes = 2
    n = n
    m = m
    tab = tab
    f = f
    g = g
CHECK_DEADLOCK FALSE
INVARIANTS
    NvmInv
PROPERTIES
    Recovers
