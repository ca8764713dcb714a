SPECIFICATION UpdateFairSpec
CONSTANTS
    Zipped = {y, z}
    Plain = {p}
    Copied = {}
    MaxVersion = 1
    Total = 2
    MaxFaults = 2
    Retries = 2
    Modes = {0, 1}
    Habits = {}
    y = y
    z = z
    p = p
CHECK_DEADLOCK FALSE
INVARIANTS
    Inv
    Consistent
PROPERTIES
    RemovedWhenDone
    Runs
    Installs
    DownloadEnds
