SPECIFICATION FairSpec
CONSTANTS
    File = {a, b}
    Tries = 3
    MaxWrites = 3
    MaxTimeouts = 4
    MaxReadErrs = 1
    MaxWriteErrs = 1
    MaxDeaths = 2
INVARIANTS SettledIsSaved
PROPERTIES WritesReachDisk ReadableDiskKept
CHECK_DEADLOCK FALSE
