SPECIFICATION FairSpec
CONSTANTS
    Tasks = {t1, t2}
    Jobs = {j1}
    Whole = 2
    MaxKills = 0
    MaxReloads = 0
    MaxTimeouts = 0
    MaxEarly = 1
    MaxDeletes = 0
PROPERTY EnsureEndsAlways
CHECK_DEADLOCK FALSE
