SPECIFICATION FairSpec
CONSTANTS
    Tasks = {t1, t2, t3, t4}
    Jobs = {j1, j2}
    Whole = 2
    MaxKills = 1
    MaxReloads = 0
    MaxTimeouts = 0
    MaxEarly = 0
    MaxDeletes = 0
INVARIANT BootsWholePack
CHECK_DEADLOCK FALSE
