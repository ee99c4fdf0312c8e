SPECIFICATION FairSpec
CONSTANTS
    Tasks = {t1, t2, t3}
    Jobs = {j1, j2}
    Whole = 2
    MaxKills = 1
    MaxReloads = 1
    MaxTimeouts = 1
    MaxEarly = 1
    MaxDeletes = 1
INVARIANTS RawIsWholeAlone BootsWholePackUnkilled
PROPERTIES ArchiveKept EnsureEnds
CHECK_DEADLOCK FALSE
