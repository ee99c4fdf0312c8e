SPECIFICATION FairSpec
CONSTANTS
    CPU = {c1, c2, c3}
    NoCpu = NoCpu
    MaxWork = 1
    Queuers = {c1}
    Steppers = {c2}
    Drivers = {c2}
INVARIANT Exclusion
INVARIANT WakeupsKept
PROPERTY StopsTheWorld
PROPERTY SectionsHappen
