SPECIFICATION Spec
CONSTANTS
    Thread = {t1, t2}
    TB = {a, b}
    NoTB = NoTB
    Slots = 3
    MaxAlive = 2
    Floor = 1
    Part = 2
    Jit = 1
    Hot = 0
    HotShare = TRUE
    SumCount = TRUE
    SumEvery = 1
    Share = TRUE
    MaxMods = 1
    MaxGen = 1
SYMMETRY Symmetry
INVARIANTS AliveExact CapOvershoot CapFloor FreeStackExact SlotAvailable SweepFrees NoStaleCode
