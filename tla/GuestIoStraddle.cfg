SPECIFICATION FairSpec
CONSTANTS
    c1 = c1
    c2 = c2
    CPU = {c1}
    Last = 3
    Kind <- Program
    InRam <- RamOn
    Straddle = {1}
    Slot <- OwnSlot
    MaxInsns = 4
    LazyWasm = TRUE
PROPERTY GuestAdvances
