SPECIFICATION FairSpec
CONSTANTS
    c1 = c1
    c2 = c2
    CPU = {c1, c2}
    Last = 3
    Kind <- Program
    InRam <- RamOn
    Straddle = {3}
    Slot <- OwnSlot
    MaxInsns = 4
    LazyWasm = TRUE
PROPERTY YieldsOffFastPath
PROPERTY GuestAdvances
PROPERTY SplitSticks
