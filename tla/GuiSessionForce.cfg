SPECIFICATION GuiSpec
CONSTANTS
    Id = {i1, i2, i3, i4}
    None = None
    GiveUp = 2
    ImportTries = 3
    MaxTaps = 1
    MaxForce = 1
    MaxFaults = 0
    MaxHangs = 0
INVARIANT OneSessionLoaded
CHECK_DEADLOCK FALSE
