SPECIFICATION GuiSpec
CONSTANTS
    Id = {i1, i2, i3, i4, i5}
    None = None
    GiveUp = 1
    ImportTries = 1
    MaxTaps = 2
    MaxForce = 1
    MaxFaults = 4
    MaxHangs = 1
INVARIANT TouchNeverGivenUp
CHECK_DEADLOCK FALSE
