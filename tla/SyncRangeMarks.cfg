SPECIFICATION SyncSpec
CONSTANTS
    Byte = {65, 187, 191, 239, 254, 255}
    FileLen = 6
    Held = {5, 6}
    Unit = {66, 63487, 65533}
    Starts = {4}
    Lengths = {2, 3}
    MaxPre = 4
INVARIANT RangeReadable
CHECK_DEADLOCK FALSE
