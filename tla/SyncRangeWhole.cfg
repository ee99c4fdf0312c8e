SPECIFICATION SyncSpec
CONSTANTS
    Byte = {65, 187, 191, 239}
    FileLen = 6
    Held = {6}
    Unit = {65533}
    Starts = {1}
    Lengths = {3}
    MaxPre = 4
INVARIANT MisdecodeDetected
CHECK_DEADLOCK FALSE
