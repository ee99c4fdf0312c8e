SPECIFICATION Spec
CONSTANTS
    File = {a, b}
    Tries = 3
    MaxWrites = 2
    MaxTimeouts = 0
    MaxReadErrs = 1
    MaxWriteErrs = 0
    MaxDeaths = 0
PROPERTY DiskNotDestroyed
CHECK_DEADLOCK FALSE
