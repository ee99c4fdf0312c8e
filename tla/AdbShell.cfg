SPECIFICATION FairSpec
CONSTANTS
    MaxChunk = 1
    MaxString = 2
    MaxTyped = 3
    MaxResize = 2
    MaxOutput = 2
INVARIANTS InputExact OneUnacked WindowSettles ExitOnce OutputExact
PROPERTY InputArrives
CHECK_DEADLOCK FALSE
