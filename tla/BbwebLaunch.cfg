SPECIFICATION FairSpec
CONSTANTS
    Tap = {a, b, c}
    Prewarm = {p}
    NoEngine = NoEngine
    MaxFaults = 1
CHECK_DEADLOCK FALSE
INVARIANT OneEngine
INVARIANT Reachable
PROPERTY TapsEnd
