SPECIFICATION Spec
CONSTANTS
    CHUNK = 2
    Size = 5
    Byte = {0, 1}
    Pack <- MCPack
    keep = 2
    MaxFile = 6
    MaxLen = 3
INVARIANTS
    ZeroPastEnd
    ReadIsExact
PROPERTY
    RefinesPackFile
