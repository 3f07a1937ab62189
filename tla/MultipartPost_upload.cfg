CONSTANTS
    Size = 7
    Chunk = 3
    HeaderLen = 2
    MAXPOSTPARAMS = 3
    Lefts <- MCLefts
    MaxFile = 8
    MaxBreaks = 1
    Posts <- MCPosts
    Data <- MCData
    FileData <- MCFileData
SPECIFICATION Spec
INVARIANTS
    TypeOK
    StaysInside
    DoneIsComplete
    UploadsArePrefixes
    LastChunkIsLast
PROPERTIES
    PostIsTakenIn
CHECK_DEADLOCK FALSE
