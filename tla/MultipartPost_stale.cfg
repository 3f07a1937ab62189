CONSTANTS
    Size = 7
    Chunk = 3
    HeaderLen = 2
    MAXPOSTPARAMS = 3
    Lefts <- MCLefts
    Posts <- MCPosts
    Data <- MCData
    FileData <- MCFileData
    MaxFile = 2
    MaxBreaks = 1
SPECIFICATION Spec
INVARIANT
    BoundaryIsNew
CHECK_DEADLOCK FALSE
