CONSTANTS
    Size = 6
    Chunk = 3
    HeaderLen = 2
    MAXPOSTPARAMS = 3
    Lefts <- MCLefts
    Posts <- MCDirect
    Data <- MCData
    FileData <- MCFileData
    MaxFile = 8
    MaxBreaks = 0
SPECIFICATION Spec
INVARIANT
    DirectUploadComplete
CHECK_DEADLOCK FALSE
