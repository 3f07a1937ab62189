CONSTANTS
    f1 = f1
    f2 = f2
    f3 = f3
    f4 = f4
    f5 = f5
    Files <- MCFiles
    RawCat <- MCRawCat
    Filter <- MCFilter
    CatHash <- MCCatHash
    Title <- MCTitle
    TitleHash <- MCTitleHash
    TitleRange <- MCTitleRange
    Clients = {c1, c2}
    Clips <- MCClips
    Commands = {1}
    MaxNodes = 3
SPECIFICATION Spec
SYMMETRY MCSymmetry
INVARIANTS
    TypeOK
    FindableById
    CategoriesAreSound
    EntriesAccounted
PROPERTIES
    ImplementsQueues
CHECK_DEADLOCK FALSE
