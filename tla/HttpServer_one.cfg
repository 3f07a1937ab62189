CONSTANTS
    s1 = s1
    s2 = s2
    d1 = d1
    d2 = d2
    d3 = d3
    Null = Null
    Structs <- OneStruct
    Descs <- ThreeDescs
    MayStall = {s1}
    Methods <- AllMethods
    Handlers <- AllHandlers
    MaxConnRequests = 2
SPECIFICATION FairSpec
INVARIANTS
    TypeOK
    ObjectsOwned
    OnlyExpiryLeaks
    FreshRequestIsClean
    FileReadIsOpen
    NothingOpenAfterStop
PROPERTIES
    StalledConnectionClosed
    ShutdownCompletes
