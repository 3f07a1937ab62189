CONSTANTS
    s1 = s1
    s2 = s2
    d1 = d1
    d2 = d2
    d3 = d3
    Null = Null
    Structs <- TwoStructs
    Descs <- ThreeDescs
    MayStall = {}
    Methods = {"get", "upload"}
    Handlers = {"raw", "fd"}
    MaxConnRequests = 1
SPECIFICATION Spec
SYMMETRY Symmetry
INVARIANTS
    ClientCountExact
    DescriptorsOwned
    PassIsSafe
PROPERTY
    ImplementsConnections
