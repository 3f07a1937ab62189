CONSTANTS
    s1 = s1
    s2 = s2
    d1 = d1
    d2 = d2
    d3 = d3
    Null = Null
    Structs <- OneStruct
    Descs <- TwoDescs
    MayStall = {}
    Methods = {"get"}
    Handlers = {"stream"}
    MaxConnRequests = 1
SPECIFICATION Spec
INVARIANT
    StreamToldOfClose
