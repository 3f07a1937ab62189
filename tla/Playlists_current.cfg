CONSTANTS
    f1 = f1
    f2 = f2
    p1 = p1
    p2 = p2
    Null = Null
    Files = {f1, f2}
    Paths = {p1}
    Default = p1
    Modes <- AllModes
    MaxLists = 1
    MaxItems = 2
    MaxCount = 4
    MaxBack = 1
SPECIFICATION Spec
INVARIANT
    CurrentFileIsAtIndex
