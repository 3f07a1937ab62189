CONSTANTS
    f1 = f1
    f2 = f2
    p1 = p1
    p2 = p2
    Null = Null
    Files = {f1}
    Paths = {p1, p2}
    Default = p1
    Modes <- AllModes
    MaxLists = 2
    MaxItems = 1
    MaxCount = 2
    MaxBack = 1
SPECIFICATION Spec
INVARIANT
    EntryOfEachList
