SPECIFICATION Spec
CONSTANTS
    Customer = {k1, k2}
    NoList = NoList
    Id = {1, 2, 3}
    NewId = {4}
    UnknownType = {3}
    Gdt <- MCGdt
    Date = {0, 1, 2}
    MaxInserts = 1
    Element <- MCElement
    IntMax = 3
    SizeMax = 24
    MaxSize = 4
INVARIANTS
    TypeOK
    LoadedListsAreComplete
    TotalsAgree
    ListsAreOrdered
    IteratorStaysInside
    PageIsRight
    PageIsInOrder
