SPECIFICATION FairSpec
CONSTANTS
    Ids = {1, 2, 3, 4, 5, 6}
    Orders = {o1, o2}
    MaxOrders = 4
    hash <- MCHash
    NoId = NoId
    NoOrder = NoOrder
INVARIANTS FindExact NeverFull
PROPERTIES ShiftEnds
