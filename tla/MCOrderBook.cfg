SPECIFICATION Spec
CONSTANTS
    Ids = {i1, i2, i3, i4}
    NoId = NoId
    Prices = {1, 2}
    Quantities = {0, 1, 2}
    MaxOrders = 3
    MaxLevels = 2
    Stocks = {"AAPL", "MSFT"}
    Symbol = "AAPL"
SYMMETRY IdSymmetry
VIEW BookView
INVARIANTS TypeOK PoolsExact LookupExact IndexExact QueuesLinked TotalsExact
PROPERTIES ErrorsChangeNothing ImplementsBookSpec
