SPECIFICATION GenSpec
CONSTANTS
    Workloads <- Fitting
    Ids <- MCIds
    NoId = 0
    Prices <- MCPrices
    Quantities <- MCQuantities
    MaxOrders = 60
    MaxLevels = 60
    Stocks = {"AAPL"}
    Symbol = "AAPL"
INVARIANTS FeedReplaysClean
CHECK_DEADLOCK FALSE
