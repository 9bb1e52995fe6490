SPECIFICATION Spec
CONSTANTS
    Prices <- MCPrices
    PriceTtl = 0
    Latency = 1
    WsMaxRetries = 2
    MaxTime = 2
    MaxMoves = 2
    MaxOrders = 2
    MaxRestarts = 2
INVARIANTS
    PriceFresh
    BookedWereFilled
    FillsAccounted
    AccountFollowsJournal
CHECK_DEADLOCK FALSE
