SPECIFICATION StoreSpec
CONSTANTS
    shelf = shelf
    depot = depot
    s1 = s1
    s2 = s2
    Route <- MCRoute
    DefaultLocation = depot
    OpeningStock <- MCDeepOpening
    Sales = {s1, s2}
    Zones = {}
    Screens = {}
    Idle = Idle
    Members = {s1, s2}
    MaxQty = 2
    Price = 1
    PointCost = 2
    SplitStore = FALSE
    Transfers = {}
    Counts = {}
    Orders = {}
    MaxLine = 2
    MaxOrder = 1
    MaxReceipts = 1
    Uncounted = Uncounted
CHECK_DEADLOCK FALSE
INVARIANTS StoreTypeOK StockConserved ReturnsMatch LoyaltyAgrees RefundsBounded
PROPERTIES SettledOnce
