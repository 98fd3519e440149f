SPECIFICATION StoreSpec
CONSTANTS
    shelf = shelf
    depot = depot
    s1 = s1
    s2 = s2
    Route <- MCRoute
    DefaultLocation = depot
    OpeningStock <- MCOpening
    Sales = {s1}
    Zones = {}
    Screens = {}
    Idle = Idle
    Members = {}
    MaxQty = 1
    Price = 1
    PointCost = 2
    SplitStore = FALSE
    Transfers = {t1}
    Counts = {c1}
    Orders = {p1}
    MaxLine = 2
    MaxOrder = 1
    MaxReceipts = 1
    Uncounted = Uncounted
CHECK_DEADLOCK FALSE
INVARIANTS StockConserved
PROPERTIES CountHolds
