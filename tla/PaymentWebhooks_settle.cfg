SPECIFICATION PaymentFairSpec
CONSTANTS
    shelf = shelf
    Route <- MCRoute
    DefaultLocation = shelf
    OpeningStock <- MCOpening
    Sales = {s1}
    Zones = {grill}
    Screens = {d1}
    Idle = Idle
    Members = {}
    MaxQty = 1
    Price = 1
    PointCost = 1
    SplitStore = FALSE
    Codes = {q1, q2}
    Cards = {k1}
    Hooks = {h1}
    MaxRows = 2
    NoIntent = NoIntent
CHECK_DEADLOCK FALSE
INVARIANTS PaymentTypeOK SettledQueued 
PROPERTIES TicketsOnlyAdvance IncidentKept PaidReachesTill
