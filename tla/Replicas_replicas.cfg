SPECIFICATION Spec
CONSTANTS
    till = till
    office = office
    main = main
    depot = depot
    s1 = s1
    s2 = s2
    r1 = r1
    a1 = a1
    c1 = c1
    c2 = c2
    Terminals = {till, office, kiosk}
    Locations = {main}
    DefaultLocation = main
    OpeningStock <- MCOpening
    Overselling <- OfficeOversells
    Sales = {s1, s2}
    Refunds = {r1}
    Adjustments = {a1}
    Changes = {c1}
    Home <- MCHome
    SaleOf <- MCSaleOf
    MaxQty = 2
    Budget = 2
    Unset = Unset
CHECK_DEADLOCK FALSE
INVARIANTS TypeOK Accounted
PROPERTIES ImplementsCounter
