SPECIFICATION Spec
CONSTANTS
    t1 = t1
    t2 = t2
    t3 = t3
    d1 = d1
    d2 = d2
    d3 = d3
    m1 = m1
    m2 = m2
    p1 = p1
    Terminals = {t1, t2}
    Workers = {d1, d2, m1}
    Pullers = {d1, d2}
    Tablets = {}
    Host <- MCHost
    Items = {1, 2}
    Effects = {1}
    Home <- HomeT1
    Effect <- EffectPair
    Sales = {1, 2}
    Attributed = {1, 2}
    Unstamped = {1}
    Anonymous = {t1}
    Split = {}
    StoreRows = {}
    Priority <- PriorityEqual
    Refusable = {}
    Faulty = {}
    Deletable = {}
    BatchLimit = 1
    PageLimit = 1
    MaxAttempts = 2
    Retention = 1
    MaxTime = 1
    MaxCrashes = 1
CHECK_DEADLOCK FALSE
INVARIANTS SyncedOnServer AtMostOnce
PROPERTIES ImplementsDelivery
