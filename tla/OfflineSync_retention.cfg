SPECIFICATION Spec
CONSTANTS
    t1 = t1
    t2 = t2
    t3 = t3
    d1 = d1
    d2 = d2
    d3 = d3
    m1 = m1
    m2 = m2
    p1 = p1
    Terminals = {t1, t2}
    Workers = {p1, d2}
    Pullers = {d2}
    Tablets = {p1}
    Host <- MCHost
    Items = {1, 2, 3}
    Effects = {1, 2, 3}
    Home <- HomeT1
    Effect <- EffectOwn
    Sales = {}
    Attributed = {}
    Unstamped = {}
    Anonymous = {}
    Split = {}
    StoreRows = {}
    Priority <- PriorityEqual
    Refusable = {}
    Faulty = {1}
    Deletable = {1}
    BatchLimit = 2
    PageLimit = 2
    MaxAttempts = 2
    Retention = 1
    MaxTime = 4
    MaxCrashes = 0
CHECK_DEADLOCK FALSE
INVARIANTS AnchorCovers
PROPERTIES NothingPassed
