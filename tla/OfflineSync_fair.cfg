SPECIFICATION FairSpec
CONSTANTS
    t1 = t1
    t2 = t2
    t3 = t3
    d1 = d1
    d2 = d2
    d3 = d3
    m1 = m1
    m2 = m2
    p1 = p1
    Terminals = {t1, t2}
    Workers = {d1, d2}
    Pullers = {d1, d2}
    Tablets = {}
    Host <- MCHost
    Items = {1, 2}
    Effects = {1, 2}
    Home <- HomeT1
    Effect <- EffectOwn
    Sales = {}
    Attributed = {}
    Unstamped = {}
    Anonymous = {}
    Split = {}
    StoreRows = {}
    Priority <- PriorityLater
    Refusable = {2}
    Faulty = {2}
    Deletable = {}
    BatchLimit = 1
    PageLimit = 1
    MaxAttempts = 2
    Retention = 1
    MaxTime = 2
    MaxCrashes = 1
CHECK_DEADLOCK FALSE
INVARIANTS TypeOK
PROPERTIES Drains Arrives NothingPassed
