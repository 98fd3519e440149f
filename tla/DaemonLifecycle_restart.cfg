SPECIFICATION FairSpec
CONSTANTS
    admin = admin
    startup = startup
    r1 = r1
    r2 = r2
    r3 = r3
    None = None
    Callers = {startup, admin}
    Runs = {r1, r2}
INVARIANTS FlagReleased
PROPERTIES StopEnds
