SPECIFICATION Spec
CONSTANTS
    Tills = {1, 2}
    Entities = {gift}
    Items = {1, 2, 3}
    EntityOf <- MCEntityOf
    TillOf <- MCTillOf
    Requests = {r1, r2}
    Sqlite = TRUE
    NoRequest = NoRequest
    MaxClock = 2
    MaxLosses = 1
CHECK_DEADLOCK FALSE
INVARIANTS ReviewTypeOK  AckedStored ClockAhead
SYMMETRY MCRequests
