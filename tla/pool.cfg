\* Fewer nested handlers than connections; a connection test; pages of the log.
SPECIFICATION FairTestSpec
CONSTANTS
    r1 = r1
    r2 = r2
    r3 = r3
    r4 = r4
    Requests = {r1, r2, r3, r4}
    ShapeOf <- OneNests
    Conns = {k1, k2}
    Tests = {r3}
    History = 1
    MaxRows = 3
    PageSize = 1
INVARIANTS
    OneHolder
    WalkMisses
PROPERTIES
    EveryRequestAnswered
    ResultsStay
    EveryTestSettles
CHECK_DEADLOCK FALSE
