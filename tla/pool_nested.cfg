\* As many nested handlers as connections.
SPECIFICATION FairSpec
CONSTANTS
    r1 = r1
    r2 = r2
    Requests = {r1, r2}
    ShapeOf <- TwoNest
    Conns = {k1, k2}
PROPERTIES
    EveryRequestAnswered
CHECK_DEADLOCK FALSE
