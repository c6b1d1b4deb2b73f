\* A connection test whose request is answered while its task is still running.
SPECIFICATION TestSpec
CONSTANTS
    r1 = r1
    r2 = r2
    r3 = r3
    r4 = r4
    Requests = {r1, r2, r3, r4}
    ShapeOf <- OneNests
    Conns = {k1, k2}
    Tests = {r3}
    History = 1
    MaxRows = 2
    PageSize = 1
INVARIANTS
    FailureIsDeserved
CHECK_DEADLOCK FALSE
