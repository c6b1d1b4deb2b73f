\* A domain that changes hands while it is being checked and used.
SPECIFICATION CustomerSpec
CONSTANTS
    c1 = c1  c2 = c2  n1 = n1  n2 = n2
    t1 = t1  t2 = t2  r1 = r1  r2 = r2
    Customers = {c1, c2}
    Names = {n1, n2}
    Managed = {n1}
    Controls <- MCControls
    Primary <- MCPrimary
    Tokens = {t1, t2}
    Requests = {r1, r2}
    Tabs = {q1}
    None = None
SYMMETRY Symmetry
INVARIANTS
    ControlInv
    PrimaryMeansControl
    SessionMeansControl
