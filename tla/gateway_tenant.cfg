\* A message and a connection test at once, from an accepted and a refused peer, while the tenant makes an edit; one message per window.
SPECIFICATION Spec
CONSTANTS
    c1 = c1  d1 = d1   nodom = nodom  nocust = nocust
    a1 = a1  a2 = a2  block = block  allow = allow  mail = mail  probe = probe
    Msgs = {mail, probe}
    MaxSubmissions = 1
    MaxEdits = 1
    Customers = {c1}
    NoCustomer = nocust
    Domains = {d1, nodom}
    NoDomain = nodom
    CustomerOf <- MCCustomerOf
    Rcpts = {a1, a2}
    Rules = {block, allow}
    Owner <- MCOwner
    Exceptions = {allow}
    Envelope <- MailAndProbe
    Sessions <- PeerSessions
    SpfEnforce = TRUE
    RateMax = 1
    FetchAttempts = 2
    LogAttempts = 2
    Confidences = {69, 70}
    InitVerified = {d1}
    InitLegacy = {}
    InitActive = {block, allow}
    InitSuppressed <- None
    InitAi = {c1}
INVARIANTS
    RulesApplied
    SuppressedHoldsBack
    LoggedOnce
CHECK_DEADLOCK FALSE
