\* One message, two submissions: failures, disconnects, crashes and retries.
SPECIFICATION FairSpec
CONSTANTS
    c1 = c1  d1 = d1   nodom = nodom  nocust = nocust
    a1 = a1  a2 = a2  block = block  allow = allow  mail = mail  probe = probe
    Msgs = {mail}
    MaxSubmissions = 2
    MaxEdits = 0
    Customers = {c1}
    NoCustomer = nocust
    Domains = {d1, nodom}
    NoDomain = nodom
    CustomerOf <- MCCustomerOf
    Rcpts = {a1, a2}
    Rules = {block, allow}
    Owner <- MCOwner
    Exceptions = {allow}
    Envelope <- OneMail
    Sessions <- OnlyLogin
    SpfEnforce = TRUE
    RateMax = 2
    FetchAttempts = 2
    LogAttempts = 3
    Confidences = {69, 70}
    InitVerified = {d1}
    InitLegacy = {}
    InitActive = {block, allow}
    InitSuppressed <- None
    InitAi = {c1}
INVARIANTS
    TypeOK
    AcceptedWasHandedOver
    RefusedNeverHandedOver
    RowsTellTheTruth
    GatewayInv
PROPERTIES
    KeepsPromise
    EveryTransactionEnds
CHECK_DEADLOCK FALSE
