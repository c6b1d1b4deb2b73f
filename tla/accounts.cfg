\* Two people of one company with one address, two browsers.
SPECIFICATION Spec
CONSTANTS
    gina = gina
    mary = mary
    None = None
    Browsers = {b1, b2}
    Identities = {gina, mary}
    Calls = {c1, c2}
    States = {s1, s2}
    ProviderOf <- Provider
    EmailOf <- Email
    DomainOf <- Domain
SYMMETRY Symmetry
INVARIANTS
    AccountsInv
    SessionIsOwn
    ConflictHasReason
    BurntStaysBurnt
    WelcomedOnce
CHECK_DEADLOCK FALSE
