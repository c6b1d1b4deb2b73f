\* Redeliveries, a full cache, restarts, and an operator who removes rows.
SPECIFICATION PanelSpec
CONSTANTS
    k1 = k1  k2 = k2  e1 = e1  c1 = c1  nocust = nocust
    Tokens = {k1, k2}
    Stamp <- MCStamp
    Email <- MCEmail
    Tag <- MCTag
    Emails = {e1}
    Customers = {c1}
    NoCustomer = nocust
    Tolerance = 1
    CacheMax = 1
    Horizon = 4
    Ips = {inside, outside}
    Allowed = {inside}
    Limit = 2
    KeepMinutes = 1
    MaxMinute = 1
    MaxHits = 3
INVARIANTS
    WebhookInv
    AnswersAreAudited
    CounterCap
