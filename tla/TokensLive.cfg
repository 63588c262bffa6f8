SPECIFICATION FairSpec
CONSTANTS
    None = None
    c1 = c1
    a1 = a1
    b1 = b1
    k1 = k1
    t1 = t1
    t2 = t2
    w1 = w1
    w2 = w2
    Clients = {c1}
    Public = {c1}
    Refreshing = {c1}
    Accounts = {a1}
    Bindings = {b1}
    Codes = {k1}
    Tokens = {t1, t2}
    Workers = {w1, w2}
    CodeTTL = 1
    RefreshTTL = 1
    AbsoluteMax = 3
    Grace = 0
    ClaimAge = 1
    MaxTime = 3
    MaxCrashes = 1
    MaxFaults = 1
PROPERTIES
    RequestAnswered
    ImplementsOneTimeDocs
INVARIANTS
    CodeRedeemedOnce
    ClaimIsExclusive
CHECK_DEADLOCK FALSE
