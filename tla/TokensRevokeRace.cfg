SPECIFICATION Spec
CONSTANTS
    None = None
    c1 = c1
    a1 = a1
    b1 = b1
    k1 = k1
    t1 = t1
    t2 = t2
    t3 = t3
    w1 = w1
    w2 = w2
    Clients = {c1}
    Public = {c1}
    Refreshing = {c1}
    Accounts = {a1}
    Bindings = {b1}
    Codes = {k1}
    Tokens = {t1, t2, t3}
    Workers = {w1, w2}
    CodeTTL = 9
    RefreshTTL = 9
    AbsoluteMax = 3
    Grace = 1
    ClaimAge = 9
    MaxTime = 2
    MaxCrashes = 0
    MaxFaults = 0
SYMMETRY Symmetry
INVARIANTS
    RevokedGrantIsGone
CHECK_DEADLOCK FALSE
