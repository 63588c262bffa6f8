SPECIFICATION RedeemSpec
CONSTANTS
    None = None
    c1 = c1
    c2 = c2
    c3 = c3
    a1 = a1
    b1 = b1
    k1 = k1
    t1 = t1
    t2 = t2
    t3 = t3
    t4 = t4
    w1 = w1
    w2 = w2
    Clients = {c1, c2, c3}
    Public = {c1}
    Refreshing = {c1, c2}
    Accounts = {a1}
    Bindings = {b1}
    Codes = {k1}
    Tokens = {t1, t2, t3, t4}
    Workers = {w1, w2}
    CodeTTL = 1
    RefreshTTL = 4
    AbsoluteMax = 3
    Grace = 9
    ClaimAge = 9
    MaxTime = 6
    MaxCrashes = 0
    MaxFaults = 0
SYMMETRY Symmetry
INVARIANTS
    TypeOK
    NothingLost
    GrantCeiling
    OneFirstIssue
    BoundToAuthorization
    RotatedStaysMarked
PROPERTIES
    IndexNeverForgets
CHECK_DEADLOCK FALSE
