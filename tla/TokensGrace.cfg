SPECIFICATION RedeemSpec
CONSTANTS
    None = None
    c1 = c1
    a1 = a1
    b1 = b1
    k1 = k1
    t1 = t1
    t2 = t2
    t3 = t3
    t4 = t4
    w1 = w1
    Clients = {c1}
    Public = {c1}
    Refreshing = {c1}
    Accounts = {a1}
    Bindings = {b1}
    Codes = {k1}
    Tokens = {t1, t2, t3, t4}
    Workers = {w1}
    CodeTTL = 1
    RefreshTTL = 9
    AbsoluteMax = 3
    Grace = 1
    ClaimAge = 9
    MaxTime = 4
    MaxCrashes = 0
    MaxFaults = 0
SYMMETRY TokenSymmetry
INVARIANTS
    LateReplayRefused
CHECK_DEADLOCK FALSE
