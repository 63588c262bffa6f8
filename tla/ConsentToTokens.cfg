SPECIFICATION AuthSpec
CONSTANTS
    None = None
    c1 = c1
    a1 = a1
    b1 = b1
    k1 = k1
    k2 = k2
    t1 = t1
    t2 = t2
    t3 = t3
    w1 = w1
    b2 = b2
    x1 = x1
    x2 = x2
    r1 = r1
    Clients = {c1}
    Public = {c1}
    Refreshing = {c1}
    Accounts = {a1}
    Bindings = {b1, b2}
    Codes = {k1, k2}
    Tokens = {t1, t2, t3}
    Workers = {w1}
    CodeTTL = 1
    RefreshTTL = 2
    AbsoluteMax = 2
    Grace = 0
    ClaimAge = 1
    MaxTime = 3
    MaxCrashes = 1
    MaxFaults = 0
    Tabs = {x1, x2}
    Requests = {r1}
    RequestTTL = 1
    Registered <- MCRegistered
SYMMETRY Symmetry
INVARIANTS
    ConsentTypeOK
    IndexCoversHeld
    RevokedGrantIsGone
    DeletedClientLeavesNoToken
    OneCodePerRequest
    CodeFollowsRequest
CHECK_DEADLOCK FALSE
