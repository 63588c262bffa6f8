SPECIFICATION StartSpec
CONSTANTS
    i1 = i1
    i2 = i2
    l1 = l1
    u1 = u1
    n1 = n1
    s1 = s1
    s2 = s2
    h1 = h1
    h2 = h2
    t1 = t1
    t2 = t2
    o1 = o1
    o2 = o2
    w1 = w1
    w2 = w2
    u2 = u2
    Ids = {i1, i2, l1}
    Subs = {u1}
    Names = {n1}
    Sids = {s1, s2}
    Hashes = {h1, h2}
    Configs <- AnyConfig
    Requests <- BySub
    Legacy = {l1}
    LegacySub <- LegacyU1
    None = None
    States = {t1, t2}
    Origins = {o1, o2}
    Hosts = {}
    Canonical = None
    RegistrarHosts = {{}}
    OwnerOf <- OneUser
    WithSid = {TRUE}
    Workers = {w1, w2}
    MaxRegs = 2
    MaxRestarts = 1
SYMMETRY Symmetry
INVARIANTS
    TypeOK
    StateUsedOnce
    ExchangeMatchesAuthorization
    LoggedOutStaysOut
    UsableWhereMade
    RevokedSubjectIsOut
PROPERTIES
    OtherDevicesStay
CHECK_DEADLOCK FALSE
