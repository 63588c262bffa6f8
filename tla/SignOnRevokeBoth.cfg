SPECIFICATION Spec
CONSTANTS
    i1 = i1
    u1 = u1
    u2 = u2
    n1 = n1
    s1 = s1
    s2 = s2
    h1 = h1
    h2 = h2
    t1 = t1
    o1 = o1
    o2 = o2
    w1 = w1
    Ids = {i1}
    Subs = {u1, u2}
    Names = {n1}
    Sids = {s1, s2}
    Hashes = {h1, h2}
    Configs <- OpenConfig
    Requests <- ByBoth
    Legacy = {}
    LegacySub <- LegacyU1
    None = None
    States = {t1}
    Origins = {o1, o2}
    Hosts = {o1}
    Canonical = o1
    RegistrarHosts <- Lists
    OwnerOf <- TwoUsers
    WithSid = {TRUE}
    Workers = {w1}
    MaxRegs = 2
    MaxRestarts = 1
SYMMETRY Symmetry
PROPERTIES
    CombinedRevokesEither
CHECK_DEADLOCK FALSE
