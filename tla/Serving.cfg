SPECIFICATION FairSpec
CONSTANTS
    None = None
    Corrupt = Corrupt
    Forged = Forged
    h0 = h0
    h1 = h1
    h2 = h2
    u1 = u1
    u2 = u2
    n1 = n1
    n2 = n2
    o1 = o1
    o2 = o2
    r1 = r1
    r2 = r2
    l1 = l1
    i1 = i1
    secret = secret
    t1 = t1
    c1 = c1
    k1 = k1
    k2 = k2
    Ids = {i1, l1}
    Subs = {u1, u2}
    Names = {n2}
    Sids = {}
    Hashes = {h0, h1, h2}
    Configs <- MCConfigs
    Requests <- BySub
    Legacy = {l1}
    LegacySub <- LegacyU1
    OriginOf <- MCOriginOf
    OriginIn <- MCOriginIn
    PathIn <- MCPathIn
    Extends <- MCExtends
    HasSuffix <- MCHasSuffix
    Hashes40 = {"abcd"}
    AssertionTTL = 1
    ControlMaxLifetime = 2
    Skew = 1
    Envs <- MCEnvs
    Keys = {k1, k2}
    Tokens = {t1}
    Clients = {c1}
    Paths <- MCPaths
    AccessTTL = 1
    MaxTime = 2
    MaxStops = 2
    MaxEdits = 1
    MaxTampers = 1
INVARIANTS
    TypeOK
    TokensOutliveRestarts
    OnlyTheAdmittedPass
    OwnRoutesStay
    BackendSeesTheOwner
    EachTokenHasOneDoor
PROPERTIES
    ComesUp
CHECK_DEADLOCK FALSE
