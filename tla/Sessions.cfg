SPECIFICATION FairSpec
CONSTANTS
    i1 = i1
    o1 = o1
    w1 = w1
    w2 = w2
    f1 = f1
    f2 = f2
    Ids = {i1, o1}
    Orphans = {o1}
    Workers = {w1, w2}
    Flushers = {f1, f2}
    Main = Main
    Life = 1
    MaxTime = 3
    MaxStarts = 3
    MaxCrashes = 1
    MaxFaults = 1
INVARIANTS
    TypeOK
    NoMutationSwallowed
    RevokedStaysRevoked
    NobodyLoggedOut
PROPERTIES
    RevocationReachesDisk
CHECK_DEADLOCK FALSE
