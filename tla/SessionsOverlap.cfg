SPECIFICATION Spec
CONSTANTS
    i1 = i1
    i2 = i2
    o1 = o1
    w1 = w1
    w2 = w2
    f1 = f1
    f2 = f2
    Ids = {i1, i2, o1}
    Orphans = {o1}
    Workers = {w1, w2}
    Flushers = {f1, f2}
    Main = Main
    Life = 1
    MaxTime = 2
    MaxStarts = 2
    MaxCrashes = 0
    MaxFaults = 0
SYMMETRY Symmetry
INVARIANTS
    DeletionsPersist
CHECK_DEADLOCK FALSE
