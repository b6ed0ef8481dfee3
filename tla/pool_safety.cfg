SPECIFICATION Spec
CONSTANTS
    NoTask = NoTask
    r1 = r1
    t1 = t1
    t2 = t2
    t3 = t3
    w1 = w1
    w2 = w2
    Tasks = {t1, t2, t3}
    Throwers = {t3}
    Threads = {w1, w2}
    NumThreads = 1
    Capacity = 1
    AddSizes = {1}
    Removals = {r1}
    RemoveSizes = {1, 2}
SYMMETRY PoolSymmetry
INVARIANTS
    PermitPerTask
    LeftoverExact
    ActiveExact
    OneHolderPerTask
    NothingLeftBehind
