SPECIFICATION Spec
CONSTANTS
    NoTask = NoTask
    r1 = r1
    t1 = t1
    w1 = w1
    w2 = w2
    Tasks = {t1}
    Throwers = {}
    Threads = {w1, w2}
    NumThreads = 1
    Capacity = 1
    AddSizes = {1}
    Removals = {r1}
    RemoveSizes = {1}
INVARIANTS
    OnlySurplusThreadsExit
