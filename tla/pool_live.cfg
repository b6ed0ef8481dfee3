SPECIFICATION FairSpec
CONSTANTS
    NoTask = NoTask
    r1 = r1
    t1 = t1
    t2 = t2
    w1 = w1
    w2 = w2
    Tasks = {t1, t2}
    Throwers = {}
    Threads = {w1, w2}
    NumThreads = 2
    Capacity = 1
    AddSizes = {}
    Removals = {r1}
    RemoveSizes = {1}
PROPERTIES
    ImplementsTaskPool
    QueuedTaskRuns
    StopEndsThreads
    DestructorReturns
    ShrinksToTarget
