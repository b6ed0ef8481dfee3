SPECIFICATION FairSpec
CONSTANTS
    t1 = t1
    t2 = t2
    t3 = t3
    n1 = n1
    n2 = n2
    n3 = n3
    Threads = {t1, t2, t3}
    NoThread = NoThread
    Registering = {t1}
    Readers = {t1, t3}
    Followers = {t1}
    Retirers = {t1, t2}
    Scanners = {t2}
    Nodes = {n1, n2, n3}
    FirstNode = n1
    nullptr = nullptr
    scan_threshold_ = 2
    kGlobalThreshold = 9
    Buffered = {t1}
INVARIANTS
    DeletedInUseWasOverlooked
    RetiredInOnePlace
PROPERTIES
    RetiredIsReclaimed
