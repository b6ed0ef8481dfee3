SPECIFICATION Spec
CONSTANTS
    t1 = t1
    t2 = t2
    n1 = n1
    n2 = n2
    Threads = {t1, t2}
    NoThread = NoThread
    Registering = {t1, t2}
    Readers = {t1}
    Followers = {t1}
    Retirers = {t2}
    Scanners = {t2}
    Nodes = {n1, n2}
    FirstNode = n1
    nullptr = nullptr
    scan_threshold_ = 1
    kGlobalThreshold = 9
    Buffered = {t1, t2}
INVARIANTS
    NoUseAfterReclaim
