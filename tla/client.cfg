SPECIFICATION FairSpec
CONSTANTS
    l1 = l1
    l2 = l2
    u1 = u1
    s1 = s1
    c1 = c1
    Listens = {l1, l2}
    Unaries = {u1}
    Submits = {s1}
    Syncs = {c1}
    MaxMessages = 1
INVARIANTS
    OneOperationPerTag
    ToldTheTruth
PROPERTIES
    QuietAfterDestroy
    ErrorIsTold
    DestructorReturns
