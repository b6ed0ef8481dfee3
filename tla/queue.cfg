SPECIFICATION FairSpec
CONSTANTS
    e1 = e1
    e2 = e2
    d1 = d1
    d2 = d2
    Enqs = {e1, e2}
    Deqs = {d1, d2}
    dummy = dummy
    nullptr = nullptr
    nothing = nothing
INVARIANTS
    TypeOK
    TailNotBehind
    DequeueTouchesNoFreed
    NodesAccounted
PROPERTIES
    ImplementsFifo
    CallsReturn
