SPECIFICATION FairSpec
CONSTANTS
    k1 = k1
    k2 = k2
    k3 = k3
    CqCount = 2
    Initial = 2
    Calls = {k1, k2, k3}
    MayDie = {k1, k2}
    SignalThreads = {0, 2}
INVARIANTS
    OneOperationPerContext
    AnsweredOnce
    ContextsAccounted
    CleanExitLeavesNothing
PROPERTIES
    WaitingCallAnswered
    SignalEndsProgram
CHECK_DEADLOCK FALSE
