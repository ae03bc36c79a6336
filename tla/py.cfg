SPECIFICATION Spec
CHECK_DEADLOCK FALSE
CONSTANTS
    t1 = t1
    t2 = t2
    t3 = t3
    Nobody = Nobody
    Threads <- ThreeThreads
    MaxCalls = 1
INVARIANTS LocksAgree CloseCountsAll LateCallsRefused
PROPERTIES ClosedForGood EveryCallReturns
