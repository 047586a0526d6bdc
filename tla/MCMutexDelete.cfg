\* A deadlock of two mutexes that deleting one of them breaks.
CONSTANTS
    NumTask = 3
    NumPri = 3
    IntMax = 1
    FreeTcb = free
    free = free
    none = none
    m1 = m1
    m2 = m2
    NoMtx = none
    WaitQ <- TwoMutexes
    MUTEX <- TwoMutexes
    MtxKind <- Mixed
SPECIFICATION DeleteSpec
INVARIANT PriorityExact
