\* Three tasks: every call on one mutex of each kind at two priorities, and
\* chains of inheritance over two mutexes at three priorities.
CONSTANTS
    NumTask = 3
    NumPri = 3
    IntMax = 1
    FreeTcb = free
    free = free
    none = none
    m1 = m1
    m2 = m2
    NoMtx = none
    WaitQ <- TwoMutexes
    MUTEX <- TwoMutexes
    MtxKind <- AllKinds
VIEW WithoutErcd
SYMMETRY Symmetry
CONSTRAINT Bounds
SPECIFICATION MCSpec
INVARIANTS
    MutexLinksExact
    PriorityExact
    CeilingRespected
PROPERTIES
    NoTheft
