\* Three tasks at two priorities and a fast lock with cnt up to 4, or a
\* multi-lock of two locks with wai up to 3.
CONSTANTS
    NumTask = 3
    NumPri = 2
    IntMax = 1
    SemCntMax = 1
    CntMax = 4
    WaiMax = 3
    FreeTcb = free
    free = free
    none = none
    s1 = s1
    f1 = f1
    n0 = n0
    n1 = n1
    id = s1
    mid = f1
    NoObj = none
    ChgPriHook <- LockChgPri
    RelWaiHook <- LockRelWai
    NoLock = none
    WaitQ <- Heads
    SEM <- OneSem
    FLG <- OneFlg
    FlgBit <- TwoLocks
    FlgWaits = {}
    Initial <- Initial011
VIEW View
SYMMETRY Alike
CONSTRAINT Bounds
SPECIFICATION MCSpec
INVARIANTS
    LockExact
    MLockExact
    MNoLostUnlock
