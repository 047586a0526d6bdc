\* Two pools of one block, two tasks at two priorities, from the boot on.
CONSTANTS
    NumTask = 2
    NumPri = 2
    IntMax = 1
    MpfCnt = 1
    FreeTcb = free
    free = free
    none = none
    p1 = p1
    p2 = p2
    l1 = l1
    l2 = l2
    NoMpf = none
    WaitQ <- TwoQueues
    MPF <- TwoPools
    LockQ <- TwoLockQ
VIEW WithoutErcd
CONSTRAINT Bounds
SPECIFICATION PoolSpec
INVARIANTS
    PoolQueuesExact
    LockExclusive
    BlocksExact
    NoIdleBlock
