\* A message buffer of either of two sizes with two messages, a memory pool with
\* blocks of two sizes, and two ports; three tasks at two priorities.
CONSTANTS
    NumTask = 3
    NumPri = 2
    IntMax = 1
    RnoCount = 2
    FreeTcb = free
    free = free
    none = none
    b1 = b1
    b1r = b1r
    l1 = l1
    p1 = p1
    p1a = p1a
    p2 = p2
    p2a = p2a
    m1 = m1
    m2 = m2
    NoObj = none
    ChgPriHook <- CommChgPri
    RelWaiHook <- CommRelWai
    WaitQ <- Heads
    MBF <- OneMbf
    MbfMsg <- Messages
    MsgSz <- MessageSizes
    SendQ <- SendQs
    RecvQ <- RecvQs
    BufSizes <- BufferSizes
    MaxMsgSizes <- MbfMaxes
    MPL <- OneMpl
    MplSizes <- PoolSizes
    BlkSizes <- BlockSizes
    POR <- TwoPor
    CallQ <- CallQs
    AcceptQ <- AcceptQs
    PorKinds <- Ports
    RdvPattern <- Patterns
    RdvSizes <- OneSize
    Started <- Started011
VIEW WithoutErcd
CONSTRAINT Bounds
ACTION_CONSTRAINTS DispatchFirst TimedWaits
SPECIFICATION MCSpec
INVARIANTS
    CommQueuesExact
    CommNoSatisfiedWaiter
    BufferExact
    HeapExact
    RdvExact
PROPERTIES
    ServedInOrder
    AnsweredByItsNumber
