\* A semaphore with up to two units, an event flag of two bits and a mailbox
\* with three messages, of every kind and one at a time; three tasks at two
\* priorities.
CONSTANTS
    NumTask = 3
    NumPri = 2
    IntMax = 1
    SemCntMax = 2
    FreeTcb = free
    free = free
    none = none
    s1 = s1
    f1 = f1
    x1 = x1
    a = a
    b = b
    m1 = m1
    m2 = m2
    m3 = m3
    nil = nil
    NoObj = none
    ChgPriHook <- SyncChgPri
    RelWaiHook <- SyncRelWai
    NoMsg = nil
    WaitQ <- Heads
    SEM <- OneSem
    FLG <- OneFlg
    MBX <- OneMbx
    FlgBit <- TwoBits
    FlgWaits <- SomeWaits
    Msg <- ThreeMsgs
    MsgPri <- MsgPris
    Started <- Started011
VIEW WithoutErcd
CONSTRAINT Bounds
ACTION_CONSTRAINT TimedWaits
SPECIFICATION MCSpec
INVARIANTS
    SyncQueuesExact
    NoSatisfiedWaiter
    MessagesInOrder
PROPERTIES
    UnitsInOrder
    EventHadOnce
