\* Words of 4 bits and ticks of 2: two tasks, a cyclic handler and an alarm.
CONSTANTS
    Modulus = 16
    TIMER_PERIOD = 2
    t1 = t1
    t2 = t2
    c1 = c1
    a1 = a1
    TSK <- TwoTasks
    CYC <- OneCyc
    ALM <- OneAlm
    Tmo <- Tmos
    Cyctim <- Cyctims
    Cycphs <- Cycphss
    Almtim <- Almtims
VIEW LiveTimes
CONSTRAINT RestartedInTime
SPECIFICATION TimerSpec
INVARIANTS
    TimerQueueExact
    NoOverdueEvent
    PhaseKept
PROPERTIES
    NoEarlyEvent
