\* The same with every timeout that tk_slp_tsk and the others accept.
CONSTANTS
    Modulus = 16
    TIMER_PERIOD = 2
    t1 = t1
    t2 = t2
    c1 = c1
    a1 = a1
    TSK <- TwoTasks
    CYC <- OneCyc
    ALM <- OneAlm
    Tmo <- AllTmos
    Cyctim <- Cyctims
    Cycphs <- Cycphss
    Almtim <- Almtims
VIEW LiveTimes
CONSTRAINT RestartedInTime
SPECIFICATION TimerSpec
INVARIANT NoOverdueEvent
