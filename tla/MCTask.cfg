\* Two tasks at two of three priorities: every call in every order, with
\* fairness.
CONSTANTS
    NumTask = 2
    NumPri = 3
    IntMax = 1
    FreeTcb = free
    free = free
    WaitQ <- NoWaitQ
CONSTRAINT Gap
SPECIFICATION FairSpec
INVARIANTS
    KernelStateExact
    RightTaskRuns
    NoLostWakeup
    NoStaleTimer
PROPERTIES
    KeepsPrecedence
    NoSpuriousTimeout
    DispatchHappens
    TimedWaitEnds
