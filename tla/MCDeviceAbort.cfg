\* The same with waits for any request while one is being executed.
CONSTANTS
    NoObj = none
    none = none
    t1 = t1
    t2 = t2
    t3 = t3
    d1 = d1
    d2 = d2
    o1 = o1
    o2 = o2
    r1 = r1
    r2 = r2
    ser = ser
    dsk = dsk
    Managers <- OpenTasks
    Users <- RequestTasks
    DevCB <- TwoDev
    OpnCB <- TwoOpn
    ReqCB <- TwoReq
    Name <- TwoNames
    Units <- UnitsAndAll
    OpenModes <- Modes
    DDev <- Drivers
    MaxDisSus = 1
ACTION_CONSTRAINT AnyWait
SPECIFICATION Spec
INVARIANT AbortCompletes
