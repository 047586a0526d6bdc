------------------------------ MODULE MCDevice ------------------------------
(* Instances of Device for TLC. *)
EXTENDS Device

CONSTANTS t1, t2, t3, d1, d2, o1, o2, r1, r2, ser, dsk, none   \* model values

OpenTasks == {t1, t2}
RequestTasks == {t2, t3}
TwoDev == {d1, d2}
TwoOpn == {o1, o2}
TwoReq == {r1, r2}
TwoNames == {ser, dsk}
UnitsAndAll == {0, 1}
Modes == {{"READ"}, {"READ", "WRITE", "WEXCL"}}

Serial == [drvatr |-> {}, nsub |-> 1, disk |-> FALSE]
Disk == [drvatr |-> {"OPENREQ"}, nsub |-> 0, disk |-> TRUE]
Drivers == ser :> {Serial} @@ dsk :> {Disk}

\* Bound: while a device is open it is the only one, in the first control block,
\* and nobody suspends; a disk is opened only for reading.
OneOpenDevice ==
    dm.resq # <<>> =>
        /\ dm.used = <<d1>> /\ dm.DisSusCnt = 0
        /\ dm.dev[d1].ddev.disk => \A o \in ToSet(dm.resq) : dm.opn[o].omode = {"READ"}
        /\ \A t \in Tsk : pc[t] \notin {"sus", "susev"}

\* Bounds on the callers, see Device.
AnyWait == OneOpenDevice' /\ AloneAtShutdown'

Bounds == OneOpenDevice' /\ NoOverlap' /\ AloneAtShutdown'
=============================================================================
