-------------------------------- MODULE Task --------------------------------
(***************************************************************************)
(* Task management, task-dependent synchronization and dispatching of the  *)
(* micro T-Kernel: kernel/tkernel/task_manage.c, task_sync.c, task.c and   *)
(* the ARMv7-M dispatcher.  The only waits are those of tk_slp_tsk and     *)
(* tk_dly_tsk; the synchronization objects have modules of their own.      *)
(*                                                                         *)
(* A system call is one step: its body is a critical section.  Between two *)
(* calls interrupt handlers may make calls of their own, also between the  *)
(* request of a dispatch (PendSV pending) and the dispatch, and while the  *)
(* dispatcher waits for a task to execute.  A call that returns an error   *)
(* changes nothing and is no step.                                         *)
(***************************************************************************)
EXTENDS TKernel

CONSTANT IntMax         \* INT_MAX, the limit of wupcnt and suscnt

ASSUME IntMaxAssumption == IntMax \in Nat \ {0}

VARIABLES
    kn,                 \* the kernel state
    ctxtsk,             \* knl_ctxtsk, NoTask while the dispatcher runs
    dispatch_disabled,  \* knl_dispatch_disabled
    pendsv,             \* the PendSV exception that runs the dispatcher is pending
    basepri             \* the task in execution has disabled interrupts (DI)

vars == <<kn, ctxtsk, dispatch_disabled, pendsv, basepri>>

DDS == {"ENABLE", "DISABLE_IMPLICIT", "DISABLE"}

(***************************************************************************)
(* Callers.  "task" is the task in execution, "hdr" an interrupt handler   *)
(* (the task-independent part).                                            *)
(***************************************************************************)
Caller == {"task", "hdr"}

InTask == ctxtsk # NoTask /\ ~pendsv
CanCall(c) == IF c = "task" THEN InTask ELSE ~basepri
NonSelf(c, t) == c = "task" => t # ctxtsk                 \* CHECK_NONSELF
CanWait == InTask /\ ~basepri /\ dispatch_disabled = "ENABLE"   \* CHECK_DISPATCH

\* END_CRITICAL_SECTION: request a dispatch when another task should execute.
EndCritical(k, c) ==
    pendsv' = (pendsv \/ (/\ c = "hdr" \/ ~basepri
                          /\ ctxtsk # k.schedtsk
                          /\ dispatch_disabled = "ENABLE"))

\* A system call by c whose critical section leaves the kernel in state k.
SystemCall(c, k) ==
    /\ kn' = k
    /\ EndCritical(k, c)
    /\ UNCHANGED <<ctxtsk, dispatch_disabled, basepri>>

(***************************************************************************)
(* Task management (task_manage.c).                                        *)
(***************************************************************************)
CreateTcb(k, p) ==
    LET t == Head(k.que[FreeTcb])
    IN  MakeDormant([k EXCEPT !.que[FreeTcb] = Tail(@), !.ipriority[t] = p], t)

CreTsk(p) ==
    /\ InTask
    /\ kn.que[FreeTcb] # <<>>
    /\ SystemCall("task", CreateTcb(kn, p))

\* The other fields of a free TCB are dead: the next tk_cre_tsk sets them all.
ReturnTcb(k, t) ==
    [MakeDormant([k EXCEPT !.ipriority[t] = 0], t) EXCEPT
        !.que = QueInsert(@, t, FreeTcb),
        !.state[t] = "NONEXIST"]

DelTsk(t) ==
    /\ InTask /\ t # ctxtsk
    /\ kn.state[t] = "DORMANT"
    /\ SystemCall("task", ReturnTcb(kn, t))

StaTsk(c, t) ==
    /\ CanCall(c) /\ NonSelf(c, t)
    /\ kn.state[t] = "DORMANT"
    /\ SystemCall(c, MakeReady(kn, t))

\* knl_force_dispatch: the context of the calling task is abandoned.
ForceDispatch ==
    /\ dispatch_disabled' = "DISABLE_IMPLICIT"
    /\ ctxtsk' = NoTask
    /\ pendsv' = TRUE
    /\ basepri' = FALSE

ExtTsk ==
    /\ InTask
    /\ kn' = MakeDormant(Detach(kn, ctxtsk), ctxtsk)
    /\ ForceDispatch

ExdTsk ==
    /\ InTask
    /\ kn' = ReturnTcb(Detach(kn, ctxtsk), ctxtsk)
    /\ ForceDispatch

TerTsk(t) ==
    /\ InTask /\ t # ctxtsk
    /\ kn.state[t] \in Alive /\ ~kn.klocked[t]
    /\ SystemCall("task", MakeDormant(Detach(kn, t), t))

\* With no mutex held or waited for, knl_chg_pri_mutex grants p as it is;
\* tskpri = TPRI_INI is the case p = ipriority.
ChgPri(c, t, p) ==
    /\ CanCall(c)
    /\ kn.state[t] # "NONEXIST"
    /\ LET k == [kn EXCEPT !.bpriority[t] = p]
       IN  SystemCall(c, IF k.state[t] = "READY" THEN MoveReady(k, t, p)
                         ELSE [k EXCEPT !.priority[t] = p])

RotRdq(c, p) ==
    /\ CanCall(c)
    /\ SystemCall(c, RotateReadyQueue(kn, p))

\* tskpri = TPRI_RUN.
RotRdqRun(c) ==
    /\ CanCall(c)
    /\ SystemCall(c, IF c = "hdr" THEN RotateReadyQueueRun(kn)
                     ELSE RotateReadyQueue(kn, kn.priority[ctxtsk]))

RelWai(c, t) ==
    /\ CanCall(c)
    /\ kn.state[t] \in WaitBit
    /\ SystemCall(c, WaitRelease(kn, t, "E_RLWAI"))

(***************************************************************************)
(* Task synchronization (task_sync.c).                                     *)
(***************************************************************************)
SusTsk(c, t) ==
    /\ CanCall(c) /\ NonSelf(c, t)
    /\ kn.state[t] \in Alive
    /\ ~(t = ctxtsk /\ dispatch_disabled = "DISABLE")
    /\ kn.suscnt[t] < IntMax
    /\ SystemCall(c, Suspend(kn, t))

RsmTsk(c, t) ==
    /\ CanCall(c) /\ NonSelf(c, t)
    /\ kn.state[t] \in {"SUSPEND", "WAITSUS"}
    /\ SystemCall(c, Resume(kn, t, kn.suscnt[t] - 1))

FrsmTsk(c, t) ==
    /\ CanCall(c) /\ NonSelf(c, t)
    /\ kn.state[t] \in {"SUSPEND", "WAITSUS"}
    /\ SystemCall(c, Resume(kn, t, 0))

\* Fault: counted wakeup requests are not looked at.
SlpTskAlways(tmout) ==
    /\ CanWait /\ tmout # "POL"
    /\ SystemCall("task", MakeWait([kn EXCEPT !.wspec[ctxtsk] = "slp",
                                              !.wercd[ctxtsk] = "E_TMOUT"],
                                   ctxtsk, tmout))

SlpTsk(tmout) ==
    /\ CanWait
    /\ IF kn.wupcnt[ctxtsk] > 0
       THEN SystemCall("task", [kn EXCEPT !.wupcnt[ctxtsk] = @ - 1])
       ELSE /\ tmout # "POL"
            /\ SystemCall("task", MakeWait([kn EXCEPT !.wspec[ctxtsk] = "slp",
                                                      !.wercd[ctxtsk] = "E_TMOUT"],
                                           ctxtsk, tmout))

\* Fault: the error code is left as the sleep initialised it.
WupTskNoErcd(c, t) ==
    /\ CanCall(c) /\ NonSelf(c, t)
    /\ kn.state[t] \in WaitBit /\ kn.wspec[t] = "slp"
    /\ SystemCall(c, WaitRelease(kn, t, kn.wercd[t]))

WupTsk(c, t) ==
    /\ CanCall(c) /\ NonSelf(c, t)
    /\ kn.state[t] \in Alive
    /\ \/ /\ kn.state[t] \in WaitBit /\ kn.wspec[t] = "slp"
          /\ SystemCall(c, WaitRelease(kn, t, "E_OK"))
       \/ /\ ~(kn.state[t] \in WaitBit /\ kn.wspec[t] = "slp")
          /\ kn.wupcnt[t] < IntMax
          /\ SystemCall(c, [kn EXCEPT !.wupcnt[t] = @ + 1])

CanWup(c, t) ==
    /\ CanCall(c)
    /\ kn.state[t] \in Alive
    /\ SystemCall(c, [kn EXCEPT !.wupcnt[t] = 0])

\* A delay that runs out is the normal end of the call: ercd is E_OK.
DlyTsk ==
    /\ CanWait
    /\ SystemCall("task", MakeWait([kn EXCEPT !.wspec[ctxtsk] = "dly",
                                              !.wercd[ctxtsk] = "E_OK"],
                                   ctxtsk, "TIME"))

(***************************************************************************)
(* The system timer (timer.c).  A tick at which several events are due is  *)
(* several steps.  knl_wait_release_tmout leaves ercd as the wait set it.  *)
(***************************************************************************)
\* Fault: the tick ends without looking for a dispatch.
TimerTickQuiet == ~basepri /\ UNCHANGED vars

TimerTick ==
    /\ ~basepri
    /\ SystemCall("hdr", kn)

\* Fault: a suspended wait is not released.
TimerEventWaitOnly(t) ==
    /\ ~basepri
    /\ kn.wtmeb[t] /\ kn.state[t] = "WAIT"
    /\ SystemCall("hdr", WaitRelease(kn, t, kn.wercd[t]))

TimerEvent(t) ==
    /\ ~basepri
    /\ kn.wtmeb[t]
    /\ SystemCall("hdr", WaitRelease(kn, t, kn.wercd[t]))

(***************************************************************************)
(* Dispatch control (cpuctl.c) and interrupt control (DI, EI).             *)
(***************************************************************************)
DisDsp ==
    /\ InTask /\ ~basepri
    /\ dispatch_disabled' = "DISABLE"
    /\ UNCHANGED <<kn, ctxtsk, pendsv, basepri>>

EnaDsp ==
    /\ InTask /\ ~basepri
    /\ dispatch_disabled' = "ENABLE"
    /\ pendsv' = (ctxtsk # kn.schedtsk)
    /\ UNCHANGED <<kn, ctxtsk, basepri>>

CpuLock ==
    /\ InTask /\ ~basepri
    /\ basepri' = TRUE
    /\ UNCHANGED <<kn, ctxtsk, dispatch_disabled, pendsv>>

CpuUnlock ==
    /\ InTask /\ basepri
    /\ basepri' = FALSE
    /\ UNCHANGED <<kn, ctxtsk, dispatch_disabled, pendsv>>

(***************************************************************************)
(* The dispatcher (dispatch.S): it abandons or saves the context of        *)
(* ctxtsk, then waits, with interrupts enabled, until there is a task to   *)
(* execute.  The task resumes and returns what its wait left in ercd.      *)
(***************************************************************************)
DispatchEntry ==
    /\ pendsv /\ ~basepri
    /\ pendsv' = FALSE
    /\ dispatch_disabled' = "DISABLE_IMPLICIT"
    /\ ctxtsk' = NoTask
    /\ UNCHANGED <<kn, basepri>>

DispatchSwitch ==
    /\ ctxtsk = NoTask /\ ~pendsv
    /\ kn.schedtsk # NoTask
    /\ ctxtsk' = kn.schedtsk
    /\ dispatch_disabled' = "ENABLE"
    /\ kn' = [kn EXCEPT !.wercd[kn.schedtsk] = "none"]
    /\ UNCHANGED <<pendsv, basepri>>

(***************************************************************************)
(* Start-up (knl_task_initialize, sysinit.c): all TCBs are free, then the  *)
(* initial task, of the highest priority, is created and started and the   *)
(* first dispatch is forced.                                               *)
(***************************************************************************)
InitKernel ==
    [state |-> [t \in Task |-> "NONEXIST"],
     priority |-> [t \in Task |-> 0],
     bpriority |-> [t \in Task |-> 0],
     ipriority |-> [t \in Task |-> 0],
     wupcnt |-> [t \in Task |-> 0],
     suscnt |-> [t \in Task |-> 0],
     klocked |-> [t \in Task |-> FALSE],
     klockwait |-> [t \in Task |-> FALSE],
     wspec |-> [t \in Task |-> NoSpec],
     wercd |-> [t \in Task |-> "none"],
     wtmeb |-> [t \in Task |-> FALSE],
     que |-> [h \in QueHead |-> IF h = FreeTcb THEN [i \in Task |-> i] ELSE <<>>],
     bitmap |-> {},
     top_priority |-> NumPri,
     klocktsk |-> NoTask,
     schedtsk |-> NoTask]

Init ==
    /\ kn = MakeReady(CreateTcb(InitKernel, 0), 1)
    /\ ctxtsk = NoTask
    /\ dispatch_disabled = "DISABLE_IMPLICIT"
    /\ pendsv = TRUE
    /\ basepri = FALSE

TaskOp ==
    \/ \E p \in Pri : CreTsk(p)
    \/ \E t \in Task : DelTsk(t) \/ TerTsk(t)
    \/ ExtTsk \/ ExdTsk
    \/ \E tmout \in TMO : SlpTsk(tmout)
    \/ DlyTsk
    \/ DisDsp \/ EnaDsp \/ CpuLock \/ CpuUnlock

AnyOp ==
    \E c \in Caller :
        \/ \E t \in Task :
            \/ StaTsk(c, t) \/ RelWai(c, t)
            \/ SusTsk(c, t) \/ RsmTsk(c, t) \/ FrsmTsk(c, t)
            \/ WupTsk(c, t) \/ CanWup(c, t)
            \/ \E p \in Pri : ChgPri(c, t, p)
        \/ \E p \in Pri : RotRdq(c, p)
        \/ RotRdqRun(c)

Next ==
    \/ TaskOp
    \/ AnyOp
    \/ TimerTick
    \/ \E t \in Task : TimerEvent(t)
    \/ DispatchEntry
    \/ DispatchSwitch

Spec == Init /\ [][Next]_vars

-----------------------------------------------------------------------------
(***************************************************************************)
(* Properties.                                                             *)
(***************************************************************************)

\* The variables hold values of their C types.
TypeOK ==
    /\ kn \in KernelState
    /\ ctxtsk \in Task \cup {NoTask}
    /\ dispatch_disabled \in DDS
    /\ pendsv \in BOOLEAN
    /\ basepri \in BOOLEAN

\* The one ring a task in state s belongs to; none while it waits, is
\* suspended or dormant.
RingOf(k, t) ==
    CASE k.state[t] = "READY" -> {k.priority[t]}
      [] k.state[t] = "NONEXIST" -> {FreeTcb}
      [] OTHER -> {}

\* The rings and the task states agree, and no TCB is linked twice: a TCB
\* left in a ring it should have quit would be dispatched or reused.
RingsMatchStates ==
    /\ \A h \in QueHead, t \in Task : InRing(kn.que[h], t) <=> h \in RingOf(kn, t)
    /\ \A h \in QueHead : IsInjective(kn.que[h])

\* The bitmap and the cached top_priority describe the ready rings exactly,
\* whatever the order of insertions, deletions and rotations.
ReadyQueueExact ==
    /\ kn.bitmap = {p \in Pri : kn.que[p] # <<>>}
    /\ kn.top_priority \in kn.bitmap \cup {NumPri}
    /\ \A p \in kn.bitmap : kn.top_priority <= p

\* The incrementally maintained schedtsk is always the head of the highest
\* non-empty ready ring, after every call made in any context.
SchedIsTop == kn.schedtsk = ReadyQueueTop(kn)

\* A task is suspended exactly while suspend requests are outstanding.
SuspendedIffRequested ==
    \A t \in Task : kn.state[t] # "NONEXIST" =>
        (kn.suscnt[t] > 0 <=> kn.state[t] \in {"SUSPEND", "WAITSUS"})

\* The state of the kernel is consistent in every part: a task is linked where
\* its state says, the ready queue describes itself, and a suspension ends
\* with its last request, in whatever order and context the calls come.
KernelStateExact ==
    TypeOK /\ RingsMatchStates /\ ReadyQueueExact /\ SuspendedIffRequested

\* No task sleeps over a wakeup request that has been counted.
NoLostWakeup ==
    \A t \in Task : kn.state[t] \in WaitBit /\ kn.wspec[t] = "slp" => kn.wupcnt[t] = 0

\* A timer event never outlives its wait: it would release a later wait, or
\* insert a task that is already in the ready queue.
NoStaleTimer ==
    \A t \in Task : kn.wtmeb[t] => kn.state[t] \in WaitBit

\* The task that goes on executing is READY: a call that ends ctxtsk's right
\* to run has its dispatch requested before the task continues (wait.c says
\* of ctxtsk during a call that it "does not be in WAIT state").
RunningIsReady == InTask => kn.state[ctxtsk] = "READY"

\* The right task is selected, and the one that executes may.
RightTaskRuns == SchedIsTop /\ RunningIsReady

\* A task that waits without a timeout is never told that it timed out.
NoSpuriousTimeout ==
    [][\A t \in Task :
          /\ kn.state[t] \in WaitBit /\ ~kn.wtmeb[t]
          /\ kn'.state[t] \in {"READY", "SUSPEND"}
          => kn'.wercd[t] # "E_TMOUT"]_vars

(***************************************************************************)
(* Liveness.  The exceptions are taken when they are pending and enabled;  *)
(* the timer interrupts forever and each of its events is due some day; a  *)
(* task that has disabled dispatching or interrupts enables them again.    *)
(***************************************************************************)
Fairness ==
    /\ WF_vars(DispatchEntry) /\ WF_vars(DispatchSwitch)
    /\ SF_vars(TimerTick)
    /\ \A t \in Task : SF_vars(TimerEvent(t))
    /\ WF_vars(CpuUnlock) /\ SF_vars(dispatch_disabled = "DISABLE" /\ EnaDsp)

FairSpec == Spec /\ Fairness

\* A task that should execute but does not is dispatched in the end, also
\* when the call that made it the first was made with interrupts disabled
\* and so requested no dispatch.
DispatchHappens ==
    (ctxtsk # kn.schedtsk) ~> (ctxtsk = kn.schedtsk)

\* A wait with a timeout ends.
TimedWaitEnds ==
    \A t \in Task : (kn.wtmeb[t]) ~> (~kn.wtmeb[t])

=============================================================================
