------------------------------- MODULE Mutex -------------------------------
(***************************************************************************)
(* Mutexes (kernel/tkernel/mutex.c) with priority inheritance and priority *)
(* ceiling, composed with the tasks that lock them, wait for them, change  *)
(* priority, and end while they hold or wait for them.                     *)
(*                                                                         *)
(* The kernel state of Task has more fields here: per mutex its attribute  *)
(* ("none" while the control block is free), its ceiling and its owner,    *)
(* per task the list of the mutexes it holds, latest first, and wid.  The  *)
(* head of the wait queue of mutex m is m itself.                          *)
(***************************************************************************)
EXTENDS Task

CONSTANTS MUTEX,        \* the mutex control blocks
          NoMtx,        \* wid of a task that waits for no mutex
          MtxKind       \* the <<attribute, ceiling>> pairs mutexes are created with

MtxAtr == {"TFIFO", "TPRI", "INHERIT", "CEILING"}

ASSUME MutexAssumption ==
    /\ MUTEX \subseteq WaitQ
    /\ NoMtx \notin MUTEX
    /\ MtxKind \subseteq MtxAtr \X Pri

Exists(k, m) == k.mtxatr[m] # "none"
Waited(k, m) == k.que[m] # <<>>                                 \* mtx_waited
HeadPri(k, m) == k.priority[Head(k.que[m])]                     \* mtx_head_pri
WaitsForMutex(k, t) == k.state[t] \in WaitBit /\ k.wid[t] # NoMtx

(***************************************************************************)
(* The priority of an owner.                                               *)
(***************************************************************************)

\* The priorities that holding m imposes on its owner.
Imposed(k, m) ==
    CASE k.mtxatr[m] = "CEILING" -> {k.ceilpri[m]}
      [] k.mtxatr[m] = "INHERIT" /\ Waited(k, m) -> {HeadPri(k, m)}
      [] OTHER -> {}

HighestPri(k, t, pri) == Min({pri} \cup UNION {Imposed(k, m) : m \in ToSet(k.mtxlist[t])})
OwnerPri(k, t) == HighestPri(k, t, k.bpriority[t])

\* A pending call of knl_change_task_priority(t, pri) in kernel state k; with
\* t = NoTask there is none left.
Pending(k, t, pri) == [k |-> k, t |-> t, pri |-> pri]
Done(k) == Pending(k, NoTask, 0)

\* mtx_chg_pri: t moves in the wait queue of the mutex it waits for; its
\* owner is raised to the priority of t, or reset when it may have had its
\* priority from t.
ChgPriHook(k0, t, oldpri) ==
    LET m == k0.wid[t]
        k == [k0 EXCEPT !.que = QueInsertTpri([k0 EXCEPT !.que = QueRemove(@, t)], t, m)]
        mtxtsk == k.mtxtsk[m]
    IN  IF k.mtxatr[m] # "INHERIT" THEN Done(k)
        ELSE IF k.priority[mtxtsk] > k.priority[t] THEN Pending(k, mtxtsk, k.priority[t])
        ELSE IF k.priority[mtxtsk] = oldpri /\ OwnerPri(k, mtxtsk) # oldpri
             THEN Pending(k, mtxtsk, OwnerPri(k, mtxtsk))
             ELSE Done(k)

ChangeOne(c) ==
    LET t == c.t
        k == [c.k EXCEPT !.priority[t] = c.pri]
    IN  CASE t = NoTask -> c
          [] t # NoTask /\ k.state[t] = "READY" -> Done(MoveReady(c.k, t, c.pri))
          [] t # NoTask /\ k.state[t] \in WaitBit /\ k.wspec[t] \in {"mtx_tpri", "mtx_inherit"}
               -> ChgPriHook(k, t, c.k.priority[t])
          [] OTHER -> Done(k)

\* knl_change_task_priority: its recursion through the hook is always the
\* last thing a call does, so a chain of calls is an iteration.
ChainBound == 2 * NumTask
ChangeTaskPriority(k, t, pri) ==
    LET chain[n \in 0..ChainBound] ==
          IF n = 0 THEN Pending(k, t, pri) ELSE ChangeOne(chain[n-1])
    IN  chain[ChainBound].k

\* reset_priority
ResetPriority(k, t) ==
    IF OwnerPri(k, t) = k.priority[t] THEN k ELSE ChangeTaskPriority(k, t, OwnerPri(k, t))

ReleaseMutex(k, t, m) ==
    ResetPriority([k EXCEPT !.mtxlist[t] = SelectSeq(@, LAMBDA n : n # m)], t)

(***************************************************************************)
(* Handing over and waiting.                                               *)
(***************************************************************************)
RaiseToCeiling(k, t, m) ==
    IF k.mtxatr[m] = "CEILING" /\ k.priority[t] > k.ceilpri[m]
    THEN ChangeTaskPriority(k, t, k.ceilpri[m])
    ELSE k

GetMutex(k, t, m) ==
    RaiseToCeiling([k EXCEPT !.mtxtsk[m] = t, !.mtxlist[t] = <<m>> \o @], t, m)

EndWait(k, t, ercd) == [WaitRelease(k, t, ercd) EXCEPT !.wid[t] = NoMtx]

\* The owner of m gives it up: the first waiting task gets it.
SignalMutex(k, m) ==
    IF Waited(k, m)
    THEN LET t == Head(k.que[m]) IN GetMutex(EndWait(k, t, "E_OK"), t, m)
    ELSE [k EXCEPT !.mtxtsk[m] = NoTask]

\* Fault: the mutexes of an ending task stay locked.
SignalNoMutex(k, t) == k

\* knl_signal_all_mutex; knl_make_dormant then clears the list.
SignalAllMutex(k, t) == FoldLeft(SignalMutex, k, k.mtxlist[t])

\* Fault: the owner keeps the priority of the task that gave up.
RelWaiHookIdle(k, t, m) == k

\* mtx_rel_wai, the release hook of a wait for an INHERIT mutex: t has left
\* the wait queue of m.
RelWaiHook(k, t, m) ==
    IF m # NoMtx /\ k.mtxatr[m] = "INHERIT" /\ k.priority[k.mtxtsk[m]] = k.priority[t]
    THEN ResetPriority(k, k.mtxtsk[m])
    ELSE k

\* knl_wait_release_ng and knl_wait_release_tmout.
ReleaseFailed(k, t, ercd) == RelWaiHook(EndWait(k, t, ercd), t, k.wid[t])

MutexWaitDelete(k, m) == FoldLeft(LAMBDA k1, t : EndWait(k1, t, "E_DLT"), k, k.que[m])

\* knl_ter_tsk: the release hook runs while the state is still a wait state.
EndTask(k, t) ==
    LET k1 == Detach(k, t)
        k2 == IF k.state[t] \in WaitBit THEN RelWaiHook(k1, t, k.wid[t]) ELSE k1
    IN  SignalAllMutex(k2, t)

DormantTask(k, t) == [MakeDormant(k, t) EXCEPT !.mtxlist[t] = <<>>, !.wid[t] = NoMtx]

(***************************************************************************)
(* The calls on mutexes.                                                   *)
(***************************************************************************)

CreMtx(m, kind) ==
    /\ InTask
    /\ ~Exists(kn, m)
    /\ SystemCall("task", [kn EXCEPT !.mtxatr[m] = kind[1], !.ceilpri[m] = kind[2]])

DelMtx(m) ==
    /\ InTask
    /\ Exists(kn, m)
    /\ LET k1 == IF kn.mtxtsk[m] = NoTask THEN kn ELSE ReleaseMutex(kn, kn.mtxtsk[m], m)
           k2 == MutexWaitDelete(k1, m)
       IN  SystemCall("task", [k2 EXCEPT !.mtxatr[m] = "none", !.ceilpri[m] = 0,
                                         !.mtxtsk[m] = NoTask])

WaitForMutex(k, t, m, tmout) ==
    LET atr == k.mtxatr[m]
        k1 == IF atr = "INHERIT" /\ k.priority[k.mtxtsk[m]] > k.priority[t]
              THEN ChangeTaskPriority(k, k.mtxtsk[m], k.priority[t])
              ELSE k
        k2 == MakeWait([k1 EXCEPT !.wid[t] = m,
                                  !.wercd[t] = "E_TMOUT",
                                  !.wspec[t] = CASE atr = "TFIFO" -> "mtx_tfifo"
                                                 [] atr = "INHERIT" -> "mtx_inherit"
                                                 [] OTHER -> "mtx_tpri"],
                       t, tmout)
    IN  [k2 EXCEPT !.que = IF atr = "TFIFO" THEN QueInsert(@, t, m)
                           ELSE QueInsertTpri(k2, t, m)]

LocMtx(m, tmout) ==
    /\ CanWait
    /\ Exists(kn, m) /\ kn.mtxtsk[m] # ctxtsk
    /\ kn.mtxatr[m] = "CEILING" => kn.bpriority[ctxtsk] >= kn.ceilpri[m]
    /\ \/ /\ kn.mtxtsk[m] = NoTask
          /\ SystemCall("task", GetMutex(kn, ctxtsk, m))
       \/ /\ kn.mtxtsk[m] # NoTask /\ tmout # "POL"
          /\ SystemCall("task", WaitForMutex(kn, ctxtsk, m, tmout))

\* Fault: any task can unlock.
UnlMtxAny(m) ==
    /\ InTask
    /\ Exists(kn, m) /\ kn.mtxtsk[m] # NoTask
    /\ SystemCall("task", SignalMutex(ReleaseMutex(kn, kn.mtxtsk[m], m), m))

UnlMtx(m) ==
    /\ InTask
    /\ Exists(kn, m) /\ kn.mtxtsk[m] = ctxtsk
    /\ SystemCall("task", SignalMutex(ReleaseMutex(kn, ctxtsk, m), m))

(***************************************************************************)
(* The calls of task management that meet mutexes, as compiled with        *)
(* USE_MUTEX; they replace those of Task.                                  *)
(***************************************************************************)

\* The ceilings below which (in number) t may not set its base priority.
Ceilings(k, t) ==
    LET awaited == IF WaitsForMutex(k, t) THEN {k.wid[t]} ELSE {}
    IN  {k.ceilpri[m] : m \in {n \in ToSet(k.mtxlist[t]) \cup awaited :
                                 k.mtxatr[n] = "CEILING"}}

\* Fault: ceilings do not limit the base priority.
ChgPriAboveCeiling(c, t, p) ==
    /\ CanCall(c)
    /\ kn.state[t] # "NONEXIST"
    /\ SystemCall(c, ChangeTaskPriority([kn EXCEPT !.bpriority[t] = p],
                                        t, HighestPri(kn, t, p)))

ChgPriMtx(c, t, p) ==
    /\ CanCall(c)
    /\ kn.state[t] # "NONEXIST"
    /\ \A pri \in Ceilings(kn, t) : p >= pri
    /\ SystemCall(c, ChangeTaskPriority([kn EXCEPT !.bpriority[t] = p],
                                        t, HighestPri(kn, t, p)))

TerTskMtx(t) ==
    /\ InTask /\ t # ctxtsk
    /\ kn.state[t] \in Alive /\ ~kn.klocked[t]
    /\ SystemCall("task", DormantTask(EndTask(kn, t), t))

ExtTskMtx ==
    /\ InTask
    /\ kn' = DormantTask(EndTask(kn, ctxtsk), ctxtsk)
    /\ ForceDispatch

RelWaiMtx(c, t) ==
    /\ CanCall(c)
    /\ kn.state[t] \in WaitBit
    /\ SystemCall(c, ReleaseFailed(kn, t, "E_RLWAI"))

TimerEventMtx(t) ==
    /\ ~basepri
    /\ kn.wtmeb[t]
    /\ SystemCall("hdr", ReleaseFailed(kn, t, kn.wercd[t]))

(***************************************************************************)
(* Start-up (knl_mutex_initialize) and the next-state relation: the calls  *)
(* that meet mutexes, and those that start, suspend and resume the tasks.  *)
(***************************************************************************)
WithFreeMutexes(k) ==
    WithFields(k, [mtxatr |-> [m \in MUTEX |-> "none"],
                   ceilpri |-> [m \in MUTEX |-> 0],
                   mtxtsk |-> [m \in MUTEX |-> NoTask],
                   mtxlist |-> [t \in Task |-> <<>>],
                   wid |-> [t \in Task |-> NoMtx]])

MtxInit ==
    /\ kn = WithFreeMutexes(MakeReady(CreateTcb(InitKernel, 0), 1))
    /\ ctxtsk = NoTask
    /\ dispatch_disabled = "DISABLE_IMPLICIT"
    /\ pendsv = TRUE
    /\ basepri = FALSE

MutexCall ==
    \E m \in MUTEX :
        \/ \E kind \in MtxKind : CreMtx(m, kind)
        \/ DelMtx(m) \/ UnlMtx(m)
        \/ \E tmout \in TMO : LocMtx(m, tmout)

TaskCall ==
    \/ \E p \in Pri : CreTsk(p)
    \/ ExtTskMtx
    \/ DisDsp \/ EnaDsp
    \/ \E t \in Task : TerTskMtx(t)
    \/ \E c \in Caller, t \in Task :
          \/ StaTsk(c, t) \/ SusTsk(c, t) \/ RsmTsk(c, t)
          \/ RelWaiMtx(c, t)
          \/ \E p \in Pri : ChgPriMtx(c, t, p)

MtxNext ==
    \/ MutexCall
    \/ TaskCall
    \/ \E t \in Task : TimerEventMtx(t)
    \/ DispatchEntry
    \/ DispatchSwitch

MtxSpec == MtxInit /\ [][MtxNext]_vars

-----------------------------------------------------------------------------
(***************************************************************************)
(* Properties.                                                             *)
(***************************************************************************)

\* The mutex fields hold values of their C types.
MutexTypeOK ==
    /\ kn.mtxatr \in [MUTEX -> MtxAtr \cup {"none"}]
    /\ kn.ceilpri \in [MUTEX -> Pri]
    /\ kn.mtxtsk \in [MUTEX -> Task \cup {NoTask}]
    /\ \A t \in Task : kn.mtxlist[t] \in Seq(MUTEX)
    /\ kn.wid \in [Task -> MUTEX \cup {NoMtx}]
    /\ kn.state \in [Task -> TSTAT] /\ kn.priority \in [Task -> Pri]

\* A task is linked in the ready queue, in the wait queue of the mutex it
\* waits for, or nowhere, as its state says, and never twice.
MutexRingOf(t) ==
    CASE kn.state[t] = "READY" -> {kn.priority[t]}
      [] kn.state[t] = "NONEXIST" -> {FreeTcb}
      [] WaitsForMutex(kn, t) -> {kn.wid[t]}
      [] OTHER -> {}

MutexRingsMatchStates ==
    /\ \A h \in QueHead, t \in Task : InRing(kn.que[h], t) <=> h \in MutexRingOf(t)
    /\ \A h \in QueHead : IsInjective(kn.que[h])

\* The wait queues that are kept by priority stay sorted while the waiting
\* tasks inherit and lose priorities.
WaitQueueSorted ==
    \A m \in MUTEX : kn.mtxatr[m] \in {"TPRI", "INHERIT", "CEILING"} =>
        \A i, j \in DOMAIN kn.que[m] :
            i < j => kn.priority[kn.que[m][i]] <= kn.priority[kn.que[m][j]]

\* Owners and lists of held mutexes agree, through unlocking, deletion and
\* termination: a mutex is in the list of its owner, once, and in no other;
\* only an existing mutex has an owner, and one without owner nobody awaits.
OwnershipExact ==
    /\ \A t \in Task : IsInjective(kn.mtxlist[t])
    /\ \A t \in Task, m \in MUTEX : m \in ToSet(kn.mtxlist[t]) <=> kn.mtxtsk[m] = t
    /\ \A m \in MUTEX :
          /\ kn.mtxtsk[m] # NoTask => Exists(kn, m) /\ kn.state[kn.mtxtsk[m]] \in Alive
          /\ Waited(kn, m) => kn.mtxtsk[m] # NoTask

\* The links are exact: the first task of a wait queue is the one that gets
\* the mutex, whose priority its owner inherits, and the owner's list says
\* from which mutexes.
MutexLinksExact ==
    MutexTypeOK /\ MutexRingsMatchStates /\ WaitQueueSorted /\ OwnershipExact

\* mutex.c, knl_release_mutex: a task has the highest of its base priority
\* and the priorities its mutexes impose; no inherited priority survives its
\* reason, whatever happens to the tasks further down the chain.
PriorityExact == \A t \in Task : kn.state[t] \in Alive => kn.priority[t] = OwnerPri(kn, t)

\* A task that holds or awaits a mutex with a ceiling never has a base
\* priority above it.
CeilingRespected ==
    \A t \in Task : \A pri \in Ceilings(kn, t) : kn.bpriority[t] >= pri

\* Every task in a wait queue waits for a lock (mutex.h, mtx_waited: "a mutex
\* with the task of lock wait"): releasing it from there is legal.
QueuedTasksWait ==
    \A m \in MUTEX : \A t \in ToSet(kn.que[m]) : kn.state[t] \in WaitBit

\* A mutex changes hands only when its owner unlocks it, ends, or it is
\* deleted: no other call takes a lock away.
NoTheft ==
    [][\A m \in MUTEX : LET t == kn.mtxtsk[m] IN
          t # NoTask /\ kn'.mtxtsk[m] # t
             => t = ctxtsk \/ kn'.state[t] = "DORMANT" \/ kn'.mtxatr[m] = "none"]_vars

=============================================================================
