---------------------------- MODULE SyncObjects ----------------------------
(***************************************************************************)
(* Tasks, interrupt handlers and the timer over one kernel with            *)
(* semaphores, event flags and mailboxes.                                  *)
(***************************************************************************)
EXTENDS Semaphore, EventFlag, Mailbox

\* An object of the kernel is of one kind.
ASSUME SyncObjectsAssumption ==
    SEM \cap FLG = {} /\ SEM \cap MBX = {} /\ FLG \cap MBX = {}

\* tcb->wspec->chg_pri_hook
SyncChgPri(k, t) ==
    CASE k.wspec[t] = "sem_tpri" -> SemChgPri(k, t)
      [] k.wspec[t] = "flg_tpri" -> FlgChgPri(k, t)
      [] k.wspec[t] = "mbx_tpri" -> MbxChgPri(k, t)
      [] OTHER -> k

\* tcb->wspec->rel_wai_hook
SyncRelWai(k, o, wspec) == IF wspec \in SemWSpec THEN SemRelWai(k, o) ELSE k

WithFreeSyncObjects(k) ==
    WithFreeMailboxes(WithFreeEventFlags(WithFreeSemaphores(WithNoWait(k))))

SyncInit ==
    /\ kn = WithFreeSyncObjects(MakeReady(CreateTcb(InitKernel, 0), 1))
    /\ ctxtsk = NoTask
    /\ dispatch_disabled = "DISABLE_IMPLICIT"
    /\ pendsv = TRUE
    /\ basepri = FALSE

FlgCall ==
    \E f \in FLG :
        \/ \E atr \in SUBSET FlgAtr, iflgptn \in Pattern : CreFlg(f, atr, iflgptn)
        \/ DelFlg(f)
        \/ \E c \in Caller, ptn \in Pattern : SetFlg(c, f, ptn) \/ ClrFlg(c, f, ptn)
        \/ \E w \in FlgWaits, tmout \in TMO : WaiFlg(f, w, tmout)

MbxCall ==
    \E x \in MBX :
        \/ \E atr \in SUBSET MbxAtr : CreMbx(x, atr)
        \/ DelMbx(x)
        \/ \E c \in Caller, m \in Msg : SndMbx(c, x, m)
        \/ \E tmout \in TMO : RcvMbx(x, tmout)

SyncTaskCall ==
    \/ \E t \in Task : TerTskWait(t) \/ TimerEventWait(t)
    \/ \E c \in Caller, t \in Task :
          \/ RelWaiWait(c, t)
          \/ \E p \in Pri : ChgPriWait(c, t, p)

SyncNext ==
    \/ SemCall
    \/ FlgCall
    \/ MbxCall
    \/ SyncTaskCall
    \/ OtherTaskCall

SyncSpec == SyncInit /\ [][SyncNext]_vars

-----------------------------------------------------------------------------
(***************************************************************************)
(* Properties.                                                             *)
(***************************************************************************)

\* Every wait queue holds the tasks that wait for its object, in their order,
\* and the fields of the objects hold values of their C types.
SyncQueuesExact ==
    /\ SemTypeOK /\ FlgTypeOK /\ MbxTypeOK
    /\ SemQueueExact /\ FlgQueueExact /\ MbxQueueExact
    /\ \A t \in Task : kn.state[t] \in WaitBit <=> kn.wid[t] # NoObj

\* No task waits for what is there: units of a semaphore, a pattern of an
\* event flag, a message of a mailbox.
NoSatisfiedWaiter ==
    SemNoSatisfiedWaiter /\ FlgNoSatisfiedWaiter /\ MbxNoSatisfiedWaiter
=============================================================================
