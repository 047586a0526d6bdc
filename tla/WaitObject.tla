----------------------------- MODULE WaitObject -----------------------------
(***************************************************************************)
(* What the synchronization and communication objects of the kernel share  *)
(* (kernel/tkernel/wait.c, wait.h): a task that waits for an object is in  *)
(* one of the object's rings, and the wait specification says which hooks  *)
(* the kernel calls when its priority changes (chg_pri_hook) and when it   *)
(* leaves the ring without what it waited for (rel_wai_hook).              *)
(*                                                                         *)
(* The hooks are constants, to which a system of objects gives the hooks   *)
(* of its wait specifications.  wid and winfo are dead once a task does    *)
(* not wait and are cleared then.                                          *)
(***************************************************************************)
EXTENDS Task

CONSTANTS NoObj,                \* wid of a task that waits for no object
          ChgPriHook(_, _),     \* (k, t): t has its new priority in k
          RelWaiHook(_, _, _)   \* (k, o, wspec): a task that waited for o has left

NoInfo == <<>>

WaitsFor(k, t, o) == k.state[t] \in WaitBit /\ k.wid[t] = o

WithNoWait(k) ==
    WithFields(k, [wid |-> [t \in Task |-> NoObj], winfo |-> [t \in Task |-> NoInfo]])

(***************************************************************************)
(* Beginning and ending a wait.                                            *)
(***************************************************************************)

EndWait(k, t, ercd) ==
    [WaitRelease(k, t, ercd) EXCEPT !.wid[t] = NoObj, !.winfo[t] = NoInfo]

\* knl_wait_delete on the ring q.
WaitDelete(k, q) ==
    LET s == k.que[q]
        rel[n \in 0..Len(s)] == IF n = 0 THEN k ELSE EndWait(rel[n-1], s[n], "E_DLT")
    IN  rel[Len(s)]

\* knl_gcb_top_of_wait_queue(gcb, t) == t, for a task t that does not wait.
IsTop(k, t, q, tpri) ==
    \/ k.que[q] = <<>>
    \/ tpri /\ k.priority[t] < k.priority[Head(k.que[q])]

\* What a task begins to wait for: object o and info, as wspec.
Wait(k, t, o, wspec, info, tmout) ==
    MakeWait([k EXCEPT !.wid[t] = o, !.winfo[t] = info, !.wspec[t] = wspec,
                       !.wercd[t] = "E_TMOUT"],
             t, tmout)

\* knl_gcb_make_wait for the ring q of object o.
GcbMakeWait(k, t, o, q, tpri, wspec, info, tmout) ==
    LET k1 == Wait(k, t, o, wspec, info, tmout)
    IN  [k1 EXCEPT !.que = IF tpri THEN QueInsertTpri(k1, t, q) ELSE QueInsert(@, t, q)]

\* Fault: the task keeps its place.
GcbChangePriStays(k, t, q) == k

\* knl_gcb_change_priority
GcbChangePri(k, t, q) ==
    [k EXCEPT !.que = QueInsertTpri([k EXCEPT !.que = QueRemove(@, t)], t, q)]

\* q holds its tasks, each once, in order of their priorities if tpri.
QueueExact(k, q, waiting, tpri) ==
    LET s == k.que[q]
    IN  /\ ToSet(s) = waiting /\ IsInjective(s)
        /\ tpri => \A i, j \in DOMAIN s : i < j => k.priority[s[i]] <= k.priority[s[j]]

Before(s, u, t) == \E i, j \in DOMAIN s : i < j /\ s[i] = u /\ s[j] = t

(***************************************************************************)
(* The calls of task management that meet a wait.                          *)
(***************************************************************************)
ReleaseFailed(k, t, ercd) ==
    RelWaiHook(EndWait(k, t, ercd), k.wid[t], k.wspec[t])

ChgPriWait(c, t, p) ==
    /\ CanCall(c)
    /\ kn.state[t] # "NONEXIST"
    /\ LET k == [kn EXCEPT !.bpriority[t] = p]
           k1 == [k EXCEPT !.priority[t] = p]
       IN  SystemCall(c, CASE k.state[t] = "READY" -> MoveReady(k, t, p)
                           [] k.state[t] \in WaitBit -> ChgPriHook(k1, t)
                           [] OTHER -> k1)

TerTskWait(t) ==
    /\ InTask /\ t # ctxtsk
    /\ kn.state[t] \in Alive /\ ~kn.klocked[t]
    /\ LET k == [Detach(kn, t) EXCEPT !.wid[t] = NoObj, !.winfo[t] = NoInfo]
           k1 == IF kn.state[t] \in WaitBit THEN RelWaiHook(k, kn.wid[t], kn.wspec[t]) ELSE k
       IN  SystemCall("task", MakeDormant(k1, t))

RelWaiWait(c, t) ==
    /\ CanCall(c)
    /\ kn.state[t] \in WaitBit
    /\ SystemCall(c, ReleaseFailed(kn, t, "E_RLWAI"))

TimerEventWait(t) ==
    /\ ~basepri
    /\ kn.wtmeb[t]
    /\ SystemCall("hdr", ReleaseFailed(kn, t, kn.wercd[t]))

\* The other calls on tasks, by tasks and handlers.
OtherTaskCall ==
    \/ \E p \in Pri : CreTsk(p)
    \/ \E c \in Caller, t \in Task : StaTsk(c, t) \/ SusTsk(c, t) \/ RsmTsk(c, t)
    \/ DispatchEntry
    \/ DispatchSwitch
=============================================================================
