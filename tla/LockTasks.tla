----------------------------- MODULE LockTasks -----------------------------
(***************************************************************************)
(* Tasks that use the locks of the library (lib/libtk).  The library runs  *)
(* in the tasks: between two of its steps a task can be preempted,         *)
(* suspended or terminated.                                                *)
(***************************************************************************)
EXTENDS Semaphore, EventFlag

VARIABLE pc             \* where a task is in the library; "out": not in it

At(at) == InTask /\ pc[ctxtsk] = at
Goto(at) == pc' = [pc EXCEPT ![ctxtsk] = at]

LockChgPri(k, t) ==
    CASE k.wspec[t] = "sem_tpri" -> SemChgPri(k, t)
      [] k.wspec[t] = "flg_tpri" -> FlgChgPri(k, t)
      [] OTHER -> k

LockRelWai(k, o, wspec) == IF wspec \in SemWSpec THEN SemRelWai(k, o) ELSE k

WithFreeLockObjects(k) == WithFreeEventFlags(WithFreeSemaphores(WithNoWait(k)))

\* A task that is outside of the library creates another one.
OutsideCreate == At("out") /\ \E p \in Pri : CreTsk(p)

\* What interrupt handlers and the dispatcher do to the tasks meanwhile.
Interrupted ==
    \/ \E t \in Task :
         \/ StaTsk("hdr", t) \/ SusTsk("hdr", t) \/ RsmTsk("hdr", t)
         \/ \E p \in Pri : ChgPriWait("hdr", t, p)
    \/ DispatchEntry
=============================================================================
