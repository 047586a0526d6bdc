----------------------------- MODULE Semaphore -----------------------------
(***************************************************************************)
(* Counting semaphores (kernel/tkernel/semaphore.c).  A task asks for      *)
(* several units at once, so the first task of a queue may have to wait    *)
(* for more units than there are while those behind it could go on:        *)
(* whenever the first task changes, the queue is looked at again by the    *)
(* hooks of the wait.                                                      *)
(*                                                                         *)
(* The kernel state has per semaphore whether it exists, its attribute,    *)
(* count and maximum; winfo[t] is the number of units t asked for.  The    *)
(* wait queue of semaphore s has the head s.                               *)
(***************************************************************************)
EXTENDS WaitObject

CONSTANTS SEM,          \* the semaphore control blocks
          SemCntMax     \* the greatest maxsem a semaphore is created with

ASSUME SemaphoreAssumption ==
    /\ SEM \subseteq WaitQ /\ NoObj \notin SEM
    /\ SemCntMax \in Nat \ {0}

SemAtr == {"TPRI", "CNT"}                   \* TA_TPRI, TA_CNT
Count == 1..SemCntMax
SemWSpec == {"sem_tfifo", "sem_tpri"}

WithFreeSemaphores(k) ==
    WithFields(k, [semid |-> [s \in SEM |-> FALSE],
                   sematr |-> [s \in SEM |-> {}],
                   semcnt |-> [s \in SEM |-> 0],
                   maxsem |-> [s \in SEM |-> 0]])

(***************************************************************************)
(* Serving the wait queue.                                                 *)
(***************************************************************************)
\* Fault: a task that needs more units never stops the search.
ServePast(k0, s) ==
    FoldLeft(LAMBDA k, t : IF k.semcnt[s] < k.winfo[t] THEN k
                           ELSE [EndWait(k, t, "E_OK") EXCEPT !.semcnt[s] = @ - k.winfo[t]],
             k0, k0.que[s])

\* Task t of the queue is released if its units are there.  If they are not it
\* ends the search, unless TA_CNT is set.
ServeNext(a, s, t) ==
    CASE a.stop -> a
      [] ~a.stop /\ a.k.semcnt[s] < a.k.winfo[t]
           -> [a EXCEPT !.stop = "CNT" \notin a.k.sematr[s]]
      [] OTHER
           -> [a EXCEPT !.k = [EndWait(a.k, t, "E_OK") EXCEPT !.semcnt[s] = @ - a.k.winfo[t]]]

\* The tasks of the queue are looked at from the first one on.  With no unit
\* left it may go on: every task needs at least one.
Serve(k0, s) ==
    LET q == k0.que[s]
        after[n \in 0..Len(q)] ==
          IF n = 0 THEN [k |-> k0, stop |-> FALSE] ELSE ServeNext(after[n-1], s, q[n])
    IN  after[Len(q)].k

\* Fault: the queue is not looked at when its first task leaves it.
SemRelWaiQuiet(k, s) == k

\* sem_rel_wai: a task has left the queue of s without its units.
SemRelWai(k, s) == IF "CNT" \in k.sematr[s] THEN k ELSE Serve(k, s)

\* sem_chg_pri: t, which waits for a semaphore, has a new priority.
SemChgPri(k, t) == SemRelWai(GcbChangePri(k, t, k.wid[t]), k.wid[t])

(***************************************************************************)
(* The calls on semaphores.                                                *)
(***************************************************************************)
CreSem(s, atr, isemcnt, maxsem) ==
    /\ InTask
    /\ ~kn.semid[s]
    /\ isemcnt <= maxsem
    /\ SystemCall("task", [kn EXCEPT !.semid[s] = TRUE, !.sematr[s] = atr,
                                     !.semcnt[s] = isemcnt, !.maxsem[s] = maxsem])

\* The other fields of a free control block are dead.
DelSem(s) ==
    /\ InTask
    /\ kn.semid[s]
    /\ SystemCall("task", [WaitDelete(kn, s) EXCEPT
                             !.semid[s] = FALSE, !.sematr[s] = {},
                             !.semcnt[s] = 0, !.maxsem[s] = 0])

SigSem(c, s, cnt) ==
    /\ CanCall(c)
    /\ kn.semid[s]
    /\ cnt <= kn.maxsem[s] - kn.semcnt[s]
    /\ SystemCall(c, Serve([kn EXCEPT !.semcnt[s] = @ + cnt], s))

WaitForSem(k, t, s, cnt, tmout) ==
    LET tpri == "TPRI" \in k.sematr[s]
    IN  GcbMakeWait(k, t, s, s, tpri, IF tpri THEN "sem_tpri" ELSE "sem_tfifo", cnt, tmout)

WaiSem(s, cnt, tmout) ==
    /\ CanWait
    /\ kn.semid[s] /\ cnt <= kn.maxsem[s]
    /\ IF /\ "CNT" \in kn.sematr[s] \/ IsTop(kn, ctxtsk, s, "TPRI" \in kn.sematr[s])
          /\ kn.semcnt[s] >= cnt
       THEN SystemCall("task", [kn EXCEPT !.semcnt[s] = @ - cnt])
       ELSE /\ tmout # "POL"
            /\ SystemCall("task", WaitForSem(kn, ctxtsk, s, cnt, tmout))

SemCall ==
    \E s \in SEM :
        \/ \E atr \in SUBSET SemAtr, isemcnt \in 0..SemCntMax, maxsem \in Count :
              CreSem(s, atr, isemcnt, maxsem)
        \/ DelSem(s)
        \/ \E cnt \in Count :
              \/ \E c \in Caller : SigSem(c, s, cnt)
              \/ \E tmout \in TMO : WaiSem(s, cnt, tmout)

-----------------------------------------------------------------------------
(***************************************************************************)
(* Properties.                                                             *)
(***************************************************************************)

\* The fields of semaphores hold values of their C types; the count never
\* leaves 0..maxsem, by whatever calls and hooks.
SemTypeOK ==
    /\ kn.semid \in [SEM -> BOOLEAN]
    /\ kn.sematr \in [SEM -> SUBSET SemAtr]
    /\ kn.maxsem \in [SEM -> 0..SemCntMax]
    /\ \A s \in SEM : kn.semcnt[s] \in 0..kn.maxsem[s]

\* No task waits for units that are there: the first task of a queue needs
\* more than semcnt, with TA_CNT every task of it does; after signals and
\* also after the first task timed out, was released or terminated, or
\* changed places with another.
SemNoSatisfiedWaiter ==
    \A s \in SEM : \A i \in DOMAIN kn.que[s] :
        i = 1 \/ "CNT" \in kn.sematr[s] => kn.winfo[kn.que[s][i]] > kn.semcnt[s]

\* The queue of s holds the tasks that wait for s, in their order.
SemQueueExact ==
    \A s \in SEM :
        QueueExact(kn, s, {t \in Task : WaitsFor(kn, t, s)}, "TPRI" \in kn.sematr[s])

\* A step releases t with the units it waited for.
Granted(t, s) == WaitsFor(kn, t, s) /\ ~(kn'.state[t] \in WaitBit) /\ kn'.wercd[t] = "E_OK"

\* Without TA_CNT no task gets its units while one before it in the queue is
\* left waiting; priorities count as they are after the step, and a task
\* whose priority is set, even to what it was, goes behind its equals.
GrantsInOrder ==
    [][\A s \in SEM, t, u \in Task :
          "CNT" \notin kn.sematr[s] /\ Granted(u, s) /\ WaitsFor(kn', t, s) =>
             IF "TPRI" \in kn.sematr[s] THEN kn'.priority[u] <= kn'.priority[t]
             ELSE Before(kn.que[s], u, t)]_vars

\* Without TA_CNT a task that finds its units there takes them only if it
\* would be the first in the queue: it never overtakes a waiting task.
NoBarging ==
    [][\A s \in SEM :
          /\ "CNT" \notin kn.sematr[s] /\ kn'.semid[s]
          /\ kn'.semcnt[s] < kn.semcnt[s]
          /\ \A t \in Task : ~Granted(t, s)
          => \A t \in ToSet(kn.que[s]) :
                "TPRI" \in kn.sematr[s] /\ kn.priority[ctxtsk] < kn.priority[t]]_vars

\* The units go to the tasks in the order of the queue.
UnitsInOrder == GrantsInOrder /\ NoBarging

=============================================================================
