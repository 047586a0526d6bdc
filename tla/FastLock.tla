------------------------------ MODULE FastLock ------------------------------
(***************************************************************************)
(* The fast lock of the library (lib/libtk/fastlock.c): a counter changed  *)
(* with interrupts disabled, and a semaphore for the tasks that find the   *)
(* lock taken.  Between the counter and the semaphore the task can be      *)
(* preempted, suspended or terminated, and others lock and unlock.         *)
(*                                                                         *)
(* The lock is created by CreateLock before the tasks use it.  Lock        *)
(* ignores the error of tk_wai_sem, so nobody may release a task from it.  *)
(***************************************************************************)
EXTENDS LockTasks

CONSTANT id             \* lock->id, the semaphore of the lock

ASSUME LockAssumption == id \in SEM

VARIABLE cnt            \* lock->cnt: -1 when the lock is free

lvars == <<kn, ctxtsk, dispatch_disabled, pendsv, basepri, cnt, pc>>

\* "wai": cnt has been incremented, tk_wai_sem is next; "in": it returned, or
\* has yet to if the task waits; "sig": decremented, tk_sig_sem is next.
PC == {"out", "wai", "in", "sig"}

Inside(t) == pc[t] = "in" /\ kn.state[t] \notin WaitBit
Blocked(t) == pc[t] = "in" /\ kn.state[t] \in WaitBit

\* CreateLock: a semaphore without units, of at most one, in priority order.
CreateLock(k) == [k EXCEPT !.semid[id] = TRUE, !.sematr[id] = {"TPRI"},
                           !.semcnt[id] = 0, !.maxsem[id] = 1]

Lock ==
    /\ At("out")
    /\ cnt' = cnt + 1
    /\ Goto(IF cnt' > 0 THEN "wai" ELSE "in")
    /\ UNCHANGED vars

LockWait ==
    /\ At("wai")
    /\ WaiSem(id, 1, "FEVR")
    /\ Goto("in")
    /\ UNCHANGED cnt

\* Fault: Dec returns the new value, as Inc does.
UnlockNew ==
    /\ At("in")
    /\ cnt' = cnt - 1
    /\ Goto(IF cnt' > 0 THEN "sig" ELSE "out")
    /\ UNCHANGED vars

Unlock ==
    /\ At("in")
    /\ cnt' = cnt - 1
    /\ Goto(IF cnt > 0 THEN "sig" ELSE "out")
    /\ UNCHANGED vars

\* The error of a tk_sig_sem that would exceed maxsem is ignored.
UnlockSignal ==
    /\ At("sig")
    /\ \/ SigSem("task", id, 1)
       \/ kn.semcnt[id] = kn.maxsem[id] /\ UNCHANGED vars
    /\ Goto("out")
    /\ UNCHANGED cnt

\* A task outside of the lock terminates one that does not hold it, perhaps
\* one on its way into the lock: cnt then remains incremented.
Terminate(t) ==
    /\ At("out")
    /\ pc[t] \in {"out", "wai"} \/ Blocked(t)
    /\ TerTskWait(t)
    /\ pc' = [pc EXCEPT ![t] = "out"]
    /\ UNCHANGED cnt

Meanwhile ==
    /\ Interrupted \/ OutsideCreate \/ DispatchSwitch
    /\ UNCHANGED <<cnt, pc>>

LockInit ==
    /\ kn = CreateLock(WithFreeLockObjects(MakeReady(CreateTcb(InitKernel, 0), 1)))
    /\ ctxtsk = NoTask
    /\ dispatch_disabled = "DISABLE_IMPLICIT"
    /\ pendsv = TRUE
    /\ basepri = FALSE
    /\ cnt = -1
    /\ pc = [t \in Task |-> "out"]

LockNext ==
  /\ kn.semid[id]
  /\ \/ Lock \/ LockWait \/ Unlock \/ UnlockSignal
     \/ \E t \in Task : Terminate(t)
     \/ Meanwhile

LockSpec == LockInit /\ [][LockNext]_lvars

-----------------------------------------------------------------------------
(***************************************************************************)
(* Properties.                                                             *)
(***************************************************************************)

\* cnt is an INT and counts the tasks that have begun Lock and not Unlock,
\* at least; more only by those that were terminated.
LockTypeOK ==
    kn.semid[id] =>
      /\ pc \in [Task -> PC]
      /\ cnt \in Int
      /\ cnt + 1 >= Cardinality({t \in Task : pc[t] \in {"wai", "in"}})

\* fastlock.c: "High-speed exclusive control lock".  At most one task is in
\* the lock, on its way out of it, or about to be let in by a unit of the
\* semaphore.
FastLockExclusive ==
    kn.semid[id] =>
      Cardinality({t \in Task : Inside(t) \/ pc[t] = "sig"}) + kn.semcnt[id] <= 1

\* No unlock is lost: while tasks wait there is one that will let them in.
NoLostUnlock ==
    kn.semid[id] =>
      ((\E t \in Task : Blocked(t)) => \E t \in Task : Inside(t) \/ pc[t] = "sig")

\* A lock with nobody in it can be had without waiting: cnt is -1, or the
\* semaphore has the unit for which the next Lock goes there.
FreeLockOpen ==
    kn.semid[id] /\ (\A t \in Task : ~Inside(t) /\ pc[t] # "sig")
    => IF cnt = -1 THEN kn.semcnt[id] = 0 ELSE kn.semcnt[id] = 1

\* The lock excludes, opens again and lets the waiting tasks in: the counter,
\* the semaphore and the tasks agree, whatever happens to a task between the
\* counter and the semaphore.
LockExact == LockTypeOK /\ FastLockExclusive /\ FreeLockOpen /\ NoLostUnlock
=============================================================================
