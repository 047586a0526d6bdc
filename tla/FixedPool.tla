----------------------------- MODULE FixedPool -----------------------------
(***************************************************************************)
(* Fixed-size memory pools (kernel/tkernel/mempfix.c) under the kernel     *)
(* lock (klock.c).  A call on a pool is not a critical section: it locks   *)
(* the pool, works on it with interrupts enabled, and unlocks it, and the  *)
(* caller can be preempted, suspended or moved to another priority in      *)
(* between.  So a call is several steps, and call[t] is how far task t     *)
(* has come in its call.                                                   *)
(*                                                                         *)
(* The kernel state of Task has more fields here.  The wait queue of pool  *)
(* p has the head p, the queue of its lock the head LockQ[p].  locked[p]   *)
(* is a lock whose wtskq.next is not NULL.  The blocks of a pool are its   *)
(* free list, those from unused on, and those the application was given.   *)
(***************************************************************************)
EXTENDS Task

CONSTANTS MPF,          \* the pool control blocks
          LockQ,        \* [MPF -> WaitQ], the queue heads of their locks
          NoMpf,        \* wid of a task that waits for no pool
          MpfCnt        \* the number of blocks of a pool

ASSUME PoolAssumption ==
    /\ MPF \subseteq WaitQ /\ NoMpf \notin WaitQ
    /\ LockQ \in [MPF -> WaitQ \ MPF] /\ IsInjective(LockQ)
    /\ MpfCnt \in Nat \ {0}

Block == 1..MpfCnt
NoBlock == 0
MpfAtr == {"TFIFO", "TPRI"}

(***************************************************************************)
(* A call: its operation, pool and block, and what it does next.           *)
(***************************************************************************)
Op == {"cre", "del", "get", "rel"}
At == {"lock", "body", "put", "unlock"}
Call(op, p, b) == [op |-> op, p |-> p, b |-> b, at |-> "lock"]
Idle == Call("none", NoMpf, NoBlock)

InPool(p, t) == kn.call[t].p = p /\ kn.call[t].at # "lock"     \* between lock and unlock

\* The task in execution makes the next step of its call.
Continues(op, at) == InTask /\ kn.call[ctxtsk].op = op /\ kn.call[ctxtsk].at = at
Pool == kn.call[ctxtsk].p

\* The task in execution is in no call; it may begin one that can wait.
IdleTask == InTask /\ kn.call[ctxtsk] = Idle
MayCall == IdleTask /\ CanWait

Goto(k, at) == [k EXCEPT !.call[ctxtsk].at = at]

\* A step of a call outside of critical sections: interrupts may be disabled
\* meanwhile but no dispatch is requested.
PlainStep(k) ==
    /\ kn' = k
    /\ UNCHANGED <<ctxtsk, dispatch_disabled, pendsv, basepri>>

(***************************************************************************)
(* The kernel lock (klock.c).                                              *)
(***************************************************************************)
\* Fault: the task to execute is not selected anew.
LockOBJNoSelect(k, t, p) ==
    IF k.klocked[t] THEN k
    ELSE IF ~k.locked[p]
         THEN [k EXCEPT !.locked[p] = TRUE, !.klocked[t] = TRUE, !.klocktsk = t]
         ELSE [ReadyQueueDelete(k, t) EXCEPT !.klockwait[t] = TRUE,
                                             !.que = QueInsert(@, t, LockQ[p])]

\* One attempt of knl_LockOBJ.  A task that queues up is READY but in no
\* ready ring.
LockOBJ(k, t, p) ==
    IF k.klocked[t] THEN k
    ELSE IF ~k.locked[p]
         THEN [k EXCEPT !.locked[p] = TRUE, !.klocked[t] = TRUE, !.klocktsk = t]
         ELSE LET k1 == ReadyQueueDelete(k, t)
              IN  Reschedule([k1 EXCEPT !.klockwait[t] = TRUE,
                                        !.que = QueInsert(@, t, LockQ[p])])

\* Fault: the next task is made ready without the lock.
UnlockOBJNoGrant(k, t, p) ==
    LET k1 == [k EXCEPT !.klocked[t] = FALSE, !.klocktsk = NoTask]
        s == k.que[LockQ[p]]
    IN  Reschedule(
          IF s = <<>> THEN [k1 EXCEPT !.locked[p] = FALSE]
          ELSE ReadyQueueInsertTop([k1 EXCEPT !.que[LockQ[p]] = Tail(s),
                                              !.klockwait[Head(s)] = FALSE], Head(s)))

\* knl_UnlockOBJ: the lock passes to the first task in its queue.
UnlockOBJ(k, t, p) ==
    LET k1 == [k EXCEPT !.klocked[t] = FALSE, !.klocktsk = NoTask]
        s == k.que[LockQ[p]]
    IN  Reschedule(
          IF s = <<>> THEN [k1 EXCEPT !.locked[p] = FALSE]
          ELSE ReadyQueueInsertTop([k1 EXCEPT !.que[LockQ[p]] = Tail(s),
                                              !.klockwait[Head(s)] = FALSE,
                                              !.klocked[Head(s)] = TRUE], Head(s)))

\* The task in execution, in state k, tries to lock the pool of its call.
Lock(k) ==
    LET k1 == LockOBJ(k, ctxtsk, k.call[ctxtsk].p)
    IN  SystemCall("task", IF k1.klocked[ctxtsk] THEN Goto(k1, "body") ELSE k1)

\* The retry of knl_LockOBJ: a queued task runs again when it has been given
\* the lock, or was taken out of the queue by a suspension or a priority
\* change.
LockRetry ==
    /\ InTask /\ kn.call[ctxtsk] # Idle /\ kn.call[ctxtsk].at = "lock"
    /\ Lock(kn)

Unlock ==
    /\ InTask /\ kn.call[ctxtsk].at = "unlock"
    /\ SystemCall("task", UnlockOBJ([kn EXCEPT !.call[ctxtsk] = Idle], ctxtsk, Pool))

(***************************************************************************)
(* The calls on pools.  mpf[p] is "free" in the free queue, "taken" out of *)
(* it by a tk_cre_mpf that has not finished, or "exists".                  *)
(***************************************************************************)
\* tk_cre_mpf takes a control block before it locks it.
CreMpf(p) ==
    /\ MayCall
    /\ kn.mpf[p] = "free"
    /\ PlainStep([kn EXCEPT !.mpf[p] = "taken", !.call[ctxtsk] = Call("cre", p, NoBlock)])

Begin(op, p, b) ==
    /\ MayCall
    /\ Lock([kn EXCEPT !.call[ctxtsk] = Call(op, p, b)])

GetMpf(p) == Begin("get", p, NoBlock)

\* The calls op on pool p that have not ended.
InProgress(op, p) == {t \in Task : kn.call[t].op = op /\ kn.call[t].p = p}

\* The application gives back a block it was given, but none of a pool that
\* it is deleting.
RelMpf(p, b) ==
    /\ b \in kn.given[p] /\ InProgress("del", p) = {}
    /\ MayCall
    /\ Lock([kn EXCEPT !.call[ctxtsk] = Call("rel", p, b), !.given[p] = @ \ {b}])

\* The application deletes no pool while it is giving back a block of it.
DelMpf(p) ==
    /\ InProgress("rel", p) = {}
    /\ Begin("del", p, NoBlock)

CreBody(atr) ==
    /\ Continues("cre", "body")
    /\ PlainStep(Goto([kn EXCEPT !.mpf[Pool] = "exists",
                                 !.mpfatr[Pool] = atr,
                                 !.frbcnt[Pool] = MpfCnt,
                                 !.unused[Pool] = 1,
                                 !.freelist[Pool] = <<>>], "unlock"))

EndPoolWait(k, t, ercd) == [WaitRelease(k, t, ercd) EXCEPT !.wid[t] = NoMpf]

\* rel[n] is the state after the first n tasks of the queue are released.
PoolWaitDelete(k, p) ==
    LET s == k.que[p]
        rel[n \in 0..Len(s)] == IF n = 0 THEN k ELSE EndPoolWait(rel[n-1], s[n], "E_DLT")
    IN  rel[Len(s)]

\* The memory goes away with the blocks in it; the other fields are dead.
DelBody ==
    /\ Continues("del", "body")
    /\ PlainStep(Goto(IF kn.mpf[Pool] # "exists" THEN kn
                      ELSE [PoolWaitDelete(kn, Pool) EXCEPT
                              !.mpf[Pool] = "free", !.mpfatr[Pool] = "TFIFO",
                              !.frbcnt[Pool] = 0, !.unused[Pool] = 1,
                              !.freelist[Pool] = <<>>, !.given[Pool] = {}], "unlock"))

\* Fault: the block stays in the free list.
TakeBlockCopy(k, p) ==
    [IF k.freelist[p] # <<>>
     THEN [k EXCEPT !.given[p] = @ \cup {Head(k.freelist[p])}]
     ELSE [k EXCEPT !.unused[p] = @ + 1, !.given[p] = @ \cup {k.unused[p]}]
     EXCEPT !.frbcnt[p] = @ - 1]

TakeBlock(k, p) ==
    [IF k.freelist[p] # <<>>
     THEN [k EXCEPT !.freelist[p] = Tail(@), !.given[p] = @ \cup {Head(k.freelist[p])}]
     ELSE [k EXCEPT !.unused[p] = @ + 1, !.given[p] = @ \cup {k.unused[p]}]
     EXCEPT !.frbcnt[p] = @ - 1]

WaitForBlock(k, t, p, tmout) ==
    LET k1 == MakeWait([k EXCEPT !.wid[t] = p,
                                 !.wercd[t] = "E_TMOUT",
                                 !.wspec[t] = IF k.mpfatr[p] = "TPRI" THEN "mpf_tpri"
                                              ELSE "mpf_tfifo"],
                       t, tmout)
    IN  [k1 EXCEPT !.call[t] = Idle,
                   !.que = IF k.mpfatr[p] = "TPRI" THEN QueInsertTpri(k1, t, p)
                           ELSE QueInsert(@, t, p)]

\* The task takes a block and unlocks next, or waits for one and unlocks the
\* pool in the same critical section.  tmout matters in the latter case only.
GetBody(tmout) ==
    /\ Continues("get", "body")
    /\ \/ /\ kn.mpf[Pool] # "exists"
          /\ PlainStep(Goto(kn, "unlock"))
       \/ /\ kn.mpf[Pool] = "exists" /\ kn.frbcnt[Pool] > 0
          /\ PlainStep(Goto(TakeBlock(kn, Pool), "unlock"))
       \/ /\ kn.mpf[Pool] = "exists" /\ kn.frbcnt[Pool] <= 0
          /\ SystemCall("task",
               UnlockOBJ(IF tmout = "POL" THEN [kn EXCEPT !.call[ctxtsk] = Idle]
                         ELSE WaitForBlock(kn, ctxtsk, Pool, tmout),
                         ctxtsk, Pool))

\* Fault: a block given back is put in the free list in every case.
RelBodyPut ==
    /\ Continues("rel", "body")
    /\ PlainStep(Goto(kn, IF kn.mpf[Pool] = "exists" THEN "put" ELSE "unlock"))

\* The block passes to the first waiting task, with interrupts disabled; or
\* there is none, interrupts are enabled, and it is put in the free list next.
RelBody ==
    /\ Continues("rel", "body")
    /\ LET b == kn.call[ctxtsk].b
           k == Goto([kn EXCEPT !.call[ctxtsk].b = NoBlock, !.given[Pool] = @ \cup {b}], "unlock")
       IN  \/ /\ kn.mpf[Pool] # "exists"
              /\ PlainStep(Goto(kn, "unlock"))
           \/ /\ kn.mpf[Pool] = "exists" /\ kn.que[Pool] # <<>>
              /\ PlainStep(EndPoolWait(k, Head(kn.que[Pool]), "E_OK"))
           \/ /\ kn.mpf[Pool] = "exists" /\ kn.que[Pool] = <<>>
              /\ PlainStep(Goto(kn, "put"))

RelPut ==
    /\ Continues("rel", "put")
    /\ LET b == kn.call[ctxtsk].b
       IN  PlainStep(Goto([kn EXCEPT !.call[ctxtsk].b = NoBlock,
                                     !.freelist[Pool] = <<b>> \o @,
                                     !.frbcnt[Pool] = @ + 1], "unlock"))

(***************************************************************************)
(* What else happens to tasks that are in a call or wait for a block.      *)
(***************************************************************************)
\* The block of a call that is abandoned is still the application's.
Abandon(k, t) ==
    LET c == k.call[t]
    IN  [MakeDormant(k, t) EXCEPT
            !.wid[t] = NoMpf, !.call[t] = Idle,
            !.given = IF c.b = NoBlock THEN @ ELSE [k.given EXCEPT ![c.p] = @ \cup {c.b}]]

TerTskPool(t) ==
    /\ IdleTask /\ t # ctxtsk
    /\ kn.state[t] \in Alive /\ ~kn.klocked[t]
    /\ SystemCall("task", Abandon(Detach(kn, t), t))

\* tk_chg_pri, with the hook knl_mpf_chg_pri.
ChgPriPool(t, p) ==
    /\ CanCall("hdr")
    /\ kn.state[t] # "NONEXIST"
    /\ LET k == [kn EXCEPT !.bpriority[t] = p]
           k1 == [k EXCEPT !.priority[t] = p]
       IN  SystemCall("hdr",
             CASE k.state[t] = "READY" -> MoveReady(k, t, p)
               [] k.state[t] \in WaitBit /\ k.wspec[t] = "mpf_tpri" ->
                    [k1 EXCEPT !.que = QueInsertTpri([k1 EXCEPT !.que = QueRemove(@, t)],
                                                     t, k.wid[t])]
               [] OTHER -> k1)

RelWaiPool(t) ==
    /\ CanCall("hdr")
    /\ kn.state[t] \in WaitBit
    /\ SystemCall("hdr", EndPoolWait(kn, t, "E_RLWAI"))

TimerEventPool(t) ==
    /\ ~basepri
    /\ kn.wtmeb[t]
    /\ SystemCall("hdr", EndPoolWait(kn, t, kn.wercd[t]))

(***************************************************************************)
(* Start-up (knl_fix_memorypool_initialize) and the next-state relation.   *)
(***************************************************************************)
WithFreePools(k) ==
    WithFields(k, [mpf |-> [p \in MPF |-> "free"],
                   mpfatr |-> [p \in MPF |-> "TFIFO"],
                   locked |-> [p \in MPF |-> FALSE],
                   frbcnt |-> [p \in MPF |-> 0],
                   unused |-> [p \in MPF |-> 1],
                   freelist |-> [p \in MPF |-> <<>>],
                   given |-> [p \in MPF |-> {}],
                   wid |-> [t \in Task |-> NoMpf],
                   call |-> [t \in Task |-> Idle]])

PoolInit ==
    /\ kn = WithFreePools(MakeReady(CreateTcb(InitKernel, 0), 1))
    /\ ctxtsk = NoTask
    /\ dispatch_disabled = "DISABLE_IMPLICIT"
    /\ pendsv = TRUE
    /\ basepri = FALSE

PoolCall ==
    \/ \E p \in MPF :
          \/ CreMpf(p) \/ GetMpf(p) \/ DelMpf(p)
          \/ \E b \in Block : RelMpf(p, b)
    \/ LockRetry \/ Unlock
    \/ \E atr \in MpfAtr : CreBody(atr)
    \/ \E tmout \in TMO : GetBody(tmout)
    \/ DelBody \/ RelBody \/ RelPut

OtherCall ==
    \/ \E p \in Pri : IdleTask /\ CreTsk(p)
    \/ \E t \in Task :
          \/ TerTskPool(t)
          \/ StaTsk("hdr", t) \/ SusTsk("hdr", t) \/ RsmTsk("hdr", t)
          \/ RelWaiPool(t) \/ TimerEventPool(t)
          \/ \E p \in Pri : ChgPriPool(t, p)

PoolNext ==
    \/ PoolCall
    \/ OtherCall
    \/ DispatchEntry
    \/ DispatchSwitch

PoolSpec == PoolInit /\ [][PoolNext]_vars

-----------------------------------------------------------------------------
(***************************************************************************)
(* Properties.                                                             *)
(***************************************************************************)

\* The fields of pools and calls hold values of their C types, and unused
\* never points behind the end of the pool.
PoolTypeOK ==
    /\ kn.mpf \in [MPF -> {"free", "taken", "exists"}]
    /\ kn.mpfatr \in [MPF -> MpfAtr]
    /\ kn.locked \in [MPF -> BOOLEAN]
    /\ kn.frbcnt \in [MPF -> 0..MpfCnt]
    /\ kn.unused \in [MPF -> 1..MpfCnt+1]
    /\ \A p \in MPF : kn.freelist[p] \in Seq(Block) /\ kn.given[p] \subseteq Block
    /\ kn.wid \in [Task -> MPF \cup {NoMpf}]
    /\ kn.call \in [Task -> [op : Op \cup {"none"}, p : MPF \cup {NoMpf},
                              b : Block \cup {NoBlock}, at : At]]

\* A task is linked in one ring, as its state says: a READY task that waits
\* for a kernel lock in the queue of that lock, any other READY task in its
\* ready ring, a task that waits for a block in the queue of its pool.
PoolRingOf(t) ==
    CASE kn.state[t] = "READY" ->
            {IF kn.klockwait[t] THEN LockQ[kn.call[t].p] ELSE kn.priority[t]}
      [] kn.state[t] = "NONEXIST" -> {FreeTcb}
      [] kn.state[t] \in WaitBit -> {kn.wid[t]}
      [] OTHER -> {}

PoolRingsMatchStates ==
    /\ \A h \in QueHead, t \in Task : InRing(kn.que[h], t) <=> h \in PoolRingOf(t)
    /\ \A h \in QueHead : IsInjective(kn.que[h])

\* Mutual exclusion by the kernel lock: a pool is locked exactly while one
\* task holds or was given its lock, a task works on a pool only as that one,
\* and nobody queues for a lock that is free; whatever suspensions, priority
\* changes and terminations happen to the tasks meanwhile.
LockExclusive ==
    \A p \in MPF :
        LET holders == {t \in Task : kn.klocked[t] /\ kn.call[t].p = p}
        IN  /\ Cardinality(holders) = IF kn.locked[p] THEN 1 ELSE 0
            /\ \A t \in Task : InPool(p, t) => t \in holders
            /\ kn.que[LockQ[p]] # <<>> => kn.locked[p]

\* The blocks of an existing pool are never lost, given twice or counted
\* wrongly: each is in the free list, not used yet, given to the application
\* or being given back, once; frbcnt counts the first two kinds.
BlocksExact ==
    \A p \in MPF : kn.mpf[p] = "exists" =>
        LET back == {t \in Task : kn.call[t].p = p /\ kn.call[t].b # NoBlock}
            parts == <<ToSet(kn.freelist[p]), kn.unused[p]..MpfCnt, kn.given[p],
                       {kn.call[t].b : t \in back}>>
        IN  /\ UNION {parts[i] : i \in 1..4} = Block
            /\ \A i, j \in 1..4 : i # j => parts[i] \cap parts[j] = {}
            /\ \A t, u \in back : kn.call[t].b = kn.call[u].b => t = u
            /\ IsInjective(kn.freelist[p])
            /\ kn.frbcnt[p] = Len(kn.freelist[p]) + MpfCnt + 1 - kn.unused[p]

\* No task waits for a block of a pool that has a free one, or that does not
\* exist.
NoIdleBlock ==
    \A p \in MPF : kn.que[p] # <<>> => kn.mpf[p] = "exists" /\ kn.frbcnt[p] = 0

\* The wait queue of a TA_TPRI pool is in order of the current priorities.
PoolQueueSorted ==
    \A p \in MPF : kn.mpfatr[p] = "TPRI" =>
        \A i, j \in DOMAIN kn.que[p] :
            i < j => kn.priority[kn.que[p][i]] <= kn.priority[kn.que[p][j]]

\* The scheduled task is in its ready ring, never in the queue of a lock, and
\* there is one whenever a ready ring is not empty: the lock's shortcut in
\* the selection of the task never stops the system.
SchedIsRunnable ==
    IF kn.schedtsk = NoTask THEN \A p \in Pri : kn.que[p] = <<>>
    ELSE InRing(kn.que[kn.priority[kn.schedtsk]], kn.schedtsk)

\* Every task is linked in one ring and in its place there, also while a task
\* that the lock takes out of its ready ring is the one selected.
PoolQueuesExact ==
    PoolTypeOK /\ PoolRingsMatchStates /\ PoolQueueSorted /\ SchedIsRunnable

=============================================================================
