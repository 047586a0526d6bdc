----------------------------- MODULE MemoryPool -----------------------------
(***************************************************************************)
(* Variable-size memory pools (kernel/tkernel/mempool.c, mempool.h): the   *)
(* areas of a pool (Heap) and the tasks that wait for a block.  The blocks *)
(* that are released merge, and the first task of the queue may need more  *)
(* than is free while those behind it could go on.                         *)
(*                                                                         *)
(* winfo[t] is the size of the block t waits for, in units.  The wait      *)
(* queue of pool x has the head x.                                         *)
(***************************************************************************)
EXTENDS WaitObject, Heap

CONSTANTS MPL,          \* the memory pool control blocks
          MplSizes,     \* the sizes of pools, in bytes
          BlkSizes      \* the sizes of blocks tasks ask for, in bytes

ASSUME MemoryPoolAssumption ==
    /\ MPL \subseteq WaitQ /\ NoObj \notin MPL
    /\ MplSizes \subseteq Nat \ {0} /\ BlkSizes \subseteq Nat \ {0}

MplAtr == {"TPRI"}                          \* TA_TPRI
MplWSpec == {"mpl_tfifo", "mpl_tpri"}
NoHeap == <<>>

WithFreeMemoryPools(k) ==
    WithFields(k, [mplid |-> [x \in MPL |-> FALSE],
                   mplatr |-> [x \in MPL |-> {}],
                   mempool |-> [x \in MPL |-> NoHeap]])

\* knl_mpl_wakeup: as long as the first task's block is there.
MplWakeup(k0, x) ==
    LET next(a, t) ==
          LET r == GetBlk(a.k.mempool[x], a.k.winfo[t])
          IN  IF a.stop \/ a.k.winfo[t] > MaxFreeSize(a.k.mempool[x])
              THEN [a EXCEPT !.stop = TRUE]
              ELSE [a EXCEPT !.k = [EndWait(a.k, t, "E_OK") EXCEPT !.mempool[x] = r.heap]]
    IN  FoldLeft(next, [k |-> k0, stop |-> FALSE], k0.que[x]).k

\* mpl_chg_pri: t, which waits for a TA_TPRI pool, has a new priority.
MplChgPri(k, t) == MplWakeup(GcbChangePri(k, t, k.wid[t]), k.wid[t])

\* Fault: the queue is not looked at when a task leaves it.
MplRelWaiQuiet(k, x) == k

\* mpl_rel_wai: a task has left the queue of x without its block.
MplRelWai(k, x) == MplWakeup(k, x)

(***************************************************************************)
(* The calls on memory pools.  None may be made by a handler or with       *)
(* dispatching disabled (CHECK_DISPATCH).                                  *)
(***************************************************************************)
CreMpl(x, atr, mplsz) ==
    /\ CanWait
    /\ ~kn.mplid[x]
    /\ SystemCall("task", [kn EXCEPT !.mplid[x] = TRUE, !.mplatr[x] = atr,
                                     !.mempool[x] = NewHeap(RoundSize(mplsz))])

DelMpl(x) ==
    /\ CanWait
    /\ kn.mplid[x]
    /\ SystemCall("task", [WaitDelete(kn, x) EXCEPT
                             !.mplid[x] = FALSE, !.mplatr[x] = {}, !.mempool[x] = NoHeap])

GetMpl(x, sz, tmout) ==
    LET blksz == RoundSize(sz)
        tpri == "TPRI" \in kn.mplatr[x]
        r == GetBlk(kn.mempool[x], blksz)
    IN  /\ CanWait
        /\ kn.mplid[x] /\ blksz <= kn.mempool[x].memsz
        /\ IF IsTop(kn, ctxtsk, x, tpri) /\ r.blk # NoBlk
           THEN SystemCall("task", [kn EXCEPT !.mempool[x] = r.heap])
           ELSE /\ tmout # "POL"
                /\ SystemCall("task", GcbMakeWait(kn, ctxtsk, x, x, tpri,
                                                  IF tpri THEN "mpl_tpri" ELSE "mpl_tfifo",
                                                  blksz, tmout))

\* Blocks are released by the address that was got; one that is not in use is
\* refused (E_PAR).
RelMpl(x, blk) ==
    /\ CanWait
    /\ kn.mplid[x] /\ blk \in Used(kn.mempool[x])
    /\ SystemCall("task", MplWakeup([kn EXCEPT !.mempool[x] = RelBlk(@, blk)], x))

MplCall ==
    \E x \in MPL :
        \/ \E atr \in SUBSET MplAtr, mplsz \in MplSizes : CreMpl(x, atr, mplsz)
        \/ DelMpl(x)
        \/ \E sz \in BlkSizes, tmout \in TMO : GetMpl(x, sz, tmout)
        \/ kn.mplid[x] /\ \E blk \in Used(kn.mempool[x]) : RelMpl(x, blk)

-----------------------------------------------------------------------------
(***************************************************************************)
(* Properties.                                                             *)
(***************************************************************************)

MplTypeOK ==
    /\ kn.mplid \in [MPL -> BOOLEAN]
    /\ kn.mplatr \in [MPL -> SUBSET MplAtr]
    /\ \A x \in MPL : kn.mplid[x] <=> kn.mempool[x] # NoHeap

\* The queue of x holds the tasks that wait for x, in their order.
MplQueueExact ==
    \A x \in MPL : QueueExact(kn, x, {t \in Task : WaitsFor(kn, t, x)}, "TPRI" \in kn.mplatr[x])

\* Whatever blocks were got and released, in whatever order, and by whatever
\* call a waiting task got its block: the areas tile the memory, free ones are
\* merged and in the FreeQue under their size.
HeapExact == \A x \in MPL : kn.mplid[x] => Exact(kn.mempool[x])

\* The first task of a queue needs more than the largest free area.
MplNoSatisfiedWaiter ==
    \A x \in MPL : kn.que[x] # <<>> =>
        kn.winfo[Head(kn.que[x])] > MaxFreeSize(kn.mempool[x])
=============================================================================
