----------------------------- MODULE PoolProofs -----------------------------
(***************************************************************************)
(* Fixed-size memory pools keep their queues, their kernel locks and their *)
(* blocks exact, for any number of tasks, priorities, pools and blocks.    *)
(* The inductive invariant PoolInv says of the kernel state what each part *)
(* of it relies on, and of the task in execution that it is in its ready   *)
(* ring: a call that takes it out requests a dispatch.                     *)
(***************************************************************************)
EXTENDS FixedPool, TKernelProofs, FiniteSetTheorems

PoolField == {"mpf", "mpfatr", "locked", "frbcnt", "unused", "freelist", "given", "wid", "call"}

\* The fields of pools and calls have their types, apart from the upper bound
\* of frbcnt, which follows from the rest.
CallRecord == [op : Op \cup {"none"}, p : MPF \cup {NoMpf}, b : Block \cup {NoBlock}, at : At]

Pools(k) ==
    /\ PoolField \subseteq DOMAIN k
    /\ k.mpf \in [MPF -> {"free", "taken", "exists"}]
    /\ k.mpfatr \in [MPF -> MpfAtr]
    /\ k.locked \in [MPF -> BOOLEAN]
    /\ k.frbcnt \in [MPF -> Nat]
    /\ k.unused \in [MPF -> 1..MpfCnt+1]
    /\ k.freelist \in [MPF -> Seq(Block)]
    /\ k.given \in [MPF -> SUBSET Block]
    /\ k.wid \in [Task -> MPF \cup {NoMpf}]
    /\ k.call \in [Task -> CallRecord]

\* The ring of each task (PoolRingOf).
PlaceOfTask(k, t) ==
    CASE k.state[t] = "READY" ->
            {IF k.klockwait[t] THEN LockQ[k.call[t].p] ELSE k.priority[t]}
      [] k.state[t] = "NONEXIST" -> {FreeTcb}
      [] k.state[t] \in WaitBit -> {k.wid[t]}
      [] OTHER -> {}

PoolPlaces(k) == [t \in Task |-> PlaceOfTask(k, t)]

\* A task that holds or was given a lock is in a call on its pool, and is the
\* only one; a task that queues for a lock is READY and the lock is held; a
\* task in a call is READY or suspended.
LockInv(k) ==
    /\ \A t \in Task :
          /\ k.call[t] = Idle \/ (k.call[t].op \in Op /\ k.call[t].p \in MPF)
          /\ k.klocked[t] => k.call[t] # Idle /\ k.locked[k.call[t].p]
          /\ k.call[t].at # "lock" => k.klocked[t]
          /\ k.klockwait[t] => /\ k.state[t] = "READY" /\ ~k.klocked[t]
                               /\ k.call[t] # Idle /\ k.locked[k.call[t].p]
          /\ k.state[t] \notin {"READY", "SUSPEND"} => k.call[t] = Idle
    /\ \A t, u \in Task :
          k.klocked[t] /\ k.klocked[u] /\ k.call[t].p = k.call[u].p => t = u
    /\ \A p \in MPF : k.locked[p] => \E t \in Task : k.klocked[t] /\ k.call[t].p = p

WaitsFor(k, t, p) == k.state[t] \in WaitBit /\ k.wid[t] = p

\* A task waits for a block of a pool that exists and has none, as its
\* attribute says; only such a task is in the timer queue; and no task waits
\* for a block of a pool while a block is put in its free list.
WaitInv(k) ==
    \A t \in Task :
        /\ k.state[t] \in WaitBit =>
              /\ k.wid[t] \in MPF
              /\ k.mpf[k.wid[t]] = "exists" /\ k.frbcnt[k.wid[t]] = 0
              /\ k.wspec[t] = IF k.mpfatr[k.wid[t]] = "TPRI" THEN "mpf_tpri" ELSE "mpf_tfifo"
        /\ k.wtmeb[t] => k.state[t] \in WaitBit
        /\ k.call[t].at = "put" =>
              /\ k.call[t].op = "rel" /\ k.mpf[k.call[t].p] = "exists"
              /\ \A u \in Task : ~WaitsFor(k, u, k.call[t].p)

Sorted(k) ==
    \A p \in MPF : k.mpfatr[p] = "TPRI" => Ordered(k.que[p], k.priority)

\* Task t is giving back block b of pool p.
Back(k, t, p, b) == k.call[t].p = p /\ k.call[t].b = b

\* The blocks of pool p, each in one place.
Partition(k, p) ==
    /\ IsInjective(k.freelist[p])
    /\ \A b \in Block :
          /\ Contains(k.freelist[p], b) => b < k.unused[p] /\ b \notin k.given[p]
          /\ b \in k.given[p] => b < k.unused[p]
          /\ \/ Contains(k.freelist[p], b) \/ b >= k.unused[p] \/ b \in k.given[p]
             \/ \E t \in Task : Back(k, t, p, b)
    /\ \A t \in Task, b \in Block : Back(k, t, p, b) =>
          /\ b < k.unused[p] /\ b \notin k.given[p] /\ ~Contains(k.freelist[p], b)
          /\ \A u \in Task : Back(k, u, p, b) => u = t
    /\ k.frbcnt[p] = Len(k.freelist[p]) + MpfCnt + 1 - k.unused[p]

HasNone(k, p) == k.given[p] = {} /\ k.frbcnt[p] = 0

\* The blocks of a pool that exists are in their places, and there are none
\* of any other pool.
BlockInv(k) ==
    \A p \in MPF : IF k.mpf[p] = "exists" THEN Partition(k, p) ELSE HasNone(k, p)

\* Task t creates a pool, and has not yet made it.
Creates(k, t) == k.call[t].op = "cre" /\ k.call[t].at \in {"lock", "body"}

\* A call that gives back a block has it until the pool takes it, and the
\* pool exists until then; no other call has a block; the task that creates a
\* pool does so alone; and the application gives back no block of a pool that
\* it deletes.
CallInv(k) ==
    /\ \A t \in Task :
          /\ k.call[t].b # NoBlock => k.call[t].op = "rel" /\ k.mpf[k.call[t].p] = "exists"
          /\ k.call[t].op = "rel" => (k.call[t].b # NoBlock <=> k.call[t].at # "unlock")
          /\ Creates(k, t) => k.mpf[k.call[t].p] = "taken"
    /\ \A t, u \in Task : k.call[t].p = k.call[u].p =>
          /\ k.call[t].op = "rel" => k.call[u].op # "del"
          /\ Creates(k, t) /\ Creates(k, u) => t = u

PoolState(k) ==
    /\ Steady(k, PoolPlaces(k))
    /\ Pools(k)
    /\ LockInv(k)
    /\ WaitInv(k)
    /\ Sorted(k)
    /\ BlockInv(k)
    /\ CallInv(k)

\* Nothing disables dispatching or interrupts here, and the task in execution
\* is in its ready ring.
Control ==
    /\ ctxtsk \in Task \cup {NoTask}
    /\ pendsv \in BOOLEAN
    /\ basepri = FALSE
    /\ ctxtsk # NoTask => dispatch_disabled = "ENABLE"
    /\ InTask => Runnable(kn, PoolPlaces(kn), ctxtsk)

PoolInv == PoolState(kn) /\ Control

(***************************************************************************)
(* Heads, calls and places.                                                *)
(***************************************************************************)
LEMMA PoolHeads ==
    /\ MPF \subseteq OtherHead
    /\ \A p \in MPF : LockQ[p] \in OtherHead /\ LockQ[p] \notin MPF
    /\ \A p, q \in MPF : LockQ[p] = LockQ[q] => p = q
    /\ NoMpf \notin MPF /\ FreeTcb \notin MPF
    /\ \A p \in MPF : LockQ[p] # FreeTcb
    /\ MpfCnt \in Nat /\ MpfCnt > 0 /\ NoBlock \notin Block /\ Block \subseteq Nat
<1>1. DOMAIN LockQ = MPF /\ \A p \in MPF : LockQ[p] \in WaitQ \ MPF
  BY PoolAssumption
<1>2. \A p, q \in MPF : LockQ[p] = LockQ[q] => p = q
  BY <1>1, PoolAssumption DEF IsInjective
<1>3. MPF \subseteq WaitQ /\ NoMpf \notin WaitQ /\ WaitQ \subseteq OtherHead
  BY PoolAssumption, OtherHeads
<1>4. FreeTcb \notin WaitQ /\ OtherHead \subseteq {FreeTcb} \cup WaitQ
  BY QueueHeadAssumption DEF OtherHead, QueHead
<1>5. MpfCnt \in Nat /\ MpfCnt > 0 /\ NoBlock \notin Block /\ Block \subseteq Nat
  BY PoolAssumption DEF NoBlock, Block
<1> QED BY <1>1, <1>2, <1>3, <1>4, <1>5

LEMMA IdleCall ==
    /\ Idle \in CallRecord
    /\ Idle.op = "none" /\ Idle.p = NoMpf /\ Idle.b = NoBlock /\ Idle.at = "lock"
    /\ Idle.op \notin Op
  BY DEF Idle, Call, CallRecord, At, Op

LEMMA NewCall ==
    ASSUME NEW op \in Op, NEW p \in MPF, NEW b \in Block \cup {NoBlock}
    PROVE  /\ Call(op, p, b) \in CallRecord
           /\ Call(op, p, b).op = op /\ Call(op, p, b).p = p /\ Call(op, p, b).b = b
           /\ Call(op, p, b).at = "lock" /\ Call(op, p, b) # Idle
<1>1. /\ Call(op, p, b) \in CallRecord
      /\ Call(op, p, b).op = op /\ Call(op, p, b).p = p /\ Call(op, p, b).b = b
      /\ Call(op, p, b).at = "lock"
  BY DEF Call, CallRecord, At
<1>2. op # "none"
  BY DEF Op
<1> QED BY <1>1, <1>2, IdleCall

\* A call goes on.
LEMMA CallAt ==
    ASSUME NEW c \in CallRecord, NEW at \in At
    PROVE  LET c1 == [c EXCEPT !.at = at]
           IN  c1 \in CallRecord /\ c1.op = c.op /\ c1.p = c.p /\ c1.b = c.b /\ c1.at = at
  BY DEF CallRecord

LEMMA PlaceCases ==
    ASSUME NEW k, PoolState(k), NEW t \in Task
    PROVE  LET r == PoolPlaces(k)
           IN  /\ r[t] = PlaceOfTask(k, t)
               /\ k.state[t] = "READY" /\ ~k.klockwait[t] => r[t] = {k.priority[t]}
               /\ k.state[t] = "READY" /\ k.klockwait[t] => r[t] = {LockQ[k.call[t].p]}
               /\ k.state[t] \in WaitBit => /\ r[t] = {k.wid[t]} /\ k.wid[t] \in MPF
                                            /\ r[t] \cap Pri = {} /\ ~k.klockwait[t]
               /\ k.state[t] = "NONEXIST" => r[t] = {FreeTcb}
               /\ k.state[t] \notin WaitBit \cup {"READY", "NONEXIST"} => r[t] = {}
               /\ Runnable(k, r, t) <=> k.state[t] = "READY" /\ ~k.klockwait[t]
               /\ k.state[t] = "READY" => MayLeave(k, r, t)
<1> DEFINE r == PoolPlaces(k)
           s == k.state[t]
<1>1. r[t] = PlaceOfTask(k, t)
  BY DEF PoolPlaces
<1>2. s = "READY" /\ ~k.klockwait[t] => r[t] = {k.priority[t]}
  BY <1>1, ATaskWaits DEF PlaceOfTask
<1>3. s = "READY" /\ k.klockwait[t] => r[t] = {LockQ[k.call[t].p]} /\ k.call[t].p \in MPF
  <2>1. k.klockwait[t] => k.call[t].p \in MPF
    BY DEF PoolState, LockInv
  <2> QED BY <1>1, <2>1, ATaskWaits DEF PlaceOfTask
<1>4. s \in WaitBit => /\ r[t] = {k.wid[t]} /\ k.wid[t] \in MPF /\ ~k.klockwait[t]
  <2>1. s \in WaitBit => k.wid[t] \in MPF
    BY DEF PoolState, WaitInv
  <2>2. k.klockwait[t] => s = "READY"
    BY DEF PoolState, LockInv
  <2>3. s \in WaitBit => s # "READY" /\ s # "NONEXIST"
    BY ATaskWaits
  <2>4. s \in WaitBit => PlaceOfTask(k, t) = {k.wid[t]}
    BY <2>3 DEF PlaceOfTask
  <2> HIDE DEF r, s
  <2> QED BY <1>1, <2>1, <2>2, <2>3, <2>4
<1>5. s = "NONEXIST" => r[t] = {FreeTcb}
  BY <1>1, ATaskWaits DEF PlaceOfTask
<1>6. s \notin WaitBit \cup {"READY", "NONEXIST"} => r[t] = {}
  BY <1>1 DEF PlaceOfTask
<1>7. k.priority[t] \in Pri
  BY DEF PoolState, Steady, Ready, Kernel
<1> HIDE DEF r, s
<1>8. s \in WaitBit => r[t] \cap Pri = {}
  BY <1>4, PoolHeads, OtherHeads
<1>9. k.priority[t] \in r[t] <=> s = "READY" /\ ~k.klockwait[t]
  <2>1. CASE s = "READY" /\ ~k.klockwait[t]
    BY <2>1, <1>2
  <2>2. CASE s = "READY" /\ k.klockwait[t]
    BY <2>2, <1>3, <1>7, PoolHeads, OtherHeads
  <2>3. CASE s \in WaitBit
    BY <2>3, <1>7, <1>8, ATaskWaits
  <2>4. CASE s = "NONEXIST"
    BY <2>4, <1>5, <1>7, PriIsNatural
  <2>5. CASE s \notin WaitBit \cup {"READY", "NONEXIST"}
    BY <2>5, <1>6
  <2> QED BY <2>1, <2>2, <2>3, <2>4, <2>5
<1>10. Runnable(k, r, t) <=> s = "READY" /\ ~k.klockwait[t]
  BY <1>9 DEF Runnable
<1>11. s = "READY" => MayLeave(k, r, t)
  BY <1>10 DEF MayLeave
<1> QED BY <1>1, <1>2, <1>3, <1>4, <1>5, <1>6, <1>8, <1>10, <1>11 DEF r, s

\* A step that changes the place of one task.
LEMMA OnePlace ==
    ASSUME NEW k, NEW k1, NEW t \in Task,
           \A u \in Task \ {t} : PlaceOfTask(k1, u) = PlaceOfTask(k, u)
    PROVE  PoolPlaces(k1) = [PoolPlaces(k) EXCEPT ![t] = PlaceOfTask(k1, t)]
  BY DEF PoolPlaces

LEMMA SamePlace ==
    ASSUME NEW k, NEW k1, NEW u,
           k1.state[u] = k.state[u], k1.klockwait[u] = k.klockwait[u],
           k1.priority[u] = k.priority[u], k1.wid[u] = k.wid[u],
           k1.call[u].p = k.call[u].p
    PROVE  PlaceOfTask(k1, u) = PlaceOfTask(k, u)
  BY DEF PlaceOfTask

(***************************************************************************)
(* The parts of the invariant that a step does not concern.                *)
(***************************************************************************)
LEMMA BlocksKept ==
    ASSUME NEW k, NEW k1, BlockInv(k), CallInv(k), k1.mpf = k.mpf, k1.frbcnt = k.frbcnt,
           k1.unused = k.unused, k1.freelist = k.freelist, k1.given = k.given,
           k1.call = k.call
    PROVE  BlockInv(k1) /\ CallInv(k1)
  BY DEF BlockInv, Partition, HasNone, Back, CallInv, Creates

\* A change of rings: each pool's queue loses task t, if it had it.
LEMMA SortedUnlinked ==
    ASSUME NEW k, NEW k1, NEW r, Steady(k, r), Sorted(k), NEW t \in Task,
           \A h \in OtherHead : k1.que[h] = Unlink(k.que[h], t),
           k1.mpfatr = k.mpfatr,
           \A u \in Task \ {t} : k1.priority[u] = k.priority[u]
    PROVE  Sorted(k1)
<1> SUFFICES ASSUME NEW p \in MPF, k1.mpfatr[p] = "TPRI"
             PROVE  Ordered(k1.que[p], k1.priority)
  BY DEF Sorted
<1> DEFINE s == k.que[p]
           s1 == Unlink(s, t)
<1>1. /\ s \in Seq(Task) /\ IsInjective(s) /\ Linked(k.que, r) /\ p \in QueHead
      /\ p \in OtherHead
  BY PoolHeads, OtherHeads DEF Steady, Ready, Kernel, Linked, Rings
<1>2. Ordered(s, k.priority)
  BY DEF Sorted
<1>3. k1.que[p] = s1
  BY <1>1
<1>4. p \in r[t] \/ s1 = s
  BY <1>1 DEF Linked, Unlink
<1>5. Ordered(s1, k.priority)
  <2> HIDE DEF s
  <2> QED BY <1>1, <1>2, UnlinkOrdered
<1>6. s1 \in Seq(Task) /\ \A u \in Task : InRing(s1, u) <=> InRing(s, u) /\ u # t
  <2> HIDE DEF s
  <2> QED BY <1>1, UnlinkRing
<1>7. \A i \in DOMAIN s1 : s1[i] \in Task /\ InRing(s1, s1[i])
  <2> HIDE DEF s1
  <2>1. DOMAIN s1 = 1..Len(s1) /\ \A i \in 1..Len(s1) : s1[i] \in Task
    BY <1>6, LenProperties, ElementOfSeq
  <2> QED BY <2>1 DEF InRing
<1> HIDE DEF s1, s
<1>8. \A i \in DOMAIN s1 : k1.priority[s1[i]] = k.priority[s1[i]]
  BY <1>6, <1>7
<1>9. Ordered(s1, k1.priority)
  BY <1>5, <1>8 DEF Ordered
<1> QED BY <1>3, <1>9

\* The same when the queues of pools are as before.
LEMMA SortedKept ==
    ASSUME NEW k, NEW k1, NEW r, Steady(k, r), Sorted(k), NEW t \in Task,
           \A p \in MPF : k1.que[p] = k.que[p],
           k1.mpfatr = k.mpfatr,
           \A u \in Task \ {t} : k1.priority[u] = k.priority[u],
           \/ k1.priority[t] = k.priority[t]
           \/ \A p \in MPF : k.mpfatr[p] = "TPRI" => p \notin r[t]
    PROVE  Sorted(k1)
<1> SUFFICES ASSUME NEW p \in MPF, k1.mpfatr[p] = "TPRI"
             PROVE  Ordered(k1.que[p], k1.priority)
  BY DEF Sorted
<1> DEFINE s == k.que[p]
<1>1. s \in Seq(Task) /\ Linked(k.que, r) /\ p \in QueHead /\ p \in OtherHead
  BY PoolHeads, OtherHeads DEF Steady, Ready, Kernel, Linked, Rings
<1>2. Ordered(s, k.priority)
  BY DEF Sorted
<1>3. k1.que[p] = s
  BY <1>1
<1>4. \A i \in DOMAIN s : s[i] \in Task /\ InRing(s, s[i])
  <2> HIDE DEF s
  <2>1. DOMAIN s = 1..Len(s) /\ \A i \in 1..Len(s) : s[i] \in Task
    BY <1>1, LenProperties, ElementOfSeq
  <2> QED BY <2>1 DEF InRing
<1>5. \A i \in DOMAIN s : p \in r[s[i]]
  BY <1>1, <1>4 DEF Linked
<1>6. \A i \in DOMAIN s : k1.priority[s[i]] = k.priority[s[i]]
  BY <1>4, <1>5
<1> HIDE DEF s
<1>7. Ordered(s, k1.priority)
  BY <1>2, <1>6 DEF Ordered
<1> QED BY <1>3, <1>7

(***************************************************************************)
(* A wait for a block ends.                                                *)
(***************************************************************************)
PoolWaitEnds == WaitEnds \cup {"wid"}

\* Task t is released from its wait.
PoolWaitEnded(k1, k, t) ==
    /\ PoolState(k1)
    /\ Only(k1, k, PoolWaitEnds)
    /\ \A u \in Task \ {t} : k1.state[u] = k.state[u] /\ k1.wid[u] = k.wid[u]
    /\ k1.state[t] \in {"READY", "SUSPEND"}
    /\ \A h \in OtherHead : k1.que[h] = Unlink(k.que[h], t)

LEMMA EndPoolWaitState ==
    ASSUME NEW k, PoolState(k), NEW t \in Task, k.state[t] \in WaitBit, NEW ercd
    PROVE  PoolWaitEnded(EndPoolWait(k, t, ercd), k, t)
<1> DEFINE r == PoolPlaces(k)
           k0 == WaitRelease(k, t, ercd)
           k1 == [k0 EXCEPT !.wid[t] = NoMpf]
           s == IF k.state[t] = "WAIT" THEN "READY" ELSE "SUSPEND"
           x == IF k.state[t] = "WAIT" THEN {k.priority[t]} ELSE {}
<1>1. /\ Steady(k, r) /\ Pools(k) /\ LockInv(k) /\ WaitInv(k) /\ Sorted(k) /\ BlockInv(k)
      /\ CallInv(k)
  BY DEF PoolState
<1>2. /\ r[t] \cap Pri = {} /\ ~k.klockwait[t]
      /\ KernelField \cup PoolField \subseteq DOMAIN k /\ Kernel(k)
  BY <1>1, PlaceCases DEF Steady, Ready, Kernel, Pools
<1>3. WaitReleased(k0, k, r, t, ercd)
  BY <1>1, <1>2, WaitReleaseSteady
<1>4. EndPoolWait(k, t, ercd) = k1
  BY DEF EndPoolWait
<1> HIDE DEF k0, s, x, r
<1>5. /\ Steady(k0, [r EXCEPT ![t] = x]) /\ Only(k0, k, WaitEnds)
      /\ k0.state = [k.state EXCEPT ![t] = s]
      /\ k0.wtmeb = [k.wtmeb EXCEPT ![t] = FALSE]
      /\ k0.wspec = [k.wspec EXCEPT ![t] = NoSpec]
      /\ \A h \in OtherHead : k0.que[h] = Unlink(k.que[h], t)
  BY <1>3 DEF WaitReleased, s, x
<1>6. KernelField \cup PoolField \subseteq DOMAIN k0 /\ k0.wid = k.wid
  BY <1>2, <1>5 DEF Only, WaitEnds, ReadyQue, PoolField, KernelField
<1>7. Only(k1, k0, {"wid"}) /\ k1.wid = [k.wid EXCEPT ![t] = NoMpf]
  BY <1>6 DEF Only, PoolField
<1> HIDE DEF k1
<1>8. /\ k1.state = [k.state EXCEPT ![t] = s]
      /\ k1.wtmeb = [k.wtmeb EXCEPT ![t] = FALSE]
      /\ k1.wspec = [k.wspec EXCEPT ![t] = NoSpec]
      /\ \A h \in OtherHead : k1.que[h] = Unlink(k.que[h], t)
  BY <1>5, <1>6, <1>7 DEF Only, KernelField
<1>9. Only(k1, k, PoolWaitEnds)
  <2>1. WaitEnds \subseteq PoolWaitEnds /\ {"wid"} \subseteq PoolWaitEnds
    BY DEF PoolWaitEnds
  <2> QED BY <1>5, <1>7, <2>1, OnlyTrans
<1>10. /\ k1.priority = k.priority /\ k1.klocked = k.klocked /\ k1.klockwait = k.klockwait
       /\ k1.mpf = k.mpf /\ k1.mpfatr = k.mpfatr /\ k1.locked = k.locked
       /\ k1.frbcnt = k.frbcnt /\ k1.unused = k.unused /\ k1.freelist = k.freelist
       /\ k1.given = k.given /\ k1.call = k.call
       /\ KernelField \cup PoolField \subseteq DOMAIN k1
  BY <1>2, <1>9 DEF Only, PoolWaitEnds, WaitEnds, ReadyQue, KernelField, PoolField
<1>11. k1.state \in [Task -> TSTAT] /\ k1.wspec \in [Task -> WSpec] /\ s \in {"READY", "SUSPEND"}
       /\ k1.wid \in [Task -> MPF \cup {NoMpf}]
  BY <1>1, <1>2, <1>7, <1>8 DEF Kernel, TSTAT, WSpec, s, Pools
<1>12. k1.wtmeb \in [Task -> BOOLEAN]
  BY <1>2, <1>8 DEF Kernel
<1>13. Steady(k1, [r EXCEPT ![t] = x])
  <2>1. {"wid"} \cap {"que", "bitmap", "top_priority", "klocktsk", "schedtsk",
                      "priority", "ipriority", "klocked", "klockwait"} = {}
    OBVIOUS
  <2> QED BY <1>5, <1>7, <1>11, <1>12, <2>1, FieldsChange
<1>14. \A u \in Task \ {t} : k1.state[u] = k.state[u] /\ k1.wid[u] = k.wid[u]
  BY <1>1, <1>2, <1>7, <1>8 DEF Kernel, Pools
<1>15. k1.state[t] = s /\ k.state[t] \in WaitBit
  BY <1>2, <1>8 DEF Kernel
<1>16. PoolPlaces(k1) = [r EXCEPT ![t] = x]
  <2>1. \A u \in Task \ {t} : PlaceOfTask(k1, u) = PlaceOfTask(k, u)
    BY <1>10, <1>14, SamePlace
  <2>2. PlaceOfTask(k1, t) = x
    <3>1. CASE k.state[t] = "WAIT"
      <4>1. k1.state[t] = "READY" /\ x = {k.priority[t]}
        BY <3>1, <1>15 DEF s, x
      <4>2. ~k1.klockwait[t] /\ k1.priority[t] = k.priority[t]
        BY <1>2, <1>10
      <4>3. (IF k1.klockwait[t] THEN LockQ[k1.call[t].p] ELSE k1.priority[t]) = k.priority[t]
        BY <4>2
      <4>4. PlaceOfTask(k1, t)
              = {IF k1.klockwait[t] THEN LockQ[k1.call[t].p] ELSE k1.priority[t]}
        BY <4>1, ATaskWaits DEF PlaceOfTask
      <4> QED BY <4>1, <4>3, <4>4
    <3>2. CASE k.state[t] # "WAIT"
      BY <3>2, <1>15 DEF PlaceOfTask, s, x, WaitBit
    <3> QED BY <3>1, <3>2
  <2> QED BY <2>1, <2>2, OnePlace DEF r
<1>17. Pools(k1)
  BY <1>1, <1>10, <1>11 DEF Pools
<1>18. LockInv(k1)
  <2>1. ASSUME NEW u \in Task, k1.state[u] \notin {"READY", "SUSPEND"} PROVE k1.call[u] = Idle
    BY <2>1, <1>1, <1>10, <1>11, <1>14, <1>15 DEF LockInv
  <2>2. ASSUME NEW u \in Task, k1.klockwait[u] PROVE k1.state[u] = "READY"
    BY <2>2, <1>1, <1>2, <1>10, <1>14 DEF LockInv
  <2> QED BY <1>1, <1>10, <2>1, <2>2 DEF LockInv
<1>19. WaitInv(k1)
  <2>1. k1.state[t] \notin WaitBit
    BY <1>11, <1>15, ATaskWaits
  <2>2. ASSUME NEW u \in Task, k1.state[u] \in WaitBit
        PROVE  /\ u # t /\ k.state[u] \in WaitBit /\ k1.wid[u] = k.wid[u]
               /\ k1.wspec[u] = k.wspec[u]
    BY <2>1, <2>2, <1>2, <1>8, <1>14 DEF Kernel
  <2>3. ASSUME NEW u \in Task, k1.state[u] \in WaitBit
        PROVE  /\ k1.wid[u] \in MPF
               /\ k1.mpf[k1.wid[u]] = "exists" /\ k1.frbcnt[k1.wid[u]] = 0
               /\ k1.wspec[u] = IF k1.mpfatr[k1.wid[u]] = "TPRI" THEN "mpf_tpri"
                                ELSE "mpf_tfifo"
    BY <2>2, <2>3, <1>1, <1>10 DEF WaitInv
  <2>4. ASSUME NEW u \in Task, k1.wtmeb[u] PROVE k1.state[u] \in WaitBit
    <3>1. u # t /\ k.wtmeb[u]
      BY <2>4, <1>2, <1>8 DEF Kernel
    <3> QED BY <3>1, <1>1, <1>14 DEF WaitInv
  <2>5. ASSUME NEW u \in Task, NEW p, WaitsFor(k1, u, p) PROVE WaitsFor(k, u, p)
    BY <2>2, <2>5 DEF WaitsFor
  <2> QED BY <1>1, <1>10, <2>3, <2>4, <2>5 DEF WaitInv
<1>20. Sorted(k1)
  BY <1>1, <1>8, <1>10, SortedUnlinked
<1>21. BlockInv(k1) /\ CallInv(k1)
  BY <1>1, <1>10, BlocksKept
<1>22. PoolState(k1)
  BY <1>13, <1>16, <1>17, <1>18, <1>19, <1>20, <1>21 DEF PoolState
<1> QED BY <1>4, <1>8, <1>9, <1>11, <1>14, <1>15, <1>22 DEF PoolWaitEnded

(***************************************************************************)
(* The task in execution changes its pool and its call.                    *)
(***************************************************************************)
OwnField == {"mpf", "mpfatr", "locked", "frbcnt", "unused", "freelist", "given", "call"}

\* A task waits for a block of pool p.
HasWaiter(k, p) == \E u \in Task : WaitsFor(k, u, p)

LEMMA WaiterQueued ==
    ASSUME NEW k, PoolState(k), NEW p \in MPF
    PROVE  /\ \A u \in Task : InRing(k.que[p], u) <=> WaitsFor(k, u, p)
           /\ k.que[p] \in Seq(Task) /\ IsInjective(k.que[p])
           /\ HasWaiter(k, p) <=> k.que[p] # <<>>
<1> DEFINE r == PoolPlaces(k)
           s == k.que[p]
<1>1. /\ s \in Seq(Task) /\ IsInjective(s) /\ p \in QueHead /\ p \notin Pri
      /\ \A u \in Task : InRing(s, u) <=> p \in r[u]
  BY PoolHeads, OtherHeads DEF PoolState, Steady, Ready, Kernel, Rings, Linked
<1>2. \A u \in Task : k.klockwait[u] => k.call[u].p \in MPF
  BY DEF PoolState, LockInv
<1>3. ASSUME NEW u \in Task PROVE p \in r[u] <=> WaitsFor(k, u, p)
  <2>1. k.priority[u] \in Pri
    BY DEF PoolState, Steady, Ready, Kernel
  <2>2. CASE k.state[u] = "READY" /\ ~k.klockwait[u]
    BY <2>1, <2>2, <1>1, PlaceCases, ATaskWaits DEF WaitsFor
  <2>3. CASE k.state[u] = "READY" /\ k.klockwait[u]
    BY <2>3, <1>2, PoolHeads, PlaceCases, ATaskWaits DEF WaitsFor
  <2>4. CASE k.state[u] \in WaitBit
    BY <2>4, PlaceCases DEF WaitsFor
  <2>5. CASE k.state[u] = "NONEXIST"
    BY <2>5, PoolHeads, PlaceCases, ATaskWaits DEF WaitsFor
  <2>6. CASE k.state[u] \notin WaitBit \cup {"READY", "NONEXIST"}
    BY <2>6, PlaceCases DEF WaitsFor
  <2> QED BY <2>2, <2>3, <2>4, <2>5, <2>6
<1> HIDE DEF r, s
<1>4. HasWaiter(k, p) <=> \E u \in Task : InRing(s, u)
  BY <1>1, <1>3 DEF HasWaiter
<1>5. (\E u \in Task : InRing(s, u)) <=> s # <<>>
  <2>1. ASSUME s # <<>> PROVE InRing(s, Head(s)) /\ Head(s) \in Task
    BY <2>1, <1>1, TailEntries, InRingContains
  <2>2. ASSUME s = <<>> PROVE \A u \in Task : ~InRing(s, u)
    BY <2>2 DEF InRing
  <2> QED BY <2>1, <2>2
<1> QED BY <1>1, <1>3, <1>4, <1>5 DEF s

LEMMA OwnPlaces ==
    ASSUME NEW k, PoolState(k), NEW k1, Only(k1, k, OwnField),
           \A u \in Task : k.klockwait[u] => k1.call[u].p = k.call[u].p
    PROVE  /\ PoolPlaces(k1) = PoolPlaces(k) /\ Steady(k1, PoolPlaces(k1))
           /\ k1.state = k.state /\ k1.klocked = k.klocked /\ k1.klockwait = k.klockwait
           /\ k1.wspec = k.wspec /\ k1.wtmeb = k.wtmeb /\ k1.que = k.que
           /\ k1.priority = k.priority /\ k1.wid = k.wid
           /\ DOMAIN k1 = DOMAIN k
<1>1. Kernel(k) /\ Pools(k) /\ Steady(k, PoolPlaces(k))
  BY DEF PoolState, Steady, Ready
<1>2. KernelField \cup PoolField \subseteq DOMAIN k
  BY <1>1 DEF Kernel, Pools
<1>3. /\ k1.state = k.state /\ k1.klocked = k.klocked /\ k1.klockwait = k.klockwait
      /\ k1.wspec = k.wspec /\ k1.wtmeb = k.wtmeb /\ k1.que = k.que
      /\ k1.priority = k.priority /\ k1.wid = k.wid
      /\ DOMAIN k1 = DOMAIN k
  BY <1>2 DEF Only, OwnField, KernelField, PoolField
<1>4. \A u \in Task : PlaceOfTask(k1, u) = PlaceOfTask(k, u)
  BY <1>3 DEF PlaceOfTask
<1>5. PoolPlaces(k1) = PoolPlaces(k)
  BY <1>4 DEF PoolPlaces
<1>6. Steady(k1, PoolPlaces(k))
  <2>1. OwnField \cap {"que", "bitmap", "top_priority", "klocktsk", "schedtsk",
                       "priority", "ipriority", "klocked", "klockwait"} = {}
    BY DEF OwnField
  <2>2. k1.state \in [Task -> TSTAT] /\ k1.wspec \in [Task -> WSpec]
        /\ k1.wtmeb \in [Task -> BOOLEAN]
    BY <1>1, <1>3 DEF Kernel
  <2> QED BY <1>1, <2>1, <2>2, FieldsChange
<1> QED BY <1>3, <1>5, <1>6

\* What task t may do to its call and to its pool.
OwnCall(k1, k, t) ==
    /\ \A u \in Task \ {t} : k1.call[u] = k.call[u]
    /\ k1.call[t].op \in Op /\ k1.call[t].p \in MPF
    /\ k.klocked[t] => k1.call[t].p = k.call[t].p
    /\ k1.call[t].at # "lock" => k.klocked[t]

OwnPool(k1, k) ==
    \A p \in MPF : HasWaiter(k, p) =>
        k1.mpf[p] = "exists" /\ k1.frbcnt[p] = 0 /\ k1.mpfatr[p] = k.mpfatr[p]

PutsBlock(k) ==
    \A u \in Task : k.call[u].at = "put" =>
        k.call[u].op = "rel" /\ k.mpf[k.call[u].p] = "exists" /\ ~HasWaiter(k, k.call[u].p)

LEMMA OwnStep ==
    ASSUME NEW k, PoolState(k), NEW t \in Task, NEW k1, Only(k1, k, OwnField), Pools(k1),
           k1.locked = k.locked, Runnable(k, PoolPlaces(k), t),
           OwnCall(k1, k, t), OwnPool(k1, k), PutsBlock(k1), BlockInv(k1), CallInv(k1)
    PROVE  PoolState(k1) /\ \A u \in Task : Runnable(k1, PoolPlaces(k1), u)
                                             <=> Runnable(k, PoolPlaces(k), u)
<1>1. k.state[t] = "READY" /\ ~k.klockwait[t]
  BY PlaceCases
<1>2. \A u \in Task : k.klockwait[u] => k1.call[u].p = k.call[u].p
  BY <1>1 DEF OwnCall
<1>3. /\ PoolPlaces(k1) = PoolPlaces(k) /\ Steady(k1, PoolPlaces(k1))
      /\ k1.state = k.state /\ k1.klocked = k.klocked /\ k1.klockwait = k.klockwait
      /\ k1.wspec = k.wspec /\ k1.wtmeb = k.wtmeb /\ k1.que = k.que
      /\ k1.priority = k.priority /\ k1.wid = k.wid
  BY <1>2, OwnPlaces
<1>4. LockInv(k) /\ WaitInv(k) /\ Sorted(k)
  BY DEF PoolState
<1>5. LockInv(k1)
  <2>1. k1.call[t] # Idle
    BY IdleCall DEF OwnCall
  <2>2. ASSUME NEW u \in Task, u # t
        PROVE  k1.call[u] = k.call[u]
    BY <2>2 DEF OwnCall
  <2>3. ASSUME NEW u \in Task
        PROVE  /\ k1.call[u] = Idle \/ (k1.call[u].op \in Op /\ k1.call[u].p \in MPF)
               /\ k1.klocked[u] => k1.call[u] # Idle /\ k1.locked[k1.call[u].p]
                                   /\ k1.call[u].p = k.call[u].p
               /\ k1.call[u].at # "lock" => k1.klocked[u]
    <3>1. CASE u = t
      BY <3>1, <2>1, <1>3, <1>4 DEF OwnCall, LockInv
    <3>2. CASE u # t
      BY <3>2, <2>2, <1>3, <1>4 DEF LockInv
    <3> QED BY <3>1, <3>2
  <2>4. ASSUME NEW u \in Task
        PROVE  /\ k1.klockwait[u] => /\ k1.state[u] = "READY" /\ ~k1.klocked[u]
                                     /\ k1.call[u] # Idle /\ k1.locked[k1.call[u].p]
               /\ k1.state[u] \notin {"READY", "SUSPEND"} => k1.call[u] = Idle
    <3>1. CASE u = t
      BY <3>1, <1>1, <1>3
    <3>2. CASE u # t
      BY <3>2, <2>2, <1>3, <1>4 DEF LockInv
    <3> QED BY <3>1, <3>2
  <2>5. ASSUME NEW u \in Task, NEW v \in Task,
               k1.klocked[u] /\ k1.klocked[v] /\ k1.call[u].p = k1.call[v].p
        PROVE  u = v
    BY <2>3, <2>5, <1>3, <1>4 DEF LockInv
  <2>6. ASSUME NEW p \in MPF, k1.locked[p]
        PROVE  \E u \in Task : k1.klocked[u] /\ k1.call[u].p = p
    BY <2>3, <2>6, <1>3, <1>4 DEF LockInv
  <2> QED BY <2>3, <2>4, <2>5, <2>6 DEF LockInv
<1>6. WaitInv(k1)
  <2>1. ASSUME NEW u \in Task, NEW p
        PROVE  WaitsFor(k1, u, p) <=> WaitsFor(k, u, p)
    BY <1>3 DEF WaitsFor
  <2>2. ASSUME NEW u \in Task, k1.state[u] \in WaitBit
        PROVE  /\ k1.wid[u] \in MPF
               /\ k1.mpf[k1.wid[u]] = "exists" /\ k1.frbcnt[k1.wid[u]] = 0
               /\ k1.wspec[u] = IF k1.mpfatr[k1.wid[u]] = "TPRI" THEN "mpf_tpri"
                                ELSE "mpf_tfifo"
    <3>1. k.state[u] \in WaitBit /\ k1.wid[u] = k.wid[u] /\ k1.wspec[u] = k.wspec[u]
      BY <2>2, <1>3
    <3>2. k.wid[u] \in MPF /\ HasWaiter(k, k.wid[u])
      BY <3>1, <1>4 DEF WaitInv, HasWaiter, WaitsFor
    <3>3. k1.mpf[k.wid[u]] = "exists" /\ k1.frbcnt[k.wid[u]] = 0
          /\ k1.mpfatr[k.wid[u]] = k.mpfatr[k.wid[u]]
      BY <3>2 DEF OwnPool
    <3> QED BY <3>1, <3>2, <3>3, <1>4 DEF WaitInv
  <2>3. ASSUME NEW u \in Task, k1.call[u].at = "put"
        PROVE  /\ k1.call[u].op = "rel" /\ k1.mpf[k1.call[u].p] = "exists"
               /\ \A v \in Task : ~WaitsFor(k1, v, k1.call[u].p)
    BY <2>3 DEF PutsBlock, HasWaiter
  <2>4. \A u \in Task : k1.wtmeb[u] => k1.state[u] \in WaitBit
    BY <1>3, <1>4 DEF WaitInv
  <2> QED BY <2>2, <2>3, <2>4 DEF WaitInv
<1>7. Sorted(k1)
  <2> SUFFICES ASSUME NEW p \in MPF, k1.mpfatr[p] = "TPRI"
               PROVE  Ordered(k1.que[p], k1.priority)
    BY DEF Sorted
  <2>1. CASE HasWaiter(k, p)
    BY <2>1, <1>3, <1>4 DEF OwnPool, Sorted
  <2>2. CASE ~HasWaiter(k, p)
    <3>1. k1.que[p] = <<>>
      BY <2>2, <1>3, WaiterQueued
    <3> QED BY <3>1 DEF Ordered
  <2> QED BY <2>1, <2>2
<1>8. PoolState(k1)
  BY <1>3, <1>5, <1>6, <1>7 DEF PoolState
<1> QED BY <1>3, <1>8 DEF Runnable

\* The blocks are as before, wherever they are.
LEMMA SameBlocks ==
    ASSUME NEW k, BlockInv(k), NEW k1,
           k1.frbcnt = k.frbcnt, k1.unused = k.unused, k1.freelist = k.freelist,
           k1.given = k.given,
           \A p \in MPF : k1.mpf[p] = "exists" <=> k.mpf[p] = "exists",
           \A u \in Task, p \in MPF, b \in Block : Back(k1, u, p, b) <=> Back(k, u, p, b)
    PROVE  BlockInv(k1)
<1> SUFFICES ASSUME NEW p \in MPF
             PROVE  IF k1.mpf[p] = "exists" THEN Partition(k1, p) ELSE HasNone(k1, p)
  BY DEF BlockInv
<1>1. ASSUME k1.mpf[p] = "exists" PROVE Partition(k1, p)
  <2>1. Partition(k, p)
    BY <1>1 DEF BlockInv
  <2> QED BY <2>1 DEF Partition
<1>2. ASSUME k1.mpf[p] # "exists" PROVE HasNone(k1, p)
  BY <1>2 DEF BlockInv, HasNone
<1> QED BY <1>1, <1>2

\* Call c is not Creates of a task only because it is not in a state.
Creating(c) == c.op = "cre" /\ c.at \in {"lock", "body"}

LEMMA CallChange ==
    ASSUME NEW k, CallInv(k), NEW t \in Task, NEW c, NEW k1,
           k.call \in [Task -> CallRecord], k1.call = [k.call EXCEPT ![t] = c],
           c.b # NoBlock => c.op = "rel" /\ k1.mpf[c.p] = "exists",
           c.op = "rel" => (c.b # NoBlock <=> c.at # "unlock"),
           Creating(c) => k1.mpf[c.p] = "taken",
           \A u \in Task \ {t} :
              /\ k.call[u].b # NoBlock => k1.mpf[k.call[u].p] = "exists"
              /\ Creates(k, u) => k1.mpf[k.call[u].p] = "taken"
              /\ k.call[u].p = c.p => /\ c.op = "rel" => k.call[u].op # "del"
                                      /\ c.op = "del" => k.call[u].op # "rel"
                                      /\ ~(Creates(k, u) /\ Creating(c))
    PROVE  CallInv(k1)
<1>1. k1.call[t] = c /\ \A u \in Task \ {t} : k1.call[u] = k.call[u]
  OBVIOUS
<1>2. Creates(k1, t) <=> Creating(c)
  BY <1>1 DEF Creates, Creating
<1>3. \A u \in Task \ {t} : Creates(k1, u) <=> Creates(k, u)
  BY <1>1 DEF Creates
<1>4. ASSUME NEW u \in Task
      PROVE  /\ k1.call[u].b # NoBlock => k1.call[u].op = "rel" /\ k1.mpf[k1.call[u].p] = "exists"
             /\ k1.call[u].op = "rel" => (k1.call[u].b # NoBlock <=> k1.call[u].at # "unlock")
             /\ Creates(k1, u) => k1.mpf[k1.call[u].p] = "taken"
  <2>1. CASE u = t
    BY <2>1, <1>1, <1>2
  <2>2. CASE u # t
    BY <2>2, <1>1, <1>3 DEF CallInv
  <2> QED BY <2>1, <2>2
<1>5. ASSUME NEW u \in Task, NEW v \in Task, k1.call[u].p = k1.call[v].p
      PROVE  /\ k1.call[u].op = "rel" => k1.call[v].op # "del"
             /\ Creates(k1, u) /\ Creates(k1, v) => u = v
  <2>1. CASE u = t /\ v = t
    BY <2>1
  <2>2. CASE u = t /\ v # t
    BY <2>2, <1>1, <1>2, <1>3, <1>5
  <2>3. CASE u # t /\ v = t
    BY <2>3, <1>1, <1>2, <1>3, <1>5
  <2>4. CASE u # t /\ v # t
    BY <2>4, <1>1, <1>3, <1>5 DEF CallInv
  <2> QED BY <2>1, <2>2, <2>3, <2>4
<1> QED BY <1>4, <1>5 DEF CallInv

\* What the task in execution knows of its call.
LEMMA OwnFacts ==
    ASSUME NEW k, PoolState(k), NEW t \in Task
    PROVE  /\ k.call[t] \in CallRecord /\ k.call \in [Task -> CallRecord]
           /\ k.call[t] # Idle => k.call[t].op \in Op /\ k.call[t].p \in MPF
           /\ k.call[t] = Idle => ~k.klocked[t] /\ ~k.klockwait[t]
           /\ k.call[t].at # "lock" => k.klocked[t] /\ k.call[t] # Idle
           /\ \A u \in Task : k.klocked[u] /\ k.klocked[t] /\ k.call[u].p = k.call[t].p => u = t
           /\ PutsBlock(k)
           /\ \A p \in MPF : HasWaiter(k, p) => k.mpf[p] = "exists" /\ k.frbcnt[p] = 0
           /\ Pools(k) /\ Kernel(k) /\ BlockInv(k) /\ CallInv(k)
<1>1. /\ Pools(k) /\ Kernel(k) /\ BlockInv(k) /\ CallInv(k) /\ LockInv(k) /\ WaitInv(k)
  BY DEF PoolState, Steady, Ready
<1>2. k.call \in [Task -> CallRecord]
  BY <1>1 DEF Pools
<1>3. k.call[t] # Idle => k.call[t].op \in Op /\ k.call[t].p \in MPF
  BY <1>1 DEF LockInv
<1>4. k.call[t] = Idle => ~k.klocked[t] /\ ~k.klockwait[t]
  BY <1>1 DEF LockInv
<1>5. k.call[t].at # "lock" => k.klocked[t] /\ k.call[t] # Idle
  BY <1>1, IdleCall DEF LockInv
<1>6. \A u \in Task : k.klocked[u] /\ k.klocked[t] /\ k.call[u].p = k.call[t].p => u = t
  BY <1>1 DEF LockInv
<1>7. PutsBlock(k)
  BY <1>1 DEF WaitInv, PutsBlock, HasWaiter
<1>8. \A p \in MPF : HasWaiter(k, p) => k.mpf[p] = "exists" /\ k.frbcnt[p] = 0
  BY <1>1 DEF WaitInv, HasWaiter, WaitsFor
<1> QED BY <1>1, <1>2, <1>3, <1>4, <1>5, <1>6, <1>7, <1>8

\* The conclusion of the lemmas on single steps of calls.
OwnStepped(k1, k) ==
    /\ PoolState(k1)
    /\ \A u \in Task : Runnable(k1, PoolPlaces(k1), u) <=> Runnable(k, PoolPlaces(k), u)

\* A step that changes the call of t to c and nothing of its pool.
LEMMA CallStep ==
    ASSUME NEW k, PoolState(k), NEW t \in Task, Runnable(k, PoolPlaces(k), t),
           NEW c \in CallRecord, c.op \in Op, c.p \in MPF, c.b = k.call[t].b,
           c.b # NoBlock => c.op = "rel" /\ c.p = k.call[t].p,
           c.op = "rel" => (c.b # NoBlock <=> c.at # "unlock"),
           k.klocked[t] => c.p = k.call[t].p,
           c.at # "lock" => k.klocked[t],
           c.at = "put" => c.op = "rel" /\ k.mpf[c.p] = "exists" /\ ~HasWaiter(k, c.p),
           Creating(c) => Creates(k, t) /\ c.p = k.call[t].p,
           k.call[t].op # c.op \/ k.call[t].p # c.p =>
              \A u \in Task \ {t} : k.call[u].p = c.p =>
                  /\ c.op = "rel" => k.call[u].op # "del"
                  /\ c.op = "del" => k.call[u].op # "rel",
           NEW k1, Only(k1, k, {"call"}), k1.call = [k.call EXCEPT ![t] = c]
    PROVE  OwnStepped(k1, k)
<1>1. /\ k.call[t] \in CallRecord /\ k.call \in [Task -> CallRecord]
      /\ Pools(k) /\ Kernel(k) /\ BlockInv(k) /\ CallInv(k) /\ PutsBlock(k)
      /\ \A p \in MPF : HasWaiter(k, p) => k.mpf[p] = "exists" /\ k.frbcnt[p] = 0
  BY OwnFacts
<1>2. KernelField \cup PoolField \subseteq DOMAIN k
  BY <1>1 DEF Pools, Kernel
<1>3. /\ k1.call = [k.call EXCEPT ![t] = c]
      /\ k1.mpf = k.mpf /\ k1.mpfatr = k.mpfatr /\ k1.locked = k.locked
      /\ k1.frbcnt = k.frbcnt /\ k1.unused = k.unused /\ k1.freelist = k.freelist
      /\ k1.given = k.given /\ k1.wid = k.wid /\ DOMAIN k1 = DOMAIN k
      /\ Only(k1, k, OwnField)
  BY <1>2 DEF Only, OwnField, PoolField
<1>4. k1.call[t] = c /\ \A u \in Task \ {t} : k1.call[u] = k.call[u]
  BY <1>1, <1>3
<1>5. Pools(k1)
  BY <1>1, <1>3 DEF Pools
<1>6. OwnCall(k1, k, t)
  BY <1>4 DEF OwnCall
<1>7. OwnPool(k1, k)
  BY <1>1, <1>3 DEF OwnPool
<1>8. PutsBlock(k1)
  <2>1. ASSUME NEW u \in Task, k1.call[u].at = "put"
        PROVE  k1.call[u].op = "rel" /\ k1.mpf[k1.call[u].p] = "exists"
               /\ ~HasWaiter(k, k1.call[u].p)
    <3>1. CASE u = t
      BY <3>1, <2>1, <1>3, <1>4
    <3>2. CASE u # t
      BY <3>2, <2>1, <1>1, <1>3, <1>4 DEF PutsBlock
    <3> QED BY <3>1, <3>2
  <2>2. k1.state = k.state /\ k1.wid = k.wid
    BY <1>2, <1>3 DEF Only, OwnField, KernelField
  <2>3. \A p : HasWaiter(k1, p) <=> HasWaiter(k, p)
    BY <2>2 DEF HasWaiter, WaitsFor
  <2> QED BY <2>1, <2>3 DEF PutsBlock
<1>9. BlockInv(k1)
  <2>1. ASSUME NEW u \in Task, NEW p \in MPF, NEW b \in Block
        PROVE  Back(k1, u, p, b) <=> Back(k, u, p, b)
    <3>1. CASE u # t
      BY <3>1, <1>4 DEF Back
    <3>2. CASE u = t
      BY <3>2, <1>4, PoolHeads DEF Back
    <3> QED BY <3>1, <3>2
  <2> QED BY <1>1, <1>3, <2>1, SameBlocks
<1>10. CallInv(k1)
  <2>1. c.b # NoBlock => c.op = "rel" /\ k1.mpf[c.p] = "exists"
    BY <1>1, <1>3 DEF CallInv
  <2>2. Creating(c) => k1.mpf[c.p] = "taken"
    BY <1>1, <1>3 DEF CallInv
  <2>3. ASSUME NEW u \in Task \ {t}
        PROVE  /\ k.call[u].b # NoBlock => k1.mpf[k.call[u].p] = "exists"
               /\ Creates(k, u) => k1.mpf[k.call[u].p] = "taken"
    BY <1>1, <1>3 DEF CallInv
  <2>4. ASSUME NEW u \in Task \ {t}, k.call[u].p = c.p
        PROVE  /\ c.op = "rel" => k.call[u].op # "del"
               /\ c.op = "del" => k.call[u].op # "rel"
    <3>1. CASE k.call[t].op # c.op \/ k.call[t].p # c.p
      BY <3>1, <2>4
    <3>2. CASE k.call[t].op = c.op /\ k.call[t].p = c.p
      BY <3>2, <2>4, <1>1 DEF CallInv
    <3> QED BY <3>1, <3>2
  <2>5. ASSUME NEW u \in Task \ {t}, k.call[u].p = c.p, Creates(k, u), Creating(c)
        PROVE  FALSE
    BY <2>5, <1>1 DEF CallInv
  <2> QED BY <1>1, <1>3, <2>1, <2>2, <2>3, <2>4, <2>5, CallChange
<1> QED BY <1>3, <1>5, <1>6, <1>7, <1>8, <1>9, <1>10, OwnStep DEF OwnStepped

(***************************************************************************)
(* Steps that change pool p: its blocks, or whether it exists.             *)
(***************************************************************************)
\* k1 differs from k in pool p alone.
OnePool(k1, k, p) ==
    \A q \in MPF \ {p} :
        /\ k1.mpf[q] = k.mpf[q] /\ k1.mpfatr[q] = k.mpfatr[q] /\ k1.frbcnt[q] = k.frbcnt[q]
        /\ k1.unused[q] = k.unused[q] /\ k1.freelist[q] = k.freelist[q]
        /\ k1.given[q] = k.given[q]

LEMMA OnePoolBlocks ==
    ASSUME NEW k, BlockInv(k), NEW k1, NEW p \in MPF, OnePool(k1, k, p),
           \A u \in Task, q \in MPF \ {p}, b \in Block : Back(k1, u, q, b) <=> Back(k, u, q, b),
           IF k1.mpf[p] = "exists" THEN Partition(k1, p) ELSE HasNone(k1, p)
    PROVE  BlockInv(k1)
<1> SUFFICES ASSUME NEW q \in MPF \ {p}
             PROVE  IF k1.mpf[q] = "exists" THEN Partition(k1, q) ELSE HasNone(k1, q)
  BY DEF BlockInv
<1>1. ASSUME k1.mpf[q] = "exists" PROVE Partition(k1, q)
  <2>1. Partition(k, q)
    BY <1>1 DEF BlockInv, OnePool
  <2>2. /\ k1.frbcnt[q] = k.frbcnt[q]
        /\ k1.unused[q] = k.unused[q] /\ k1.freelist[q] = k.freelist[q]
        /\ k1.given[q] = k.given[q]
    BY DEF OnePool
  <2> QED BY <2>1, <2>2 DEF Partition
<1>2. ASSUME k1.mpf[q] # "exists" PROVE HasNone(k1, q)
  BY <1>2 DEF BlockInv, OnePool, HasNone
<1> QED BY <1>1, <1>2

\* Task t makes a step of its call on pool p, which it has locked; afterwards
\* its call is c.
PoolStep(k1, k, t, p, c) ==
    /\ Only(k1, k, OwnField) /\ Pools(k1) /\ k1.locked = k.locked
    /\ k1.call = [k.call EXCEPT ![t] = c]
    /\ c \in CallRecord /\ c.op \in Op /\ c.p = p /\ c.op = k.call[t].op
    /\ k.klocked[t] /\ k.call[t].p = p
    /\ OnePool(k1, k, p)

\* The step keeps what others rely on.
StepAllowed(k1, k, t, p, c) ==
    /\ c.at \notin {"lock", "put"} \/ (c.at = k.call[t].at /\ ~HasWaiter(k, p))
    /\ c.at = "put" => c.op = "rel" /\ k1.mpf[p] = "exists"
    /\ HasWaiter(k, p) => k1.mpf[p] = "exists" /\ k1.frbcnt[p] = 0
                          /\ k1.mpfatr[p] = k.mpfatr[p]
    /\ c.b # NoBlock => c.op = "rel" /\ k1.mpf[p] = "exists"
    /\ c.op = "rel" => (c.b # NoBlock <=> c.at # "unlock")
    /\ ~Creating(c) \/ (Creates(k, t) /\ k1.mpf[p] = k.mpf[p])
    /\ k1.mpf[p] = k.mpf[p] \/ \A u \in Task \ {t} : k.call[u].p = p =>
                                  k.call[u].b = NoBlock /\ ~Creates(k, u)
    /\ IF k1.mpf[p] = "exists" THEN Partition(k1, p) ELSE HasNone(k1, p)

LEMMA PoolStepState ==
    ASSUME NEW k, PoolState(k), NEW t \in Task, Runnable(k, PoolPlaces(k), t),
           NEW p \in MPF, NEW c, NEW k1, PoolStep(k1, k, t, p, c),
           StepAllowed(k1, k, t, p, c)
    PROVE  OwnStepped(k1, k)
<1> USE DEF StepAllowed
<1>1. /\ k.call[t] \in CallRecord /\ k.call \in [Task -> CallRecord]
      /\ Pools(k) /\ Kernel(k) /\ BlockInv(k) /\ CallInv(k) /\ PutsBlock(k)
      /\ \A q \in MPF : HasWaiter(k, q) => k.mpf[q] = "exists" /\ k.frbcnt[q] = 0
      /\ \A u \in Task : k.klocked[u] /\ k.klocked[t] /\ k.call[u].p = k.call[t].p => u = t
  BY OwnFacts
<1>2. /\ Only(k1, k, OwnField) /\ Pools(k1) /\ k1.locked = k.locked
      /\ k1.call = [k.call EXCEPT ![t] = c]
      /\ c \in CallRecord /\ c.op \in Op /\ c.p = p /\ c.op = k.call[t].op
      /\ k.klocked[t] /\ k.call[t].p = p
      /\ OnePool(k1, k, p)
  BY DEF PoolStep
<1>3. k1.call[t] = c /\ \A u \in Task \ {t} : k1.call[u] = k.call[u]
  BY <1>1, <1>2
<1>4. OwnCall(k1, k, t)
  BY <1>2, <1>3 DEF OwnCall
<1>5. OwnPool(k1, k)
  <2> SUFFICES ASSUME NEW q \in MPF, HasWaiter(k, q)
               PROVE  k1.mpf[q] = "exists" /\ k1.frbcnt[q] = 0 /\ k1.mpfatr[q] = k.mpfatr[q]
    BY DEF OwnPool
  <2>1. CASE q = p
    BY <2>1
  <2>2. CASE q # p
    BY <2>2, <1>1, <1>2 DEF OnePool
  <2> QED BY <2>1, <2>2
<1>6. PutsBlock(k1)
  <2>1. k1.state = k.state /\ k1.wid = k.wid
    BY <1>1, <1>2 DEF Only, OwnField, KernelField, PoolField, Kernel, Pools
  <2>2. \A q : HasWaiter(k1, q) <=> HasWaiter(k, q)
    BY <2>1 DEF HasWaiter, WaitsFor
  <2> SUFFICES ASSUME NEW u \in Task, k1.call[u].at = "put"
               PROVE  k1.call[u].op = "rel" /\ k1.mpf[k1.call[u].p] = "exists"
                      /\ ~HasWaiter(k, k1.call[u].p)
    BY <2>2 DEF PutsBlock
  <2>3. CASE u = t
    BY <2>3, <1>2, <1>3
  <2>4. CASE u # t
    <3>1. /\ k.call[u].op = "rel" /\ k.mpf[k.call[u].p] = "exists"
          /\ ~HasWaiter(k, k.call[u].p) /\ k1.call[u] = k.call[u] /\ k.klocked[u]
      BY <2>4, <1>1, <1>3, OwnFacts DEF PutsBlock
    <3>2. k.call[u].p \in MPF \ {p}
      BY <2>4, <3>1, <1>1, <1>2, OwnFacts
    <3> QED BY <3>1, <3>2, <1>2 DEF OnePool
  <2> QED BY <2>3, <2>4
<1>7. BlockInv(k1)
  <2>1. ASSUME NEW u \in Task, NEW q \in MPF \ {p}, NEW b \in Block
        PROVE  Back(k1, u, q, b) <=> Back(k, u, q, b)
    <3>1. CASE u = t
      BY <3>1, <1>2, <1>3 DEF Back
    <3>2. CASE u # t
      BY <3>2, <1>3 DEF Back
    <3> QED BY <3>1, <3>2
  <2> QED BY <1>1, <1>2, <2>1, OnePoolBlocks
<1>8. CallInv(k1)
  <2>1. ASSUME NEW u \in Task \ {t}
        PROVE  /\ k.call[u].b # NoBlock => k1.mpf[k.call[u].p] = "exists"
               /\ Creates(k, u) => k1.mpf[k.call[u].p] = "taken"
               /\ k.call[u].p = c.p => /\ c.op = "rel" => k.call[u].op # "del"
                                       /\ c.op = "del" => k.call[u].op # "rel"
                                       /\ ~(Creates(k, u) /\ Creating(c))
    <3>1. k.call[u].p = p \/ k.call[u].p \notin MPF \/ k.call[u].p \in MPF \ {p}
      OBVIOUS
    <3>2. k.call[u].b # NoBlock \/ Creates(k, u) => k.call[u].p \in MPF
      <4>1. k.call[u] # Idle => k.call[u].p \in MPF
        BY OwnFacts
      <4> QED BY <4>1, IdleCall DEF Creates
    <3>3. /\ k.call[u].b # NoBlock => k.mpf[k.call[u].p] = "exists"
          /\ Creates(k, u) => k.mpf[k.call[u].p] = "taken"
      BY <1>1 DEF CallInv
    <3>4. CASE k.call[u].p # p
      <4>1. k.call[u].p \in MPF \ {p} => k1.mpf[k.call[u].p] = k.mpf[k.call[u].p]
        BY <1>2 DEF OnePool
      <4> QED BY <3>1, <3>2, <3>3, <3>4, <4>1, <1>2
    <3>5. CASE k.call[u].p = p
      <4>1. /\ c.op = "rel" => k.call[u].op # "del"
            /\ c.op = "del" => k.call[u].op # "rel"
        BY <3>5, <1>1, <1>2 DEF CallInv
      <4>2. ~(Creates(k, u) /\ Creating(c))
        <5>1. ~(Creates(k, u) /\ Creates(k, t))
          BY <3>5, <1>1, <1>2 DEF CallInv
        <5> QED BY <5>1
      <4>3. CASE k1.mpf[p] = k.mpf[p]
        BY <3>3, <3>5, <4>1, <4>2, <4>3
      <4>4. CASE k1.mpf[p] # k.mpf[p]
        BY <3>5, <4>1, <4>2, <4>4
      <4> QED BY <4>3, <4>4
    <3> QED BY <3>4, <3>5
  <2>2. Creating(c) => k1.mpf[c.p] = "taken"
    <3>1. Creating(c) => Creates(k, t) /\ k1.mpf[p] = k.mpf[p]
      OBVIOUS
    <3>2. Creates(k, t) => k.mpf[p] = "taken"
      BY <1>1, <1>2 DEF CallInv
    <3> QED BY <3>1, <3>2, <1>2
  <2>3. c.b # NoBlock => c.op = "rel" /\ k1.mpf[c.p] = "exists"
    BY <1>2
  <2> QED BY <1>1, <1>2, <2>1, <2>2, <2>3, CallChange
<1> QED BY <1>2, <1>4, <1>5, <1>6, <1>7, <1>8, OwnStep DEF OwnStepped

\* What holds of a call while its task has pool p locked.
LocksPool(k, t, p) ==
    /\ p \in MPF /\ k.klocked[t] /\ k.call[t] \in CallRecord /\ k.call[t].op \in Op
    /\ k.call[t].p = p
    /\ k.call \in [Task -> CallRecord] /\ k.call[t].b \in Block \cup {NoBlock}
    /\ k.call[t].b # NoBlock => k.call[t].op = "rel" /\ k.mpf[p] = "exists"
    /\ k.call[t].op = "rel" => (k.call[t].b # NoBlock <=> k.call[t].at # "unlock")
    /\ k.call[t].op = "cre" /\ k.call[t].at = "body" => k.mpf[p] = "taken"
    /\ \A u \in Task \ {t} : k.call[u].p = p =>
          /\ k.call[u].b # NoBlock => k.mpf[p] = "exists" /\ k.call[u].op = "rel"
          /\ Creates(k, u) => k.mpf[p] = "taken"
          /\ k.call[t].op = "cre" /\ k.call[t].at = "body" => ~Creates(k, u)
          /\ k.call[t].op = "del" => k.call[u].op # "rel"
    /\ k.mpf[p] = "exists" => Partition(k, p)
    /\ k.mpf[p] # "exists" => HasNone(k, p)

LEMMA OwnPoolFacts ==
    ASSUME NEW k, PoolState(k), NEW t \in Task, k.call[t].at # "lock", NEW p, p = k.call[t].p
    PROVE  LocksPool(k, t, p)
<1>1. /\ k.call[t] \in CallRecord /\ k.call \in [Task -> CallRecord]
      /\ k.call[t].op \in Op /\ k.call[t].p \in MPF /\ k.klocked[t]
      /\ BlockInv(k) /\ CallInv(k)
  BY OwnFacts
<1>2. k.call[t].b \in Block \cup {NoBlock}
  BY <1>1 DEF CallRecord
<1>3. /\ k.call[t].b # NoBlock => k.call[t].op = "rel" /\ k.mpf[p] = "exists"
      /\ k.call[t].op = "rel" => (k.call[t].b # NoBlock <=> k.call[t].at # "unlock")
      /\ k.call[t].op = "cre" /\ k.call[t].at = "body" => Creates(k, t)
      /\ Creates(k, t) => k.mpf[p] = "taken"
  BY <1>1 DEF CallInv, Creates
<1>4. ASSUME NEW u \in Task \ {t}, k.call[u].p = p
      PROVE  /\ k.call[u].b # NoBlock => k.mpf[p] = "exists" /\ k.call[u].op = "rel"
             /\ Creates(k, u) => k.mpf[p] = "taken"
             /\ k.call[t].op = "cre" /\ k.call[t].at = "body" => ~Creates(k, u)
             /\ k.call[t].op = "del" => k.call[u].op # "rel"
  BY <1>1, <1>3, <1>4 DEF CallInv
<1>5. /\ k.mpf[p] = "exists" => Partition(k, p)
      /\ k.mpf[p] # "exists" => HasNone(k, p)
  BY <1>1 DEF BlockInv
<1> QED BY <1>1, <1>2, <1>3, <1>4, <1>5 DEF LocksPool

\* Call c0 goes on as c.
GoesOn(c, c0, at) ==
    c \in CallRecord /\ c.op = c0.op /\ c.p = c0.p /\ c.b = c0.b /\ c.at = at

\* Task t has made pool p, or the pool is no more.
PoolMade(k1, k, t, p, atr, c) ==
    /\ Only(k1, k, OwnField) /\ k1.call = [k.call EXCEPT ![t] = c]
    /\ k1.mpf = [k.mpf EXCEPT ![p] = "exists"]
    /\ k1.mpfatr = [k.mpfatr EXCEPT ![p] = atr]
    /\ k1.frbcnt = [k.frbcnt EXCEPT ![p] = MpfCnt]
    /\ k1.unused = [k.unused EXCEPT ![p] = 1]
    /\ k1.freelist = [k.freelist EXCEPT ![p] = <<>>]
    /\ k1.given = k.given /\ k1.locked = k.locked

PoolUnmade(k1, k, t, p, c) ==
    /\ Only(k1, k, OwnField) /\ k1.call = [k.call EXCEPT ![t] = c]
    /\ k1.mpf = [k.mpf EXCEPT ![p] = "free"]
    /\ k1.mpfatr = [k.mpfatr EXCEPT ![p] = "TFIFO"]
    /\ k1.frbcnt = [k.frbcnt EXCEPT ![p] = 0]
    /\ k1.unused = [k.unused EXCEPT ![p] = 1]
    /\ k1.freelist = [k.freelist EXCEPT ![p] = <<>>]
    /\ k1.given = [k.given EXCEPT ![p] = {}] /\ k1.locked = k.locked

\* The pool is made: no block is used yet.
LEMMA CreBodyState ==
    ASSUME NEW k, PoolState(k), NEW t \in Task, Runnable(k, PoolPlaces(k), t),
           k.call[t].op = "cre", k.call[t].at = "body", NEW p, p = k.call[t].p,
           NEW atr \in MpfAtr, NEW c, GoesOn(c, k.call[t], "unlock"),
           NEW k1, PoolMade(k1, k, t, p, atr, c)
    PROVE  OwnStepped(k1, k)
<1>0. /\ Only(k1, k, OwnField)
      /\ k1.call = [k.call EXCEPT ![t] = c]
      /\ k1.mpf = [k.mpf EXCEPT ![p] = "exists"]
      /\ k1.mpfatr = [k.mpfatr EXCEPT ![p] = atr]
      /\ k1.frbcnt = [k.frbcnt EXCEPT ![p] = MpfCnt]
      /\ k1.unused = [k.unused EXCEPT ![p] = 1]
      /\ k1.freelist = [k.freelist EXCEPT ![p] = <<>>]
      /\ k1.given = k.given /\ k1.locked = k.locked
  BY DEF PoolMade
<1>1. /\ p \in MPF /\ k.klocked[t] /\ k.call[t] \in CallRecord /\ k.call[t].op \in Op
      /\ k.call \in [Task -> CallRecord]
      /\ k.call[t].b # NoBlock => k.call[t].op = "rel" /\ k.mpf[p] = "exists"
      /\ k.mpf[p] = "taken"
      /\ \A u \in Task \ {t} : k.call[u].p = p => k.call[u].b = NoBlock /\ ~Creates(k, u)
      /\ k.given[p] = {}
  <2>1. LocksPool(k, t, p)
    BY OwnPoolFacts
  <2> QED BY ONLY <2>1, k.call[t].op = "cre", k.call[t].at = "body" DEF LocksPool, HasNone
<1>2. Pools(k) /\ (HasWaiter(k, p) => k.mpf[p] = "exists")
  BY <1>0, <1>1, OwnFacts
<1>3. c \in CallRecord /\ c.op = "cre" /\ c.p = p /\ c.b = NoBlock /\ c.at = "unlock"
  BY <1>1 DEF GoesOn
<1>4. /\ k1.mpf[p] = "exists" /\ k1.frbcnt[p] = MpfCnt /\ k1.unused[p] = 1
      /\ k1.freelist[p] = <<>> /\ k1.given[p] = {}
  BY <1>0, <1>1, <1>2 DEF Pools
<1>5. Pools(k1)
  <2>1. /\ k1.freelist \in [MPF -> Seq(Block)]
        /\ k1.frbcnt \in [MPF -> Nat] /\ k1.unused \in [MPF -> 1..MpfCnt+1]
    BY <1>0, <1>1, <1>2, PoolHeads DEF Pools
  <2>2. /\ k1.mpf \in [MPF -> {"free", "taken", "exists"}]
        /\ k1.mpfatr \in [MPF -> MpfAtr] /\ k1.call \in [Task -> CallRecord]
        /\ k1.given \in [MPF -> SUBSET Block] /\ k1.locked \in [MPF -> BOOLEAN]
    BY <1>0, <1>1, <1>2, <1>3 DEF Pools
  <2>3. k1.wid = k.wid /\ PoolField \subseteq DOMAIN k1
    BY <1>0, <1>2 DEF Pools, Only, OwnField, PoolField
  <2> QED BY <1>0, <1>2, <2>1, <2>2, <2>3 DEF Pools
<1>6. OnePool(k1, k, p)
  BY <1>0, <1>1, <1>2 DEF OnePool, Pools
<1>7. PoolStep(k1, k, t, p, c)
  BY <1>0, <1>1, <1>3, <1>5, <1>6 DEF PoolStep
<1>8. Partition(k1, p)
  <2>1. ASSUME NEW u \in Task, NEW b \in Block, Back(k1, u, p, b) PROVE FALSE
    BY <2>1, <1>0, <1>1, <1>3, PoolHeads DEF Back
  <2>2. IsInjective(<<>>) /\ Len(<<>>) = 0 /\ \A b : ~Contains(<<>>, b)
    BY DEF IsInjective, Contains
  <2>3. \A b \in Block : b >= 1
    BY DEF Block
  <2>4. MpfCnt = 0 + MpfCnt + 1 - 1
    BY PoolHeads
  <2> QED BY <1>0, <1>4, <2>1, <2>2, <2>3, <2>4 DEF Partition
<1>9. ~Creating(c)
  BY <1>0, <1>3 DEF Creating
<1>10. ~HasWaiter(k, p)
  BY <1>0, <1>1, <1>2
<1>11. StepAllowed(k1, k, t, p, c)
  BY ONLY <1>1, <1>3, <1>4, <1>8, <1>9, <1>10 DEF StepAllowed
<1> QED BY <1>1, <1>7, <1>11, PoolStepState

\* The pool is deleted when no task waits for a block of it any more.
LEMMA DelPoolState ==
    ASSUME NEW k, PoolState(k), NEW t \in Task, Runnable(k, PoolPlaces(k), t),
           k.call[t].op = "del", k.call[t].at = "body", NEW p, p = k.call[t].p,
           ~HasWaiter(k, p), k.mpf[p] = "exists",
           NEW c, GoesOn(c, k.call[t], "unlock"),
           NEW k1, PoolUnmade(k1, k, t, p, c)
    PROVE  OwnStepped(k1, k)
<1>0. /\ Only(k1, k, OwnField)
      /\ k1.call = [k.call EXCEPT ![t] = c]
      /\ k1.mpf = [k.mpf EXCEPT ![p] = "free"]
      /\ k1.mpfatr = [k.mpfatr EXCEPT ![p] = "TFIFO"]
      /\ k1.frbcnt = [k.frbcnt EXCEPT ![p] = 0]
      /\ k1.unused = [k.unused EXCEPT ![p] = 1]
      /\ k1.freelist = [k.freelist EXCEPT ![p] = <<>>]
      /\ k1.given = [k.given EXCEPT ![p] = {}] /\ k1.locked = k.locked
  BY DEF PoolUnmade
<1>1. /\ p \in MPF /\ k.klocked[t] /\ k.call[t] \in CallRecord /\ k.call[t].op \in Op
      /\ k.call \in [Task -> CallRecord]
      /\ k.call[t].b # NoBlock => k.call[t].op = "rel" /\ k.mpf[p] = "exists"
      /\ \A u \in Task \ {t} : k.call[u].p = p => k.call[u].b = NoBlock /\ ~Creates(k, u)
  <2>1. LocksPool(k, t, p)
    BY OwnPoolFacts
  <2> QED BY ONLY <2>1, k.call[t].op = "del", k.mpf[p] = "exists" DEF LocksPool
<1>2. Pools(k)
  BY <1>0, <1>1, OwnFacts
<1>3. c \in CallRecord /\ c.op = "del" /\ c.p = p /\ c.b = NoBlock /\ c.at = "unlock"
  BY <1>1 DEF GoesOn
<1>4. k1.mpf[p] = "free" /\ HasNone(k1, p)
  BY <1>0, <1>1, <1>2 DEF Pools, HasNone
<1>5. Pools(k1)
  <2>1. /\ k1.freelist \in [MPF -> Seq(Block)]
        /\ k1.frbcnt \in [MPF -> Nat] /\ k1.unused \in [MPF -> 1..MpfCnt+1]
    BY <1>0, <1>1, <1>2, PoolHeads DEF Pools
  <2>2. /\ k1.mpf \in [MPF -> {"free", "taken", "exists"}]
        /\ k1.mpfatr \in [MPF -> MpfAtr] /\ k1.call \in [Task -> CallRecord]
        /\ k1.given \in [MPF -> SUBSET Block] /\ k1.locked \in [MPF -> BOOLEAN]
    BY <1>0, <1>1, <1>2, <1>3 DEF Pools, MpfAtr
  <2>3. k1.wid = k.wid /\ PoolField \subseteq DOMAIN k1
    BY <1>0, <1>2 DEF Pools, Only, OwnField, PoolField
  <2> QED BY <1>0, <1>2, <2>1, <2>2, <2>3 DEF Pools
<1>6. OnePool(k1, k, p)
  BY <1>0, <1>1, <1>2 DEF OnePool, Pools
<1>7. PoolStep(k1, k, t, p, c)
  BY <1>0, <1>1, <1>3, <1>5, <1>6 DEF PoolStep
<1>8. ~Creating(c)
  BY <1>0, <1>3 DEF Creating
<1>9. StepAllowed(k1, k, t, p, c)
  BY ONLY <1>1, <1>3, <1>4, <1>8, ~HasWaiter(k, p) DEF StepAllowed
<1> QED BY <1>1, <1>7, <1>9, PoolStepState

(***************************************************************************)
(* Blocks that move.  Parts(s, m, g, B) says of a free list s, a pointer m *)
(* to the unused blocks, a set g of given blocks and a relation B of tasks *)
(* to the blocks they are giving back, that each block is in one place.    *)
(***************************************************************************)
Parts(s, m, g, B) ==
    /\ IsInjective(s)
    /\ \A b \in Block :
          /\ Contains(s, b) => b < m /\ b \notin g
          /\ b \in g => b < m
          /\ \/ Contains(s, b) \/ b >= m \/ b \in g
             \/ \E t \in Task : <<t, b>> \in B
    /\ \A t \in Task, b \in Block : <<t, b>> \in B =>
          /\ b < m /\ b \notin g /\ ~Contains(s, b)
          /\ \A u \in Task : <<u, b>> \in B => u = t

Unfree(s, m) == Len(s) + MpfCnt + 1 - m

\* The same with the types, and the number of free blocks.
PoolParts(s, m, g, B) ==
    s \in Seq(Block) /\ m \in 1..MpfCnt+1 /\ g \in SUBSET Block /\ Parts(s, m, g, B)
Counted(n, s, m) == n \in Nat /\ n = Unfree(s, m)

\* The first block of the free list is taken, or the first unused one.
Takes(s, m, s1, m1, b) ==
    \/ s # <<>> /\ s1 = Tail(s) /\ m1 = m /\ b = Head(s)
    \/ s = <<>> /\ s1 = s /\ m1 = m + 1 /\ b = m

LEMMA TakeParts ==
    ASSUME NEW s, NEW m, NEW g, NEW B, PoolParts(s, m, g, B),
           NEW n, Counted(n, s, m), n > 0,
           NEW s1, NEW m1, NEW b, Takes(s, m, s1, m1, b)
    PROVE  /\ PoolParts(s1, m1, g \cup {b}, B)
           /\ \A n1 : n1 = n - 1 => Counted(n1, s1, m1)
<1>0. /\ s \in Seq(Block) /\ m \in 1..MpfCnt+1 /\ g \in SUBSET Block /\ Parts(s, m, g, B)
      /\ n \in Nat /\ n = Unfree(s, m) /\ Unfree(s, m) > 0
  BY DEF PoolParts, Counted
<1>1. MpfCnt \in Nat /\ m \in Nat /\ Len(s) \in Nat /\ \A a \in Block : a \in Nat
  <2>1. MpfCnt \in Nat /\ \A a \in Block : a \in Nat
    BY PoolHeads
  <2>2. Len(s) \in Nat
    BY <1>0
  <2>3. m \in Nat
    BY <1>0
  <2> QED BY <2>1, <2>2, <2>3
<1>2. /\ s1 \in Seq(Block) /\ IsInjective(s1) /\ m1 \in 1..MpfCnt+1 /\ b \in Block
      /\ Unfree(s1, m1) = Unfree(s, m) - 1
      /\ b < m1 /\ b \notin g
      /\ \A a \in Block : (Contains(s1, a) <=> Contains(s, a) /\ a # b)
                          /\ (a < m1 <=> a < m \/ a = b)
      /\ \A u \in Task : <<u, b>> \notin B
  <2>1. CASE s # <<>>
    <3>1. s1 = Tail(s) /\ b = Head(s) /\ m1 = m
      BY <2>1 DEF Takes
    <3>2. /\ s1 \in Seq(Block) /\ b \in Block /\ Contains(s, b) /\ IsInjective(s1)
          /\ \A a : Contains(s1, a) <=> Contains(s, a) /\ a # b
      BY <2>1, <3>1, <1>0, TailEntries DEF Parts
    <3>3. Len(s1) = Len(s) - 1
      BY <2>1, <3>1, <1>0, HeadTailProperties
    <3>4. Unfree(s1, m1) = Unfree(s, m) - 1
      BY <3>1, <3>3, <1>1 DEF Unfree
    <3>5. b < m1 /\ b \notin g /\ \A u \in Task : <<u, b>> \notin B
      BY <3>1, <3>2, <1>0 DEF Parts
    <3>6. \A a \in Block : a < m1 <=> a < m \/ a = b
      BY <3>1, <3>5
    <3> QED BY <3>1, <3>2, <3>4, <3>5, <3>6, <1>0
  <2>2. CASE s = <<>>
    <3>1. s1 = s /\ b = m /\ m1 = m + 1 /\ Len(s) = 0
      BY <2>2 DEF Takes
    <3>2. m \in Block /\ m1 \in 1..MpfCnt+1 /\ b < m1 /\ Unfree(s1, m1) = Unfree(s, m) - 1
      BY <3>1, <1>0, <1>1 DEF Block, Unfree
    <3>3. ~(b < m)
      BY <3>1, <1>1
    <3>4. b \notin g /\ ~Contains(s, b) /\ \A u \in Task : <<u, b>> \notin B
      BY <3>1, <3>2, <3>3, <1>0 DEF Parts
    <3>5. \A a \in Block : a < m1 <=> a < m \/ a = b
      BY <3>1, <1>1
    <3>6. IsInjective(s)
      BY <1>0 DEF Parts
    <3> QED BY <3>1, <3>2, <3>4, <3>5, <3>6, <1>0
  <2> QED BY <2>1, <2>2
<1>3. \A a \in Block : (a >= m <=> ~(a < m)) /\ (a >= m1 <=> ~(a < m1))
  BY <1>1, <1>2
<1>4. g \cup {b} \in SUBSET Block
  BY <1>0, <1>2
<1>5. Parts(s1, m1, g \cup {b}, B)
  <2>1. ASSUME NEW a \in Block
        PROVE  /\ Contains(s1, a) => a < m1 /\ a \notin g \cup {b}
               /\ a \in g \cup {b} => a < m1
               /\ \/ Contains(s1, a) \/ a >= m1 \/ a \in g \cup {b}
                  \/ \E t \in Task : <<t, a>> \in B
    BY <1>0, <1>2, <1>3 DEF Parts
  <2>2. ASSUME NEW t \in Task, NEW a \in Block, <<t, a>> \in B
        PROVE  /\ a < m1 /\ a \notin g \cup {b} /\ ~Contains(s1, a)
               /\ \A u \in Task : <<u, a>> \in B => u = t
    BY <2>2, <1>0, <1>2 DEF Parts
  <2> QED BY <1>2, <2>1, <2>2 DEF Parts
<1>6. PoolParts(s1, m1, g \cup {b}, B)
  BY <1>2, <1>4, <1>5 DEF PoolParts
<1>7. ASSUME NEW n1, n1 = n - 1 PROVE Counted(n1, s1, m1)
  BY <1>0, <1>2, <1>7 DEF Counted
<1> QED BY <1>6, <1>7

\* A block that task t was giving back is the application's again.
LEMMA ReturnParts ==
    ASSUME NEW s, NEW m, NEW g, NEW B, PoolParts(s, m, g, B),
           NEW t \in Task, NEW b \in Block, <<t, b>> \in B,
           NEW B1, \A u \in Task, a \in Block : <<u, a>> \in B1 <=> <<u, a>> \in B /\ u # t,
           \A a \in Block : <<t, a>> \in B => a = b
    PROVE  PoolParts(s, m, g \cup {b}, B1)
<1>0. /\ s \in Seq(Block) /\ m \in 1..MpfCnt+1 /\ g \cup {b} \in SUBSET Block
      /\ Parts(s, m, g, B)
  BY DEF PoolParts
<1>1. b < m /\ b \notin g /\ ~Contains(s, b) /\ \A u \in Task : <<u, b>> \in B => u = t
  BY <1>0 DEF Parts
<1>2. ASSUME NEW a \in Block
      PROVE  /\ Contains(s, a) => a < m /\ a \notin g \cup {b}
             /\ a \in g \cup {b} => a < m
             /\ \/ Contains(s, a) \/ a >= m \/ a \in g \cup {b}
                \/ \E u \in Task : <<u, a>> \in B1
  BY <1>0, <1>1 DEF Parts
<1>3. ASSUME NEW u \in Task, NEW a \in Block, <<u, a>> \in B1
      PROVE  /\ a < m /\ a \notin g \cup {b} /\ ~Contains(s, a)
             /\ \A v \in Task : <<v, a>> \in B1 => v = u
  BY <1>0, <1>1, <1>3 DEF Parts
<1>4. Parts(s, m, g \cup {b}, B1)
  BY <1>0, <1>2, <1>3 DEF Parts
<1> QED BY <1>0, <1>4 DEF PoolParts

\* It is put in the free list.
LEMMA PutParts ==
    ASSUME NEW s, NEW m, NEW g, NEW B, PoolParts(s, m, g, B),
           NEW n, Counted(n, s, m),
           NEW t \in Task, NEW b \in Block, <<t, b>> \in B,
           NEW B1, \A u \in Task, a \in Block : <<u, a>> \in B1 <=> <<u, a>> \in B /\ u # t,
           \A a \in Block : <<t, a>> \in B => a = b
    PROVE  /\ PoolParts(<<b>> \o s, m, g, B1)
           /\ \A n1 : n1 = n + 1 => Counted(n1, <<b>> \o s, m)
<1>0. /\ s \in Seq(Block) /\ m \in 1..MpfCnt+1 /\ g \in SUBSET Block /\ Parts(s, m, g, B)
      /\ n \in Nat /\ n = Unfree(s, m)
  BY DEF PoolParts, Counted
<1>1. b < m /\ b \notin g /\ ~Contains(s, b) /\ \A u \in Task : <<u, b>> \in B => u = t
  BY <1>0 DEF Parts
<1> DEFINE s1 == <<b>> \o s
<1>2. /\ s1 \in Seq(Block) /\ Len(s1) = Len(s) + 1 /\ IsInjective(s1)
      /\ \A a : Contains(s1, a) <=> Contains(s, a) \/ a = b
  BY <1>0, <1>1, PushEntry DEF Parts
<1> HIDE DEF s1
<1>3. Unfree(s1, m) = Unfree(s, m) + 1
  <2>1. Len(s) \in Nat /\ MpfCnt \in Nat
    BY <1>0, PoolHeads
  <2> QED BY <1>0, <1>2, <2>1 DEF Unfree
<1>4. ASSUME NEW a \in Block
      PROVE  /\ Contains(s1, a) => a < m /\ a \notin g
             /\ a \in g => a < m
             /\ \/ Contains(s1, a) \/ a >= m \/ a \in g
                \/ \E u \in Task : <<u, a>> \in B1
  BY <1>0, <1>1, <1>2 DEF Parts
<1>5. ASSUME NEW u \in Task, NEW a \in Block, <<u, a>> \in B1
      PROVE  /\ a < m /\ a \notin g /\ ~Contains(s1, a)
             /\ \A v \in Task : <<v, a>> \in B1 => v = u
  BY <1>0, <1>1, <1>2, <1>5 DEF Parts
<1>6. Parts(s1, m, g, B1)
  BY <1>2, <1>4, <1>5 DEF Parts
<1>7. PoolParts(s1, m, g, B1)
  BY <1>0, <1>2, <1>6 DEF PoolParts
<1>8. ASSUME NEW n1, n1 = n + 1 PROVE Counted(n1, s1, m)
  BY <1>0, <1>3, <1>8 DEF Counted
<1> QED BY <1>7, <1>8 DEF s1

BackRel(k, p) == {x \in Task \X Block : Back(k, x[1], p, x[2])}

LEMMA BackPair ==
    ASSUME NEW k, NEW p, NEW t \in Task, NEW b \in Block
    PROVE  <<t, b>> \in BackRel(k, p) <=> Back(k, t, p, b)
  BY DEF BackRel

LEMMA PartitionParts ==
    ASSUME NEW k, NEW p
    PROVE  Partition(k, p) <=>
              /\ Parts(k.freelist[p], k.unused[p], k.given[p], BackRel(k, p))
              /\ k.frbcnt[p] = Unfree(k.freelist[p], k.unused[p])
  BY BackPair DEF Partition, Parts, Unfree

\* Task t goes on in its call on pool p as c; the pool has now n free blocks,
\* of which s is the free list, those from m on unused, and g given.
Moved(k1, k, t, p, c, n, m, s, g) ==
    /\ Only(k1, k, OwnField) /\ k1.call = [k.call EXCEPT ![t] = c]
    /\ k1.mpf = k.mpf /\ k1.mpfatr = k.mpfatr /\ k1.locked = k.locked
    /\ k1.frbcnt = [k.frbcnt EXCEPT ![p] = n]
    /\ k1.unused = [k.unused EXCEPT ![p] = m]
    /\ k1.freelist = [k.freelist EXCEPT ![p] = s]
    /\ k1.given = [k.given EXCEPT ![p] = g]

LEMMA MoveStep ==
    ASSUME NEW k, PoolState(k), NEW t \in Task, Runnable(k, PoolPlaces(k), t),
           k.call[t].at # "lock", NEW p, p = k.call[t].p, k.mpf[p] = "exists",
           NEW c \in CallRecord, c.op = k.call[t].op, c.p = p,
           c.b = NoBlock, c.at = "unlock",
           NEW n \in Nat, NEW m \in 1..MpfCnt+1, NEW s \in Seq(Block), NEW g \in SUBSET Block,
           HasWaiter(k, p) => n = 0,
           NEW k1, Moved(k1, k, t, p, c, n, m, s, g), Partition(k1, p)
    PROVE  OwnStepped(k1, k)
<1>1. /\ p \in MPF /\ k.klocked[t] /\ k.call[t].op \in Op
      /\ k.call \in [Task -> CallRecord]
  BY OwnPoolFacts DEF LocksPool
<1>2. Pools(k)
  BY <1>1, OwnFacts
<1>3. /\ Only(k1, k, OwnField) /\ k1.call = [k.call EXCEPT ![t] = c]
      /\ k1.mpf = k.mpf /\ k1.mpfatr = k.mpfatr /\ k1.locked = k.locked
  BY DEF Moved
<1>4. Pools(k1)
  <2>1. /\ k1.freelist \in [MPF -> Seq(Block)]
        /\ k1.frbcnt \in [MPF -> Nat] /\ k1.unused \in [MPF -> 1..MpfCnt+1]
        /\ k1.given \in [MPF -> SUBSET Block]
    <3>1. /\ k.freelist \in [MPF -> Seq(Block)] /\ k.frbcnt \in [MPF -> Nat]
          /\ k.unused \in [MPF -> 1..MpfCnt+1] /\ k.given \in [MPF -> SUBSET Block]
      BY <1>2 DEF Pools
    <3>2. /\ k1.frbcnt = [k.frbcnt EXCEPT ![p] = n]
          /\ k1.unused = [k.unused EXCEPT ![p] = m]
          /\ k1.freelist = [k.freelist EXCEPT ![p] = s]
          /\ k1.given = [k.given EXCEPT ![p] = g]
      BY DEF Moved
    <3>3. k1.frbcnt \in [MPF -> Nat]
      BY <3>1, <3>2, UpdateFunction
    <3>4. k1.unused \in [MPF -> 1..MpfCnt+1]
      BY <3>1, <3>2, UpdateFunction
    <3>5. k1.freelist \in [MPF -> Seq(Block)]
      BY <3>1, <3>2, UpdateFunction
    <3>6. k1.given \in [MPF -> SUBSET Block]
      BY <3>1, <3>2, UpdateFunction
    <3> QED BY <3>3, <3>4, <3>5, <3>6
  <2>2. k1.call \in [Task -> CallRecord]
    BY <1>1, <1>3
  <2>3. k1.wid = k.wid /\ PoolField \subseteq DOMAIN k1
    BY <1>2, <1>3 DEF Pools, Only, OwnField, PoolField
  <2> QED BY <1>2, <1>3, <2>1, <2>2, <2>3 DEF Pools
<1>5. OnePool(k1, k, p) /\ k1.frbcnt[p] = n
  BY <1>1, <1>2 DEF OnePool, Pools, Moved
<1>6. PoolStep(k1, k, t, p, c)
  BY <1>1, <1>3, <1>4, <1>5 DEF PoolStep
<1>7. StepAllowed(k1, k, t, p, c)
  <2>1. c.at \notin {"lock", "put"}
    OBVIOUS
  <2>2. ~Creating(c)
    BY DEF Creating
  <2>3. k1.mpf[p] = "exists" /\ k1.mpf[p] = k.mpf[p] /\ k1.mpfatr[p] = k.mpfatr[p]
    BY <1>3
  <2> QED BY <2>1, <2>2, <2>3, <1>5 DEF StepAllowed
<1> QED BY <1>1, <1>6, <1>7, PoolStepState

LEMMA MovedFields ==
    ASSUME NEW k, Pools(k), NEW t \in Task, NEW p \in MPF, NEW c, NEW n, NEW m, NEW s, NEW g,
           NEW k1, Moved(k1, k, t, p, c, n, m, s, g)
    PROVE  /\ k1.frbcnt[p] = n /\ k1.unused[p] = m /\ k1.freelist[p] = s /\ k1.given[p] = g
           /\ k1.call[t] = c /\ \A u \in Task \ {t} : k1.call[u] = k.call[u]
  BY DEF Moved, Pools

\* The blocks of pool p before a step, and its types.
LEMMA PartsOf ==
    ASSUME NEW k, PoolState(k), NEW p \in MPF, k.mpf[p] = "exists"
    PROVE  /\ PoolParts(k.freelist[p], k.unused[p], k.given[p], BackRel(k, p))
           /\ Counted(k.frbcnt[p], k.freelist[p], k.unused[p])
<1>1. Pools(k) /\ Partition(k, p)
  BY DEF PoolState, BlockInv
<1>2. /\ Parts(k.freelist[p], k.unused[p], k.given[p], BackRel(k, p))
      /\ k.frbcnt[p] = Unfree(k.freelist[p], k.unused[p])
  BY <1>1, PartitionParts
<1>3. /\ k.freelist[p] \in Seq(Block) /\ k.unused[p] \in 1..MpfCnt+1
      /\ k.given[p] \in SUBSET Block /\ k.frbcnt[p] \in Nat
  BY <1>1 DEF Pools
<1> QED BY <1>2, <1>3 DEF PoolParts, Counted

\* What makes a partition after a step.
LEMMA PartsMoved ==
    ASSUME NEW k, Pools(k), NEW t \in Task, NEW p \in MPF, NEW c, NEW n, NEW m, NEW s, NEW g,
           NEW k1, Moved(k1, k, t, p, c, n, m, s, g),
           PoolParts(s, m, g, BackRel(k1, p)), Counted(n, s, m)
    PROVE  /\ n \in Nat /\ m \in 1..MpfCnt+1 /\ s \in Seq(Block) /\ g \in SUBSET Block
           /\ Partition(k1, p)
<1>1. /\ n \in Nat /\ m \in 1..MpfCnt+1 /\ s \in Seq(Block) /\ g \in SUBSET Block
      /\ Parts(s, m, g, BackRel(k1, p)) /\ n = Unfree(s, m)
  BY DEF PoolParts, Counted
<1>2. k1.frbcnt[p] = n /\ k1.unused[p] = m /\ k1.freelist[p] = s /\ k1.given[p] = g
  BY MovedFields
<1>3. Partition(k1, p)
  BY <1>1, <1>2, PartitionParts
<1> QED BY <1>1, <1>3

\* A free block is given to the application.
LEMMA TakeState ==
    ASSUME NEW k, PoolState(k), NEW t \in Task, Runnable(k, PoolPlaces(k), t),
           k.call[t].op = "get", k.call[t].at = "body", NEW p, p = k.call[t].p,
           k.mpf[p] = "exists", k.frbcnt[p] > 0,
           NEW c, GoesOn(c, k.call[t], "unlock"),
           NEW s, NEW m, NEW b, Takes(k.freelist[p], k.unused[p], s, m, b),
           NEW k1, Moved(k1, k, t, p, c, k.frbcnt[p] - 1, m, s, k.given[p] \cup {b})
    PROVE  OwnStepped(k1, k)
<1>1. /\ p \in MPF /\ k.call[t] \in CallRecord /\ k.call \in [Task -> CallRecord]
      /\ k.call[t].b = NoBlock
  <2>1. LocksPool(k, t, p)
    BY OwnPoolFacts
  <2> QED BY <2>1 DEF LocksPool
<1>2. Pools(k) /\ (HasWaiter(k, p) => k.frbcnt[p] = 0)
  BY <1>1, OwnFacts
<1>3. c \in CallRecord /\ c.op = "get" /\ c.p = p /\ c.b = NoBlock /\ c.at = "unlock"
  BY <1>1 DEF GoesOn
<1> DEFINE n0 == k.frbcnt[p]
           s0 == k.freelist[p]
           m0 == k.unused[p]
           g0 == k.given[p]
           n == n0 - 1
           g == g0 \cup {b}
<1>4. /\ PoolParts(s0, m0, g0, BackRel(k, p)) /\ Counted(n0, s0, m0)
      /\ n0 > 0 /\ Takes(s0, m0, s, m, b)
  BY <1>1, PartsOf
<1>5. Moved(k1, k, t, p, c, n, m, s, g) /\ ~HasWaiter(k, p)
  BY <1>2
<1> HIDE DEF n0, s0, m0, g0
<1>6. PoolParts(s, m, g, BackRel(k, p)) /\ Counted(n, s, m)
  BY <1>4, TakeParts
<1> HIDE DEF n, g
<1>7. /\ k1.call[t] = c /\ \A u \in Task \ {t} : k1.call[u] = k.call[u]
  BY <1>1, <1>2, <1>5, MovedFields
<1>8. BackRel(k1, p) = BackRel(k, p)
  <2>1. ASSUME NEW u \in Task, NEW a \in Block PROVE Back(k1, u, p, a) <=> Back(k, u, p, a)
    <3>1. CASE u # t
      BY <3>1, <1>7 DEF Back
    <3>2. CASE u = t
      <4>1. k1.call[u].b = NoBlock /\ k.call[u].b = NoBlock /\ a # NoBlock
        BY <3>2, <1>1, <1>3, <1>7, PoolHeads
      <4> QED BY <4>1 DEF Back
    <3> QED BY <3>1, <3>2
  <2> QED BY <2>1 DEF BackRel
<1>9. /\ n \in Nat /\ m \in 1..MpfCnt+1 /\ s \in Seq(Block) /\ g \in SUBSET Block
      /\ Partition(k1, p)
  BY <1>1, <1>2, <1>5, <1>6, <1>8, PartsMoved
<1> QED BY <1>3, <1>5, <1>9, MoveStep

\* The block of the call of t passes to the application or to the free list.
LEMMA BackMoved ==
    ASSUME NEW k, NEW k1, NEW t \in Task, NEW p, k.call[t].p = p,
           k1.call[t].b = NoBlock, \A u \in Task \ {t} : k1.call[u] = k.call[u],
           NEW b \in Block, k.call[t].b = b
    PROVE  /\ <<t, b>> \in BackRel(k, p)
           /\ \A u \in Task, a \in Block : <<u, a>> \in BackRel(k1, p)
                                           <=> <<u, a>> \in BackRel(k, p) /\ u # t
           /\ \A a \in Block : <<t, a>> \in BackRel(k, p) => a = b
<1>1. \A a \in Block : a # NoBlock
  BY PoolHeads
<1>2. \A u \in Task, a \in Block : /\ <<u, a>> \in BackRel(k, p) <=> Back(k, u, p, a)
                                   /\ <<u, a>> \in BackRel(k1, p) <=> Back(k1, u, p, a)
  BY BackPair
<1>3. \A a \in Block : ~Back(k1, t, p, a) /\ (Back(k, t, p, a) <=> a = b)
  BY <1>1 DEF Back
<1>4. \A u \in Task \ {t}, a \in Block : Back(k1, u, p, a) <=> Back(k, u, p, a)
  BY DEF Back
<1> QED BY <1>2, <1>3, <1>4

\* Call c0 goes on as c, without its block.
GoesOnWithout(c, c0, at) ==
    c \in CallRecord /\ c.op = c0.op /\ c.p = c0.p /\ c.b = NoBlock /\ c.at = at

\* The block is given to the first task in the queue: it is the application's.
LEMMA ReturnState ==
    ASSUME NEW k, PoolState(k), NEW t \in Task, Runnable(k, PoolPlaces(k), t),
           k.call[t].op = "rel", k.call[t].at = "body", NEW p, p = k.call[t].p,
           k.mpf[p] = "exists", NEW c, GoesOnWithout(c, k.call[t], "unlock"),
           NEW k1, Moved(k1, k, t, p, c, k.frbcnt[p], k.unused[p], k.freelist[p],
                         k.given[p] \cup {k.call[t].b})
    PROVE  OwnStepped(k1, k)
<1> DEFINE n == k.frbcnt[p]
           s == k.freelist[p]
           m == k.unused[p]
           g0 == k.given[p]
           b == k.call[t].b
           g == g0 \cup {b}
<1>1. p \in MPF /\ k.call[t] \in CallRecord /\ b \in Block
  <2>1. LocksPool(k, t, p)
    BY OwnPoolFacts
  <2> QED BY <2>1 DEF LocksPool
<1>2. Pools(k) /\ (HasWaiter(k, p) => n = 0)
  BY <1>1, OwnFacts
<1>3. c \in CallRecord /\ c.op = "rel" /\ c.p = p /\ c.b = NoBlock /\ c.at = "unlock"
  BY DEF GoesOnWithout
<1>4. PoolParts(s, m, g0, BackRel(k, p)) /\ Counted(n, s, m)
  BY <1>1, PartsOf
<1>5. Moved(k1, k, t, p, c, n, m, s, g) /\ k.call[t].b = b /\ k.call[t].p = p
  OBVIOUS
<1> HIDE DEF n, s, m, g0, b, g
<1>6. k1.call[t] = c /\ \A u \in Task \ {t} : k1.call[u] = k.call[u]
  BY <1>1, <1>2, <1>5, MovedFields
<1>7. /\ <<t, b>> \in BackRel(k, p)
      /\ \A u \in Task, a \in Block : <<u, a>> \in BackRel(k1, p)
                                      <=> <<u, a>> \in BackRel(k, p) /\ u # t
      /\ \A a \in Block : <<t, a>> \in BackRel(k, p) => a = b
  BY <1>1, <1>3, <1>5, <1>6, BackMoved
<1>8. PoolParts(s, m, g, BackRel(k1, p))
  BY <1>1, <1>4, <1>7, ReturnParts DEF g
<1>9. /\ n \in Nat /\ m \in 1..MpfCnt+1 /\ s \in Seq(Block) /\ g \in SUBSET Block
      /\ Partition(k1, p)
  BY <1>1, <1>2, <1>4, <1>5, <1>8, PartsMoved
<1> QED BY <1>2, <1>3, <1>5, <1>9, MoveStep

\* The block is put in the free list, when no task waits for one.
LEMMA PutState ==
    ASSUME NEW k, PoolState(k), NEW t \in Task, Runnable(k, PoolPlaces(k), t),
           k.call[t].op = "rel", k.call[t].at = "put", NEW p, p = k.call[t].p,
           NEW c, GoesOnWithout(c, k.call[t], "unlock"),
           NEW k1, Moved(k1, k, t, p, c, k.frbcnt[p] + 1, k.unused[p],
                         <<k.call[t].b>> \o k.freelist[p], k.given[p])
    PROVE  OwnStepped(k1, k)
<1> DEFINE n0 == k.frbcnt[p]
           s0 == k.freelist[p]
           m == k.unused[p]
           g == k.given[p]
           b == k.call[t].b
           s == <<b>> \o s0
           n == n0 + 1
<1>1. p \in MPF /\ k.call[t] \in CallRecord /\ b \in Block
  <2>1. LocksPool(k, t, p)
    BY OwnPoolFacts
  <2> QED BY <2>1 DEF LocksPool
<1>2. Pools(k) /\ k.mpf[p] = "exists" /\ ~HasWaiter(k, p)
  <2>1. PutsBlock(k) /\ Pools(k)
    BY <1>1, OwnFacts
  <2> QED BY <2>1 DEF PutsBlock
<1>3. c \in CallRecord /\ c.op = "rel" /\ c.p = p /\ c.b = NoBlock /\ c.at = "unlock"
  BY DEF GoesOnWithout
<1>4. PoolParts(s0, m, g, BackRel(k, p)) /\ Counted(n0, s0, m)
  BY <1>1, <1>2, PartsOf
<1>5. Moved(k1, k, t, p, c, n, m, s, g) /\ k.call[t].b = b /\ k.call[t].p = p
  OBVIOUS
<1> HIDE DEF n0, s0, m, g, b
<1>6. k1.call[t] = c /\ \A u \in Task \ {t} : k1.call[u] = k.call[u]
  <2> HIDE DEF n, s
  <2> QED BY <1>1, <1>2, <1>5, MovedFields
<1>7. /\ <<t, b>> \in BackRel(k, p)
      /\ \A u \in Task, a \in Block : <<u, a>> \in BackRel(k1, p)
                                      <=> <<u, a>> \in BackRel(k, p) /\ u # t
      /\ \A a \in Block : <<t, a>> \in BackRel(k, p) => a = b
  BY <1>1, <1>3, <1>5, <1>6, BackMoved
<1>8. PoolParts(s, m, g, BackRel(k1, p)) /\ Counted(n, s, m)
  BY <1>1, <1>4, <1>7, PutParts
<1> HIDE DEF n, s
<1>9. /\ n \in Nat /\ m \in 1..MpfCnt+1 /\ s \in Seq(Block) /\ g \in SUBSET Block
      /\ Partition(k1, p)
  BY <1>1, <1>2, <1>5, <1>8, PartsMoved
<1> QED BY <1>2, <1>3, <1>5, <1>9, MoveStep

(***************************************************************************)
(* The kernel lock.                                                        *)
(***************************************************************************)
LockQueued(k1, k, r, t, h) ==
    /\ Steady(k1, [r EXCEPT ![t] = {h}])
    /\ Only(k1, k, ReadyQue \cup {"klockwait", "schedtsk"})
    /\ k1.klockwait = [k.klockwait EXCEPT ![t] = TRUE]
    /\ \A g \in OtherHead \ {h} : k1.que[g] = Unlink(k.que[g], t)

JoinsLock(k1, k, t, h) ==
    /\ Only(k1, k, {"que", "klockwait"})
    /\ k1.que = QueInsert(k.que, t, h)
    /\ k1.klockwait = [k.klockwait EXCEPT ![t] = TRUE]

\* A task in no ring becomes the last in the queue of a lock.
LEMMA JoinLockQueue ==
    ASSUME NEW k, NEW r, Ready(k, r), NEW t \in Task, r[t] = {}, NEW h \in OtherHead,
           NEW k1, JoinsLock(k1, k, t, h)
    PROVE  /\ Ready(k1, [r EXCEPT ![t] = {h}])
           /\ \A g \in QueHead \ {h} : k1.que[g] = k.que[g]
<1> DEFINE r1 == [r EXCEPT ![t] = {h}]
<1>1. /\ k.que \in Rings /\ r \in Places /\ Linked(k.que, r) /\ Kernel(k)
      /\ KernelField \subseteq DOMAIN k /\ h \in QueHead /\ h \notin Pri
      /\ k.klockwait \in [Task -> BOOLEAN]
      /\ \A u \in Task : k.klockwait[u] => r[u] \cap Pri = {}
  BY OtherHeads DEF Ready, Kernel
<1>2. r1 \in Places /\ \A u \in Task : r1[u] \cap Pri = r[u] \cap Pri
  BY <1>1, OtherPlace
<1>3. /\ k1.que \in Rings /\ Linked(k1.que, r1)
      /\ \A g \in QueHead \ {h} : k1.que[g] = k.que[g]
  <2>1. QueInsert(k.que, t, h) \in Rings
    BY <1>1, QueInsertLinked
  <2>2. Linked(QueInsert(k.que, t, h), r1)
    BY <1>1, QueInsertLinked
  <2>3. \A g \in QueHead \ {h} : QueInsert(k.que, t, h)[g] = k.que[g]
    BY <1>1 DEF QueInsert, Rings
  <2> QED BY <2>1, <2>2, <2>3 DEF JoinsLock
<1>4. k1.klockwait \in [Task -> BOOLEAN]
      /\ \A u \in Task \ {t} : k1.klockwait[u] = k.klockwait[u]
  BY <1>1 DEF JoinsLock
<1>5. /\ k1.state = k.state /\ k1.priority = k.priority /\ k1.ipriority = k.ipriority
      /\ k1.klocked = k.klocked /\ k1.wspec = k.wspec /\ k1.wtmeb = k.wtmeb
      /\ k1.bitmap = k.bitmap /\ k1.top_priority = k.top_priority
      /\ k1.klocktsk = k.klocktsk /\ k1.schedtsk = k.schedtsk
      /\ KernelField \subseteq DOMAIN k1
  BY <1>1 DEF Only, KernelField, JoinsLock
<1>6. Kernel(k1)
  BY <1>1, <1>3, <1>4, <1>5 DEF Kernel
<1>7. SameReadyQueue(k1, k)
  <2>1. \A p \in Pri : k1.que[p] = k.que[p]
    BY <1>1, <1>3, PriIsNatural
  <2> QED BY <2>1, <1>5 DEF SameReadyQueue
<1>8. \A u \in Task : k1.klockwait[u] => r1[u] \cap Pri = {}
  <2> TAKE u \in Task
  <2>1. CASE u = t
    BY <2>1, <1>2
  <2>2. CASE u # t
    BY <2>2, <1>1, <1>2, <1>4
  <2> QED BY <2>1, <2>2
<1>9. \A u \in Task : r[u] \cap Pri # {} => k1.priority[u] = k.priority[u]
  BY <1>5
<1> HIDE DEF r1
<1>10. Ready(k1, r1)
  BY <1>2, <1>3, <1>6, <1>7, <1>8, <1>9, ReadyKept
<1> QED BY <1>3, <1>10 DEF r1

\* A task that has left its ready ring joins the queue of a lock, and another task is selected.
LEMMA LockQueuedSteady ==
    ASSUME NEW k, NEW r, Steady(k, r), NEW t \in Task, NEW h \in OtherHead,
           NEW kd, LeftReady(kd, k, r, t), NEW k0, JoinsLock(k0, kd, t, h)
    PROVE  LockQueued(Reschedule(k0), k, r, t, h)
<1> DEFINE rd == [r EXCEPT ![t] = {}]
           r1 == [r EXCEPT ![t] = {h}]
           k1 == Reschedule(k0)
<1>1. r \in Places /\ k.klockwait \in [Task -> BOOLEAN]
  BY DEF Steady, Ready, Kernel
<1>2. r1 = [rd EXCEPT ![t] = {h}] /\ rd[t] = {} /\ Ready(kd, rd)
  BY <1>1 DEF Places, LeftReady
<1> HIDE DEF rd, r1
<1>3. Ready(k0, r1) /\ \A g \in QueHead \ {h} : k0.que[g] = kd.que[g]
  <2>1. Ready(kd, rd) /\ rd[t] = {}
    BY <1>2
  <2>2. Ready(k0, [rd EXCEPT ![t] = {h}]) /\ \A g \in QueHead \ {h} : k0.que[g] = kd.que[g]
    BY <2>1, JoinLockQueue
  <2> QED BY <2>2, <1>2
<1>4. Steady(k1, r1) /\ Only(k1, k0, {"schedtsk"})
  BY <1>3, RescheduleSteady
<1> HIDE DEF k1
<1>5. Only(k1, k, ReadyQue \cup {"klockwait", "schedtsk"})
  <2>1. Only(k0, k, ReadyQue \cup {"klockwait", "schedtsk"})
    <3>1. Only(k0, kd, {"que", "klockwait"}) /\ Only(kd, k, ReadyQue \cup {"klockwait"})
      BY DEF JoinsLock, LeftReady
    <3> QED BY <3>1, OnlyTrans DEF ReadyQue
  <2> QED BY <2>1, <1>4, OnlyTrans
<1>6. k1.que = k0.que /\ k1.klockwait = k0.klockwait
  <2>1. KernelField \subseteq DOMAIN k0
    BY <1>3 DEF Ready, Kernel
  <2> QED BY <2>1, <1>4 DEF Only, KernelField
<1>7. k0.klockwait = [k.klockwait EXCEPT ![t] = TRUE]
  BY <1>1 DEF JoinsLock, LeftReady
<1>8. \A g \in OtherHead \ {h} : k1.que[g] = Unlink(k.que[g], t)
  BY <1>3, <1>6, OtherHeads DEF LeftReady
<1> QED BY <1>4, <1>5, <1>6, <1>7, <1>8 DEF LockQueued, k1, r1

\* A task that runs takes a lock: it is selected before all others.
LEMMA LockTakenSteady ==
    ASSUME NEW k, NEW r, Steady(k, r), NEW t \in Task, Runnable(k, r, t),
           NEW k1, Only(k1, k, {"locked", "klocked", "klocktsk"}),
           k1.klocked \in [Task -> BOOLEAN], k1.klocktsk = t
    PROVE  Steady(k1, r)
<1>1. Kernel(k) /\ KernelField \subseteq DOMAIN k
  BY DEF Steady, Ready, Kernel
<1>2. /\ k1.state = k.state /\ k1.priority = k.priority /\ k1.ipriority = k.ipriority
      /\ k1.klockwait = k.klockwait /\ k1.wspec = k.wspec /\ k1.wtmeb = k.wtmeb
      /\ k1.que = k.que /\ k1.bitmap = k.bitmap /\ k1.top_priority = k.top_priority
      /\ k1.schedtsk = k.schedtsk /\ KernelField \subseteq DOMAIN k1
  BY <1>1 DEF Only, KernelField
<1>3. Kernel(k1)
  BY <1>1, <1>2 DEF Kernel
<1>4. ReadyExact(k1)
  BY <1>2 DEF Steady, Ready, ReadyExact
<1>5. Runnable(k1, r, t) /\ Selected(k1, r)
  BY <1>2 DEF Steady, Selected, Runnable
<1>6. /\ r \in Places /\ Linked(k1.que, r)
      /\ \A u \in Task : r[u] \cap Pri \subseteq {k1.priority[u]}
      /\ \A u \in Task : k1.klockwait[u] => r[u] \cap Pri = {}
  BY <1>2 DEF Steady, Ready
<1>7. Ready(k1, r)
  BY <1>3, <1>4, <1>5, <1>6 DEF Ready
<1> QED BY <1>5, <1>7 DEF Steady

LockField == ReadyQue \cup {"klocked", "klockwait", "schedtsk", "locked"}

\* The lock that task t had is free, and so is the choice of the next task.
LEMMA ReleaseReady ==
    ASSUME NEW k, NEW r, Ready(k, r), NEW k1, Only(k1, k, {"klocked", "klocktsk", "locked"}),
           k1.klocked \in [Task -> BOOLEAN], k1.klocktsk = NoTask
    PROVE  /\ Ready(k1, r) /\ k1.que = k.que /\ k1.klockwait = k.klockwait
           /\ k1.priority = k.priority /\ KernelField \subseteq DOMAIN k1
<1>1. Kernel(k) /\ KernelField \subseteq DOMAIN k
  BY DEF Ready, Kernel
<1>2. /\ k1.state = k.state /\ k1.priority = k.priority /\ k1.ipriority = k.ipriority
      /\ k1.klockwait = k.klockwait /\ k1.wspec = k.wspec /\ k1.wtmeb = k.wtmeb
      /\ k1.que = k.que /\ k1.bitmap = k.bitmap /\ k1.top_priority = k.top_priority
      /\ k1.schedtsk = k.schedtsk /\ KernelField \subseteq DOMAIN k1
  BY <1>1 DEF Only, KernelField
<1>3. Kernel(k1)
  BY <1>1, <1>2 DEF Kernel
<1>4. ReadyExact(k1)
  BY <1>2 DEF Ready, ReadyExact
<1>5. /\ r \in Places /\ Linked(k1.que, r)
      /\ \A u \in Task : r[u] \cap Pri \subseteq {k1.priority[u]}
      /\ \A u \in Task : k1.klockwait[u] => r[u] \cap Pri = {}
  BY <1>2 DEF Ready
<1> QED BY <1>2, <1>3, <1>4, <1>5 DEF Ready

\* Nobody waits for the lock.
UnlockedFree(k1, k, r, t, p) ==
    /\ Steady(k1, r) /\ Only(k1, k, LockField)
    /\ k1.klocked = [k.klocked EXCEPT ![t] = FALSE]
    /\ k1.klockwait = k.klockwait
    /\ k1.locked = [k.locked EXCEPT ![p] = FALSE]
    /\ k1.que = k.que

LEMMA UnlockFree ==
    ASSUME NEW k, NEW r, Ready(k, r), "locked" \in DOMAIN k, NEW t \in Task, NEW p \in MPF,
           k.que[LockQ[p]] = <<>>
    PROVE  UnlockedFree(UnlockOBJ(k, t, p), k, r, t, p)
<1> DEFINE k0 == [k EXCEPT !.klocked[t] = FALSE, !.klocktsk = NoTask, !.locked[p] = FALSE]
           k1 == Reschedule(k0)
<1>1. UnlockOBJ(k, t, p) = k1
  BY DEF UnlockOBJ
<1>2. KernelField \cup {"locked"} \subseteq DOMAIN k /\ k.klocked \in [Task -> BOOLEAN]
  BY DEF Ready, Kernel
<1>3. /\ Only(k0, k, {"klocked", "klocktsk", "locked"}) /\ k0.klocktsk = NoTask
      /\ k0.klocked = [k.klocked EXCEPT ![t] = FALSE]
      /\ k0.locked = [k.locked EXCEPT ![p] = FALSE] /\ DOMAIN k0 = DOMAIN k
  BY <1>2 DEF Only, KernelField
<1>4. k0.klocked \in [Task -> BOOLEAN]
  BY <1>2, <1>3
<1> HIDE DEF k0
<1>5. Ready(k0, r) /\ k0.que = k.que /\ k0.klockwait = k.klockwait
  BY <1>3, <1>4, ReleaseReady
<1>6. Steady(k1, r) /\ Only(k1, k0, {"schedtsk"})
  BY <1>5, RescheduleSteady
<1> HIDE DEF k1
<1>7. /\ k1.klocked = k0.klocked /\ k1.klockwait = k0.klockwait /\ k1.locked = k0.locked
      /\ k1.que = k0.que
  BY <1>2, <1>3, <1>6 DEF Only, KernelField
<1>8. Only(k1, k, LockField)
  <2>1. {"klocked", "klocktsk", "locked"} \subseteq LockField /\ {"schedtsk"} \subseteq LockField
    BY DEF LockField, ReadyQue
  <2> QED BY <2>1, <1>3, <1>6, OnlyTrans
<1> QED BY <1>1, <1>3, <1>5, <1>6, <1>7, <1>8 DEF UnlockedFree

\* The lock passes to the first task in its queue, v.
UnlockedTo(k1, k, r, t, p, v) ==
    /\ Steady(k1, [r EXCEPT ![v] = {k.priority[v]}]) /\ Only(k1, k, LockField)
    /\ k1.klocked = [[k.klocked EXCEPT ![t] = FALSE] EXCEPT ![v] = TRUE]
    /\ k1.klockwait = [k.klockwait EXCEPT ![v] = FALSE]
    /\ k1.locked = k.locked
    /\ \A h \in OtherHead \ {LockQ[p]} : k1.que[h] = k.que[h]

\* Task v, the first in the queue h of a lock, leaves it as the holder.
Grants(k1, k, h, v) ==
    /\ Only(k1, k, {"que", "klockwait", "klocked"})
    /\ k1.que = [k.que EXCEPT ![h] = Tail(@)]
    /\ k1.klockwait = [k.klockwait EXCEPT ![v] = FALSE]

LEMMA GrantReady ==
    ASSUME NEW k, NEW r, Ready(k, r), NEW h \in OtherHead, k.que[h] # <<>>,
           NEW v, v = Head(k.que[h]), r[v] = {h},
           NEW k1, Grants(k1, k, h, v), k1.klocked \in [Task -> BOOLEAN]
    PROVE  v \in Task /\ Ready(k1, [r EXCEPT ![v] = {}]) /\ ~k1.klockwait[v]
<1> DEFINE r1 == [r EXCEPT ![v] = {}]
<1>1. /\ k.que \in Rings /\ r \in Places /\ Linked(k.que, r) /\ Kernel(k)
      /\ KernelField \subseteq DOMAIN k /\ h \in QueHead /\ h \notin Pri
      /\ k.klockwait \in [Task -> BOOLEAN]
      /\ \A u \in Task : k.klockwait[u] => r[u] \cap Pri = {}
  BY OtherHeads DEF Ready, Kernel
<1>2. v \in Task /\ k1.que \in Rings /\ Linked(k1.que, r1)
  <2>1. /\ v \in Task /\ [k.que EXCEPT ![h] = Tail(@)] \in Rings
        /\ Linked([k.que EXCEPT ![h] = Tail(@)], [r EXCEPT ![v] = {}])
    BY <1>1, TailLinked
  <2> QED BY <2>1 DEF Grants
<1>3. r1 \in Places /\ \A u \in Task : r1[u] \cap Pri = r[u] \cap Pri
  BY <1>1, <1>2 DEF Places
<1>4. /\ k1.klockwait \in [Task -> BOOLEAN] /\ ~k1.klockwait[v]
      /\ \A u \in Task \ {v} : k1.klockwait[u] = k.klockwait[u]
      /\ \A g \in QueHead \ {h} : k1.que[g] = k.que[g]
  BY <1>1, <1>2 DEF Rings, Grants
<1>5. /\ k1.state = k.state /\ k1.priority = k.priority /\ k1.ipriority = k.ipriority
      /\ k1.wspec = k.wspec /\ k1.wtmeb = k.wtmeb
      /\ k1.bitmap = k.bitmap /\ k1.top_priority = k.top_priority
      /\ k1.klocktsk = k.klocktsk /\ k1.schedtsk = k.schedtsk
      /\ KernelField \subseteq DOMAIN k1
  BY <1>1 DEF Only, KernelField, Grants
<1>6. Kernel(k1)
  BY <1>1, <1>2, <1>4, <1>5 DEF Kernel
<1>7. SameReadyQueue(k1, k)
  <2>1. \A p \in Pri : k1.que[p] = k.que[p]
    BY <1>1, <1>4, PriIsNatural
  <2> QED BY <2>1, <1>5 DEF SameReadyQueue
<1>8. \A u \in Task : k1.klockwait[u] => r1[u] \cap Pri = {}
  <2> TAKE u \in Task
  <2>1. CASE u = v
    BY <2>1, <1>4
  <2>2. CASE u # v
    BY <2>2, <1>1, <1>3, <1>4
  <2> QED BY <2>1, <2>2
<1>9. \A u \in Task : r[u] \cap Pri # {} => k1.priority[u] = k.priority[u]
  BY <1>5
<1> HIDE DEF r1
<1>10. Ready(k1, r1)
  BY <1>2, <1>3, <1>6, <1>7, <1>8, <1>9, ReadyKept
<1> QED BY <1>2, <1>4, <1>10 DEF r1

LEMMA UnlockTo ==
    ASSUME NEW k, NEW r, Ready(k, r), "locked" \in DOMAIN k, NEW t \in Task, NEW p \in MPF,
           k.que[LockQ[p]] # <<>>, NEW v, v = Head(k.que[LockQ[p]]), r[v] = {LockQ[p]}
    PROVE  v \in Task /\ UnlockedTo(UnlockOBJ(k, t, p), k, r, t, p, v)
<1> DEFINE h == LockQ[p]
           k0 == [k EXCEPT !.klocked[t] = FALSE, !.klocktsk = NoTask]
           kg == [k0 EXCEPT !.que[h] = Tail(k.que[h]), !.klockwait[v] = FALSE,
                            !.klocked[v] = TRUE]
           kr == ReadyQueueInsertTop(kg, v)
           k1 == Reschedule(kr)
           rv == [r EXCEPT ![v] = {}]
<1>1. UnlockOBJ(k, t, p) = k1
  BY DEF UnlockOBJ
<1>2. /\ KernelField \cup {"locked"} \subseteq DOMAIN k /\ k.klocked \in [Task -> BOOLEAN]
      /\ h \in OtherHead /\ r \in Places
  BY PoolHeads DEF Ready, Kernel
<1>3. /\ Only(k0, k, {"klocked", "klocktsk", "locked"}) /\ k0.klocktsk = NoTask
      /\ k0.klocked = [k.klocked EXCEPT ![t] = FALSE] /\ DOMAIN k0 = DOMAIN k
      /\ k0.locked = k.locked
  BY <1>2 DEF Only, KernelField
<1>4. k0.klocked \in [Task -> BOOLEAN]
  BY <1>2, <1>3
<1>5. /\ Only(kg, k0, {"que", "klockwait", "klocked"})
      /\ kg.que = [k0.que EXCEPT ![h] = Tail(k.que[h])]
      /\ kg.klockwait = [k0.klockwait EXCEPT ![v] = FALSE]
      /\ kg.klocked = [k0.klocked EXCEPT ![v] = TRUE]
      /\ kg.locked = k.locked /\ DOMAIN kg = DOMAIN k
  BY <1>2, <1>3 DEF Only, KernelField
<1> HIDE DEF k0, kg
<1>6. /\ Ready(k0, r) /\ k0.que = k.que /\ k0.klockwait = k.klockwait
      /\ k0.priority = k.priority
  BY <1>3, <1>4, ReleaseReady
<1>7. kg.klocked \in [Task -> BOOLEAN] /\ Grants(kg, k0, h, v)
  BY <1>4, <1>5, <1>6 DEF Grants
<1>7a. k0.que[h] # <<>> /\ v = Head(k0.que[h]) /\ r[v] = {h}
  BY <1>6
<1> HIDE DEF h, rv
<1>8. v \in Task /\ Ready(kg, [r EXCEPT ![v] = {}]) /\ ~kg.klockwait[v]
  BY ONLY <1>2, <1>6, <1>7, <1>7a, GrantReady
<1>9. Ready(kg, rv) /\ rv[v] = {} /\ [rv EXCEPT ![v] = {k.priority[v]}] = [r EXCEPT ![v] = {k.priority[v]}]
      /\ kg.priority = k.priority
  <2>1. rv[v] = {} /\ [rv EXCEPT ![v] = {k.priority[v]}] = [r EXCEPT ![v] = {k.priority[v]}]
    BY <1>2, <1>8 DEF rv, Places
  <2>2. kg.priority = k0.priority
    BY <1>2, <1>3, <1>5 DEF Only, KernelField
  <2> QED BY <2>1, <2>2, <1>6, <1>8 DEF rv
<1>10. /\ Ready(kr, [rv EXCEPT ![v] = {kg.priority[v]}]) /\ Only(kr, kg, ReadyQue)
       /\ \A g \in OtherHead : kr.que[g] = kg.que[g]
  <2>1. v \in Task /\ Ready(kg, rv) /\ rv[v] = {} /\ ~kg.klockwait[v]
    BY <1>8, <1>9
  <2> QED BY ONLY <2>1, InsertTopReady
<1> HIDE DEF kr
<1>11. Steady(k1, [r EXCEPT ![v] = {k.priority[v]}]) /\ Only(k1, kr, {"schedtsk"})
  <2>1. Ready(kr, [r EXCEPT ![v] = {k.priority[v]}])
    BY <1>9, <1>10
  <2> QED BY <2>1, RescheduleSteady
<1> HIDE DEF k1
<1>12. /\ k1.klocked = kg.klocked /\ k1.klockwait = kg.klockwait /\ k1.locked = kg.locked
       /\ k1.que = kr.que
  <2>1. DOMAIN kr = DOMAIN k
    BY <1>5, <1>10 DEF Only
  <2>2. kr.klocked = kg.klocked /\ kr.klockwait = kg.klockwait /\ kr.locked = kg.locked
    BY <1>2, <1>5, <1>10 DEF Only, KernelField, ReadyQue
  <2>3. /\ k1.klocked = kr.klocked /\ k1.klockwait = kr.klockwait /\ k1.locked = kr.locked
        /\ k1.que = kr.que
    BY <1>2, <2>1, <1>11 DEF Only, KernelField
  <2> QED BY <2>2, <2>3
<1>13. Only(k1, k, LockField)
  <2>1. /\ {"klocked", "klocktsk", "locked"} \subseteq LockField /\ {"schedtsk"} \subseteq LockField
        /\ {"que", "klockwait", "klocked"} \subseteq LockField /\ ReadyQue \subseteq LockField
    BY DEF LockField, ReadyQue
  <2>2. Only(kg, k, LockField)
    BY <2>1, <1>3, <1>5, OnlyTrans
  <2>3. Only(kr, k, LockField)
    BY <2>1, <2>2, <1>10, OnlyTrans
  <2> QED BY <2>1, <2>3, <1>11, OnlyTrans
<1>14. \A g \in OtherHead \ {h} : k1.que[g] = k.que[g]
  <2>1. \A g \in OtherHead \ {h} : kg.que[g] = k.que[g]
    BY <1>5, <1>6, OtherHeads DEF Ready, Kernel, Rings
  <2> QED BY <2>1, <1>10, <1>12
<1>15. /\ k1.klocked = [[k.klocked EXCEPT ![t] = FALSE] EXCEPT ![v] = TRUE]
       /\ k1.klockwait = [k.klockwait EXCEPT ![v] = FALSE] /\ k1.locked = k.locked
  BY <1>3, <1>5, <1>6, <1>12
<1> QED BY <1>1, <1>8, <1>11, <1>13, <1>14, <1>15 DEF UnlockedTo, h

\* What a step of the lock does not touch.
Others(k) == Pools(k) /\ WaitInv(k) /\ Sorted(k) /\ BlockInv(k) /\ CallInv(k)

LEMMA LockFrame ==
    ASSUME NEW k, Kernel(k), Others(k), NEW k1, Only(k1, k, LockField),
           k1.locked \in [MPF -> BOOLEAN], \A p \in MPF : k1.que[p] = k.que[p]
    PROVE  /\ Others(k1)
           /\ k1.state = k.state /\ k1.priority = k.priority /\ k1.wid = k.wid
           /\ k1.call = k.call
<1>1. KernelField \cup PoolField \subseteq DOMAIN k /\ DOMAIN k1 = DOMAIN k
  BY DEF Others, Pools, Kernel, Only
<1>2. /\ k1.state = k.state /\ k1.priority = k.priority /\ k1.wid = k.wid
      /\ k1.wspec = k.wspec /\ k1.wtmeb = k.wtmeb
      /\ k1.mpf = k.mpf /\ k1.mpfatr = k.mpfatr
      /\ k1.frbcnt = k.frbcnt /\ k1.unused = k.unused /\ k1.freelist = k.freelist
      /\ k1.given = k.given /\ k1.call = k.call
  BY <1>1 DEF Only, LockField, ReadyQue, KernelField, PoolField
<1>3. Pools(k1)
  BY <1>1, <1>2 DEF Others, Pools
<1>4. WaitInv(k1)
  BY <1>2 DEF Others, WaitInv, WaitsFor
<1>5. Sorted(k1)
  BY <1>2 DEF Others, Sorted
<1>6. BlockInv(k1) /\ CallInv(k1)
  BY <1>2, BlocksKept DEF Others
<1> QED BY <1>2, <1>3, <1>4, <1>5, <1>6 DEF Others

LEMMA PoolParting ==
    ASSUME NEW k
    PROVE  PoolState(k) <=> Steady(k, PoolPlaces(k)) /\ LockInv(k) /\ Others(k)
  BY DEF PoolState, Others

\* An attempt of task t to lock the pool of its call.
Attempted(k1, k, t) ==
    /\ PoolState(k1) /\ Only(k1, k, LockField) /\ k1.call = k.call
    /\ k1.klocked[t] => Runnable(k1, PoolPlaces(k1), t)

LEMMA LockFreeState ==
    ASSUME NEW k, PoolState(k), NEW t \in Task, Runnable(k, PoolPlaces(k), t),
           k.call[t] # Idle, NEW p, p = k.call[t].p, ~k.klocked[t], ~k.locked[p],
           NEW k1, Only(k1, k, {"locked", "klocked", "klocktsk"}),
           k1.locked = [k.locked EXCEPT ![p] = TRUE],
           k1.klocked = [k.klocked EXCEPT ![t] = TRUE], k1.klocktsk = t
    PROVE  Attempted(k1, k, t)
<1> DEFINE r == PoolPlaces(k)
<1>1. /\ Steady(k, r) /\ LockInv(k) /\ Others(k) /\ Kernel(k) /\ Pools(k)
      /\ k.state[t] = "READY" /\ ~k.klockwait[t] /\ p \in MPF
  BY PoolParting, PlaceCases, OwnFacts
<1>2. /\ k.locked \in [MPF -> BOOLEAN] /\ k.klocked \in [Task -> BOOLEAN]
      /\ k1.locked \in [MPF -> BOOLEAN] /\ k1.klocked \in [Task -> BOOLEAN]
  BY <1>1 DEF Pools, Kernel
<1>3. Only(k1, k, LockField)
  BY DEF Only, LockField, ReadyQue
<1>4. k1.que = k.que /\ k1.klockwait = k.klockwait
  BY <1>1 DEF Only, Kernel, KernelField
<1>5. Others(k1) /\ k1.state = k.state /\ k1.priority = k.priority /\ k1.wid = k.wid
      /\ k1.call = k.call
  BY ONLY <1>1, <1>2, <1>3, <1>4, LockFrame
<1>6. Steady(k1, r)
  BY <1>1, <1>2, LockTakenSteady
<1>7. PoolPlaces(k1) = r
  <2>1. \A u \in Task : PlaceOfTask(k1, u) = PlaceOfTask(k, u)
    BY <1>4, <1>5, SamePlace
  <2> QED BY <2>1 DEF PoolPlaces
<1>8. /\ k1.locked[p] /\ \A q \in MPF \ {p} : k1.locked[q] = k.locked[q]
      /\ k1.klocked[t] /\ \A u \in Task \ {t} : k1.klocked[u] = k.klocked[u]
  BY <1>1, <1>2
<1>9. \A u \in Task : k.klocked[u] => k.call[u].p # p /\ k.call[u].p \in MPF
  BY <1>1 DEF LockInv
<1>10. LockInv(k1)
  <2>1. ASSUME NEW u \in Task
        PROVE  /\ k1.call[u] = Idle \/ (k1.call[u].op \in Op /\ k1.call[u].p \in MPF)
               /\ k1.klocked[u] => k1.call[u] # Idle /\ k1.locked[k1.call[u].p]
               /\ k1.call[u].at # "lock" => k1.klocked[u]
    <3>1. CASE u = t
      BY <3>1, <1>1, <1>5, <1>8 DEF LockInv
    <3>2. CASE u # t
      BY <3>2, <1>1, <1>5, <1>8, <1>9 DEF LockInv
    <3> QED BY <3>1, <3>2
  <2>2. ASSUME NEW u \in Task
        PROVE  /\ k1.klockwait[u] => /\ k1.state[u] = "READY" /\ ~k1.klocked[u]
                                     /\ k1.call[u] # Idle /\ k1.locked[k1.call[u].p]
               /\ k1.state[u] \notin {"READY", "SUSPEND"} => k1.call[u] = Idle
    <3>1. CASE u = t
      BY <3>1, <1>1, <1>4, <1>5
    <3>2. CASE u # t
      BY <3>2, <1>1, <1>4, <1>5, <1>8 DEF LockInv
    <3> QED BY <3>1, <3>2
  <2>3. ASSUME NEW u \in Task, NEW v \in Task,
               k1.klocked[u] /\ k1.klocked[v] /\ k1.call[u].p = k1.call[v].p
        PROVE  u = v
    <3>1. CASE u = t \/ v = t
      BY <3>1, <2>3, <1>5, <1>8, <1>9
    <3>2. CASE u # t /\ v # t
      BY <3>2, <2>3, <1>1, <1>5, <1>8 DEF LockInv
    <3> QED BY <3>1, <3>2
  <2>4. ASSUME NEW q \in MPF, k1.locked[q]
        PROVE  \E u \in Task : k1.klocked[u] /\ k1.call[u].p = q
    <3>1. CASE q = p
      BY <3>1, <1>5, <1>8
    <3>2. CASE q # p
      BY <3>2, <2>4, <1>1, <1>5, <1>8 DEF LockInv
    <3> QED BY <3>1, <3>2
  <2> QED BY <2>1, <2>2, <2>3, <2>4 DEF LockInv
<1>11. PoolState(k1)
  BY <1>5, <1>6, <1>7, <1>10, PoolParting
<1>12. Runnable(k1, PoolPlaces(k1), t)
  BY <1>5, <1>7 DEF Runnable
<1> QED BY <1>3, <1>5, <1>11, <1>12 DEF Attempted

LEMMA LockWaitState ==
    ASSUME NEW k, PoolState(k), NEW t \in Task, Runnable(k, PoolPlaces(k), t),
           k.call[t] # Idle, NEW p, p = k.call[t].p, ~k.klocked[t], k.locked[p],
           NEW k1, LockQueued(k1, k, PoolPlaces(k), t, LockQ[p])
    PROVE  Attempted(k1, k, t)
<1> DEFINE r == PoolPlaces(k)
           h == LockQ[p]
<1>1. /\ Steady(k, r) /\ LockInv(k) /\ Others(k) /\ Kernel(k) /\ Pools(k)
      /\ k.state[t] = "READY" /\ ~k.klockwait[t] /\ p \in MPF /\ r[t] = {k.priority[t]}
  BY PoolParting, PlaceCases, OwnFacts
<1>2. /\ Steady(k1, [r EXCEPT ![t] = {h}])
      /\ Only(k1, k, ReadyQue \cup {"klockwait", "schedtsk"})
      /\ k1.klockwait = [k.klockwait EXCEPT ![t] = TRUE]
      /\ \A g \in OtherHead \ {h} : k1.que[g] = Unlink(k.que[g], t)
  BY DEF LockQueued
<1>3. /\ Only(k1, k, LockField) /\ k1.locked = k.locked /\ k1.klocked = k.klocked
      /\ k1.locked \in [MPF -> BOOLEAN]
  <2>1. k1.locked = k.locked /\ k1.klocked = k.klocked
    BY <1>1, <1>2 DEF Only, ReadyQue, Kernel, KernelField, Pools, PoolField
  <2>2. Only(k1, k, LockField)
    BY <1>2 DEF Only, LockField
  <2> QED BY <2>1, <2>2, <1>1 DEF Pools
<1>4. \A q \in MPF : k1.que[q] = k.que[q]
  <2> TAKE q \in MPF
  <2>1. q \in OtherHead \ {h} /\ q \in QueHead
    BY <1>1, PoolHeads, OtherHeads
  <2>2. ~InRing(k.que[q], t)
    <3>1. q \notin r[t]
      <4>1. k.priority[t] \in Pri
        BY <1>1 DEF Kernel
      <4> QED BY <4>1, <1>1, <2>1, OtherHeads
    <3> QED BY <3>1, <2>1, <1>1 DEF Steady, Ready, Linked
  <2> QED BY <2>1, <2>2, <1>2 DEF Unlink
<1>5. Others(k1) /\ k1.state = k.state /\ k1.priority = k.priority /\ k1.wid = k.wid
      /\ k1.call = k.call
  BY <1>1, <1>3, <1>4, LockFrame
<1>6. /\ k1.klockwait[t] /\ \A u \in Task \ {t} : k1.klockwait[u] = k.klockwait[u]
  BY <1>1, <1>2 DEF Kernel
<1>7. PoolPlaces(k1) = [r EXCEPT ![t] = {h}]
  <2>1. \A u \in Task \ {t} : PlaceOfTask(k1, u) = PlaceOfTask(k, u)
    BY <1>5, <1>6, SamePlace
  <2>2. PlaceOfTask(k1, t) = {h}
    BY <1>1, <1>5, <1>6, ATaskWaits DEF PlaceOfTask
  <2> QED BY <2>1, <2>2, OnePlace
<1>8. LockInv(k1)
  <2>1. ASSUME NEW u \in Task
        PROVE  k1.klockwait[u] => /\ k1.state[u] = "READY" /\ ~k1.klocked[u]
                                  /\ k1.call[u] # Idle /\ k1.locked[k1.call[u].p]
    <3>1. CASE u = t
      BY <3>1, <1>1, <1>3, <1>5
    <3>2. CASE u # t
      BY <3>2, <1>1, <1>3, <1>5, <1>6 DEF LockInv
    <3> QED BY <3>1, <3>2
  <2> QED BY <2>1, <1>1, <1>3, <1>5 DEF LockInv
<1>9. PoolState(k1)
  BY <1>2, <1>5, <1>7, <1>8, PoolParting
<1>10. ~k1.klocked[t]
  BY <1>3
<1> QED BY <1>3, <1>5, <1>9, <1>10 DEF Attempted

\* One attempt of knl_LockOBJ.
LEMMA LockState ==
    ASSUME NEW k, PoolState(k), NEW t \in Task, Runnable(k, PoolPlaces(k), t),
           k.call[t] # Idle, NEW p, p = k.call[t].p
    PROVE  Attempted(LockOBJ(k, t, p), k, t)
<1> DEFINE r == PoolPlaces(k)
<1>1. /\ Steady(k, r) /\ LockInv(k) /\ Kernel(k) /\ Pools(k) /\ p \in MPF
      /\ KernelField \cup PoolField \subseteq DOMAIN k /\ MayLeave(k, r, t) /\ Ready(k, r)
  BY PoolParting, PlaceCases, OwnFacts DEF Kernel, Pools, Steady
<1>2. CASE k.klocked[t]
  <2>1. LockOBJ(k, t, p) = k
    BY <1>2 DEF LockOBJ
  <2>2. Only(k, k, LockField)
    BY DEF Only
  <2> QED BY <2>1, <2>2 DEF Attempted
<1>3. CASE ~k.klocked[t] /\ ~k.locked[p]
  <2> DEFINE k1 == [k EXCEPT !.locked[p] = TRUE, !.klocked[t] = TRUE, !.klocktsk = t]
  <2>1. LockOBJ(k, t, p) = k1
    BY <1>3 DEF LockOBJ
  <2>2. /\ Only(k1, k, {"locked", "klocked", "klocktsk"})
        /\ k1.locked = [k.locked EXCEPT ![p] = TRUE]
        /\ k1.klocked = [k.klocked EXCEPT ![t] = TRUE] /\ k1.klocktsk = t
    BY <1>1 DEF Only, KernelField, PoolField
  <2> HIDE DEF k1
  <2>3. Attempted(k1, k, t)
    BY <2>2, <1>3, LockFreeState
  <2> QED BY <2>1, <2>3
<1>4. CASE ~k.klocked[t] /\ k.locked[p]
  <2> DEFINE kd == ReadyQueueDelete(k, t)
             h == LockQ[p]
             k0 == [kd EXCEPT !.klockwait[t] = TRUE, !.que = QueInsert(@, t, h)]
  <2>1. LockOBJ(k, t, p) = Reschedule(k0)
    BY <1>4 DEF LockOBJ
  <2>2. LeftReady(kd, k, r, t)
    BY <1>1, LeaveReady
  <2> HIDE DEF kd
  <2>3. KernelField \subseteq DOMAIN kd
    BY <2>2 DEF LeftReady, Ready, Kernel
  <2>4. JoinsLock(k0, kd, t, h)
    BY <2>3 DEF JoinsLock, Only, KernelField
  <2>5. h \in OtherHead
    BY <1>1, PoolHeads
  <2> HIDE DEF k0, h, r
  <2>6. LockQueued(Reschedule(k0), k, r, t, h)
    BY <1>1, <2>2, <2>4, <2>5, LockQueuedSteady
  <2>7. LockQueued(Reschedule(k0), k, PoolPlaces(k), t, LockQ[p])
    BY <2>6 DEF r, h
  <2>8. Attempted(Reschedule(k0), k, t)
    BY <2>7, <1>4, LockWaitState
  <2> QED BY <2>1, <2>8
<1> QED BY <1>2, <1>3, <1>4

(***************************************************************************)
(* Calls begin.                                                            *)
(***************************************************************************)
\* A call that has no block, and is no tk_cre_mpf.
LEMMA NewCallState ==
    ASSUME NEW k, PoolState(k), NEW t \in Task, Runnable(k, PoolPlaces(k), t),
           k.call[t] = Idle, NEW op \in {"get", "del"}, NEW p \in MPF,
           op = "del" => \A u \in Task : k.call[u].p = p => k.call[u].op # "rel",
           NEW k1, Only(k1, k, {"call"}),
           k1.call = [k.call EXCEPT ![t] = Call(op, p, NoBlock)]
    PROVE  OwnStepped(k1, k)
<1> DEFINE c == Call(op, p, NoBlock)
<1>1. /\ c \in CallRecord /\ c.op = op /\ c.p = p /\ c.b = NoBlock /\ c.at = "lock"
      /\ op \in Op
  BY NewCall DEF Op
<1>2. ~k.klocked[t] /\ k.call[t].b = NoBlock
  BY IdleCall, OwnFacts
<1>3. ~Creating(c)
  BY <1>1 DEF Creating
<1> HIDE DEF c
<1> QED BY <1>1, <1>2, <1>3, CallStep DEF c

\* The application gives back block b of pool p.
LEMMA GiveParts ==
    ASSUME NEW s, NEW m, NEW g, NEW B, PoolParts(s, m, g, B),
           NEW t \in Task, NEW b \in g,
           NEW B1, \A u \in Task, a \in Block :
                      <<u, a>> \in B1 <=> <<u, a>> \in B \/ (u = t /\ a = b),
           \A a \in Block : <<t, a>> \notin B
    PROVE  PoolParts(s, m, g \ {b}, B1)
<1>0. /\ s \in Seq(Block) /\ m \in 1..MpfCnt+1 /\ g \ {b} \in SUBSET Block /\ b \in Block
      /\ Parts(s, m, g, B)
  BY DEF PoolParts
<1>1. b < m /\ ~Contains(s, b) /\ \A u \in Task : <<u, b>> \notin B
  BY <1>0 DEF Parts
<1>2. ASSUME NEW a \in Block
      PROVE  /\ Contains(s, a) => a < m /\ a \notin g \ {b}
             /\ a \in g \ {b} => a < m
             /\ \/ Contains(s, a) \/ a >= m \/ a \in g \ {b}
                \/ \E u \in Task : <<u, a>> \in B1
  BY <1>0, <1>1 DEF Parts
<1>3. ASSUME NEW u \in Task, NEW a \in Block, <<u, a>> \in B1
      PROVE  /\ a < m /\ a \notin g \ {b} /\ ~Contains(s, a)
             /\ \A v \in Task : <<v, a>> \in B1 => v = u
  <2>1. CASE <<u, a>> \in B
    BY <2>1, <1>0, <1>1, <1>3 DEF Parts
  <2>2. CASE u = t /\ a = b
    BY <2>2, <1>0, <1>1, <1>3
  <2> QED BY <2>1, <2>2, <1>3
<1>4. Parts(s, m, g \ {b}, B1)
  BY <1>0, <1>2, <1>3 DEF Parts
<1> QED BY <1>0, <1>4 DEF PoolParts

LEMMA NewRelState ==
    ASSUME NEW k, PoolState(k), NEW t \in Task, Runnable(k, PoolPlaces(k), t),
           k.call[t] = Idle, NEW p \in MPF, NEW b \in k.given[p],
           \A u \in Task : k.call[u].p = p => k.call[u].op # "del",
           NEW k1, Only(k1, k, {"call", "given"}),
           k1.call = [k.call EXCEPT ![t] = Call("rel", p, b)],
           k1.given = [k.given EXCEPT ![p] = @ \ {b}]
    PROVE  OwnStepped(k1, k)
<1> DEFINE c == Call("rel", p, b)
<1>1. /\ k.call \in [Task -> CallRecord]
      /\ Pools(k) /\ Kernel(k) /\ BlockInv(k) /\ CallInv(k) /\ PutsBlock(k)
      /\ \A q \in MPF : HasWaiter(k, q) => k.mpf[q] = "exists" /\ k.frbcnt[q] = 0
      /\ ~k.klocked[t]
  BY OwnFacts
<1>2. KernelField \cup PoolField \subseteq DOMAIN k /\ b \in Block /\ k.given \in [MPF -> SUBSET Block]
  BY <1>1 DEF Pools, Kernel
<1>3. /\ c \in CallRecord /\ c.op = "rel" /\ c.p = p /\ c.b = b /\ c.at = "lock" /\ "rel" \in Op
  BY <1>2, NewCall DEF Op
<1>4. /\ k1.mpf = k.mpf /\ k1.mpfatr = k.mpfatr /\ k1.locked = k.locked
      /\ k1.frbcnt = k.frbcnt /\ k1.unused = k.unused /\ k1.freelist = k.freelist
      /\ k1.wid = k.wid /\ k1.state = k.state /\ DOMAIN k1 = DOMAIN k
      /\ Only(k1, k, OwnField)
  BY <1>2 DEF Only, OwnField, PoolField, KernelField
<1>5. k1.call[t] = c /\ \A u \in Task \ {t} : k1.call[u] = k.call[u]
  BY <1>1
<1>6. k1.given \in [MPF -> SUBSET Block] /\ k1.given[p] = k.given[p] \ {b}
      /\ \A q \in MPF \ {p} : k1.given[q] = k.given[q]
  BY <1>2
<1> HIDE DEF c
<1>7. Pools(k1)
  <2>1. k1.call \in [Task -> CallRecord]
    BY <1>1, <1>3 DEF c
  <2> QED BY <2>1, <1>1, <1>2, <1>4, <1>6 DEF Pools
<1>8. OwnCall(k1, k, t) /\ OwnPool(k1, k)
  BY <1>1, <1>3, <1>4, <1>5 DEF OwnCall, OwnPool
<1>9. PutsBlock(k1)
  <2>1. \A q : HasWaiter(k1, q) <=> HasWaiter(k, q)
    BY <1>4 DEF HasWaiter, WaitsFor
  <2>2. ASSUME NEW u \in Task, k1.call[u].at = "put"
        PROVE  k1.call[u].op = "rel" /\ k1.mpf[k1.call[u].p] = "exists"
               /\ ~HasWaiter(k, k1.call[u].p)
    <3>1. u # t
      BY <2>2, <1>3, <1>5
    <3> QED BY <3>1, <2>2, <1>1, <1>4, <1>5 DEF PutsBlock
  <2> QED BY <2>1, <2>2 DEF PutsBlock
<1>10. k.mpf[p] = "exists"
  BY <1>1 DEF BlockInv, HasNone
<1>11. BlockInv(k1)
  <2> DEFINE s == k.freelist[p]
             m == k.unused[p]
             g == k.given[p]
             B == BackRel(k, p)
             B1 == BackRel(k1, p)
             n == k.frbcnt[p]
  <2>1. PoolParts(s, m, g, B) /\ Counted(n, s, m) /\ b \in g
    BY <1>10, PartsOf
  <2>2. ASSUME NEW u \in Task, NEW a \in Block, NEW q \in MPF
        PROVE  Back(k1, u, q, a) <=> Back(k, u, q, a) \/ (u = t /\ a = b /\ q = p)
    <3>1. CASE u # t
      BY <3>1, <1>5 DEF Back
    <3>2. CASE u = t
      <4>1. Back(k1, u, q, a) <=> q = p /\ a = b
        BY <3>2, <1>3, <1>5 DEF Back
      <4>2. ~Back(k, u, q, a)
        BY <3>2, PoolHeads, IdleCall DEF Back
      <4> QED BY <3>2, <4>1, <4>2
    <3> QED BY <3>1, <3>2
  <2>3. \A u \in Task, a \in Block : /\ <<u, a>> \in B <=> Back(k, u, p, a)
                                     /\ <<u, a>> \in B1 <=> Back(k1, u, p, a)
    BY BackPair
  <2>4. \A a \in Block : ~Back(k, t, p, a)
    BY PoolHeads, IdleCall DEF Back
  <2> HIDE DEF s, m, g, B, B1, n
  <2>5. \A u \in Task, a \in Block :
           <<u, a>> \in B1 <=> <<u, a>> \in B \/ (u = t /\ a = b)
    BY <2>2, <2>3
  <2>6. \A a \in Block : <<t, a>> \notin B
    BY <2>3, <2>4
  <2>7. PoolParts(s, m, g \ {b}, B1)
    BY <2>1, <2>5, <2>6, GiveParts
  <2>8. Partition(k1, p)
    <3>1. Parts(s, m, g \ {b}, B1) /\ n = Unfree(s, m)
      BY <2>1, <2>7 DEF PoolParts, Counted
    <3> QED BY <3>1, <1>4, <1>6, PartitionParts DEF s, m, g, B1, n
  <2>9. OnePool(k1, k, p)
    BY <1>4, <1>6 DEF OnePool
  <2>10. \A u \in Task, q \in MPF \ {p}, a \in Block : Back(k1, u, q, a) <=> Back(k, u, q, a)
    BY <2>2
  <2> QED BY <2>8, <2>9, <2>10, <1>1, <1>4, <1>10, OnePoolBlocks
<1>12. CallInv(k1)
  <2>1. ~Creating(c)
    BY <1>3 DEF Creating
  <2>2. ASSUME NEW u \in Task \ {t}
        PROVE  /\ k.call[u].b # NoBlock => k1.mpf[k.call[u].p] = "exists"
               /\ Creates(k, u) => k1.mpf[k.call[u].p] = "taken"
    BY <1>1, <1>4 DEF CallInv
  <2>3. k1.call = [k.call EXCEPT ![t] = c]
    BY DEF c
  <2>4. c.b # NoBlock => c.op = "rel" /\ k1.mpf[c.p] = "exists"
    BY <1>3, <1>4, <1>10
  <2>5. c.op = "rel" => (c.b # NoBlock <=> c.at # "unlock")
    BY <1>2, <1>3, PoolHeads
  <2>6. ASSUME NEW u \in Task \ {t}, k.call[u].p = c.p
        PROVE  /\ c.op = "rel" => k.call[u].op # "del"
               /\ c.op = "del" => k.call[u].op # "rel"
               /\ ~(Creates(k, u) /\ Creating(c))
    BY <2>1, <2>6, <1>3
  <2>7. CallInv(k) /\ k.call \in [Task -> CallRecord]
    BY <1>1
  <2> QED BY ONLY <2>1, <2>2, <2>3, <2>4, <2>5, <2>6, <2>7, CallChange
<1> QED BY <1>4, <1>7, <1>8, <1>9, <1>11, <1>12, OwnStep DEF OwnStepped

\* A control block is taken out of the free queue.
LEMMA NewCreState ==
    ASSUME NEW k, PoolState(k), NEW t \in Task, Runnable(k, PoolPlaces(k), t),
           k.call[t] = Idle, NEW p \in MPF, k.mpf[p] = "free",
           NEW k1, Only(k1, k, {"call", "mpf"}),
           k1.call = [k.call EXCEPT ![t] = Call("cre", p, NoBlock)],
           k1.mpf = [k.mpf EXCEPT ![p] = "taken"]
    PROVE  OwnStepped(k1, k)
<1> DEFINE c == Call("cre", p, NoBlock)
<1>1. /\ k.call \in [Task -> CallRecord]
      /\ Pools(k) /\ Kernel(k) /\ BlockInv(k) /\ CallInv(k) /\ PutsBlock(k)
      /\ \A q \in MPF : HasWaiter(k, q) => k.mpf[q] = "exists" /\ k.frbcnt[q] = 0
      /\ ~k.klocked[t]
  BY OwnFacts
<1>2. KernelField \cup PoolField \subseteq DOMAIN k
      /\ k.mpf \in [MPF -> {"free", "taken", "exists"}]
  BY <1>1 DEF Pools, Kernel
<1>3. /\ c \in CallRecord /\ c.op = "cre" /\ c.p = p /\ c.b = NoBlock /\ c.at = "lock"
      /\ "cre" \in Op
  BY NewCall DEF Op
<1>4. /\ k1.mpfatr = k.mpfatr /\ k1.locked = k.locked /\ k1.given = k.given
      /\ k1.frbcnt = k.frbcnt /\ k1.unused = k.unused /\ k1.freelist = k.freelist
      /\ k1.wid = k.wid /\ k1.state = k.state /\ DOMAIN k1 = DOMAIN k
      /\ Only(k1, k, OwnField)
  BY <1>2 DEF Only, OwnField, PoolField, KernelField
<1>5. k1.call[t] = c /\ \A u \in Task \ {t} : k1.call[u] = k.call[u]
  BY <1>1
<1>6. k1.mpf \in [MPF -> {"free", "taken", "exists"}] /\ k1.mpf[p] = "taken"
      /\ \A q \in MPF \ {p} : k1.mpf[q] = k.mpf[q]
  BY <1>2
<1> HIDE DEF c
<1>7. Pools(k1)
  <2>1. k1.call \in [Task -> CallRecord]
    BY <1>1, <1>3 DEF c
  <2> QED BY <2>1, <1>1, <1>2, <1>4, <1>6 DEF Pools
<1>8. OwnCall(k1, k, t) /\ OwnPool(k1, k)
  BY <1>1, <1>3, <1>4, <1>5, <1>6 DEF OwnCall, OwnPool
<1>9. PutsBlock(k1)
  <2>1. \A q : HasWaiter(k1, q) <=> HasWaiter(k, q)
    BY <1>4 DEF HasWaiter, WaitsFor
  <2>2. ASSUME NEW u \in Task, k1.call[u].at = "put"
        PROVE  k1.call[u].op = "rel" /\ k1.mpf[k1.call[u].p] = "exists"
               /\ ~HasWaiter(k, k1.call[u].p)
    <3>1. u # t
      BY <2>2, <1>3, <1>5
    <3>2. k.call[u].at = "put" /\ k1.call[u] = k.call[u]
      BY <3>1, <2>2, <1>5
    <3>3. k.call[u] # Idle /\ k.call[u].p \in MPF
      BY <3>2, IdleCall, OwnFacts
    <3>4. k.call[u].op = "rel" /\ k.mpf[k.call[u].p] = "exists" /\ ~HasWaiter(k, k.call[u].p)
      BY <3>2, <1>1 DEF PutsBlock
    <3>5. k1.mpf[k.call[u].p] = k.mpf[k.call[u].p]
      BY <3>3, <3>4, <1>6
    <3> QED BY <3>2, <3>4, <3>5
  <2> QED BY <2>1, <2>2 DEF PutsBlock
<1>10. BlockInv(k1)
  <2>1. \A q \in MPF : k1.mpf[q] = "exists" <=> k.mpf[q] = "exists"
    BY <1>6
  <2>2. ASSUME NEW u \in Task, NEW q \in MPF, NEW a \in Block
        PROVE  Back(k1, u, q, a) <=> Back(k, u, q, a)
    <3>1. CASE u # t
      BY <3>1, <1>5 DEF Back
    <3>2. CASE u = t
      BY <3>2, <1>3, <1>5, PoolHeads, IdleCall DEF Back
    <3> QED BY <3>1, <3>2
  <2> QED BY <2>1, <2>2, <1>1, <1>4, SameBlocks
<1>11. CallInv(k1)
  <2>1. ASSUME NEW u \in Task \ {t}
        PROVE  /\ k.call[u].b # NoBlock => k1.mpf[k.call[u].p] = "exists"
               /\ Creates(k, u) => k1.mpf[k.call[u].p] = "taken"
               /\ k.call[u].p = p => ~Creates(k, u)
    <3>1. /\ k.call[u].b # NoBlock => k.mpf[k.call[u].p] = "exists"
          /\ Creates(k, u) => k.mpf[k.call[u].p] = "taken"
      BY <1>1 DEF CallInv
    <3>2. k.call[u].b # NoBlock \/ Creates(k, u) => k.call[u].p \in MPF
      <4>1. k.call[u] # Idle => k.call[u].p \in MPF
        BY OwnFacts
      <4> QED BY <4>1, IdleCall DEF Creates
    <3> QED BY <3>1, <3>2, <1>6
  <2>2. k1.call = [k.call EXCEPT ![t] = c]
    BY DEF c
  <2>3. c.b = NoBlock /\ c.op # "rel" /\ c.op # "del" /\ k1.mpf[c.p] = "taken" /\ c.p = p
    BY <1>3, <1>6
  <2>4. CallInv(k) /\ k.call \in [Task -> CallRecord]
    BY <1>1
  <2> QED BY ONLY <2>1, <2>2, <2>3, <2>4, CallChange
<1> QED BY <1>4, <1>7, <1>8, <1>9, <1>10, <1>11, OwnStep DEF OwnStepped

\* The lock is tried at the beginning of a call and at each retry.
LEMMA LockCallState ==
    ASSUME NEW k, PoolState(k), NEW t \in Task, Runnable(k, PoolPlaces(k), t),
           k.call[t].op \in Op, k.call[t].at = "lock", NEW k1, Attempted(k1, k, t),
           NEW k2, IF k1.klocked[t] THEN k2 = [k1 EXCEPT !.call[t].at = "body"] ELSE k2 = k1
    PROVE  PoolState(k2)
<1>1. /\ PoolState(k1) /\ k1.call = k.call
      /\ k1.klocked[t] => Runnable(k1, PoolPlaces(k1), t)
  BY DEF Attempted
<1>2. CASE ~k1.klocked[t]
  BY <1>1, <1>2
<1>3. CASE k1.klocked[t]
  <2> DEFINE c0 == k1.call[t]
             c == [c0 EXCEPT !.at = "body"]
  <2>1. /\ c0 \in CallRecord /\ k1.call \in [Task -> CallRecord] /\ CallInv(k1) /\ Pools(k1)
        /\ c0 # Idle
    BY <1>1, OwnFacts, IdleCall
  <2>2. c0.op \in Op /\ c0.p \in MPF /\ c0.at = "lock"
    BY <2>1, <1>1, OwnFacts
  <2>3. c \in CallRecord /\ c.op = c0.op /\ c.p = c0.p /\ c.b = c0.b /\ c.at = "body"
    BY <2>1, CallAt DEF At
  <2>4. Only(k2, k1, {"call"}) /\ k2.call = [k1.call EXCEPT ![t] = c]
    BY <1>3, <2>1 DEF Pools, PoolField, Only
  <2>5. c0.b # NoBlock => c0.op = "rel"
    BY <2>1 DEF CallInv
  <2>6. c0.op = "rel" => c0.b # NoBlock
    BY <2>1, <2>2 DEF CallInv
  <2>7. Creating(c) => Creates(k1, t)
    BY <2>2, <2>3 DEF Creating, Creates
  <2> HIDE DEF c
  <2>8. OwnStepped(k2, k1)
    BY ONLY <1>1, <1>3, <2>2, <2>3, <2>4, <2>5, <2>6, <2>7, CallStep
  <2> QED BY <2>8 DEF OwnStepped
<1> QED BY <1>2, <1>3

(***************************************************************************)
(* The lock is released.                                                   *)
(***************************************************************************)
\* The tasks in the queue of a lock are those that wait for it.
LEMMA LockQueuePlaces ==
    ASSUME NEW k, Steady(k, PoolPlaces(k)), WaitInv(k),
           \A u \in Task : k.klockwait[u] => k.state[u] = "READY" /\ k.call[u].p \in MPF
    PROVE  \A p \in MPF, u \in Task :
              /\ InRing(k.que[LockQ[p]], u) <=> k.klockwait[u] /\ k.call[u].p = p
              /\ k.klockwait[u] => PlaceOfTask(k, u) = {LockQ[k.call[u].p]}
<1> SUFFICES ASSUME NEW p \in MPF, NEW u \in Task
             PROVE  /\ InRing(k.que[LockQ[p]], u) <=> k.klockwait[u] /\ k.call[u].p = p
                    /\ k.klockwait[u] => PlaceOfTask(k, u) = {LockQ[k.call[u].p]}
  OBVIOUS
<1> DEFINE h == LockQ[p]
<1>1. /\ h \in OtherHead /\ h \in QueHead /\ h \notin Pri /\ h \notin MPF /\ h # FreeTcb
      /\ k.priority[u] \in Pri
  BY PoolHeads, OtherHeads DEF Steady, Ready, Kernel
<1>2. InRing(k.que[h], u) <=> h \in PlaceOfTask(k, u)
  BY <1>1 DEF Steady, Ready, Linked, PoolPlaces
<1>3. k.klockwait[u] => PlaceOfTask(k, u) = {LockQ[k.call[u].p]}
  BY ATaskWaits DEF PlaceOfTask
<1>4. h \in PlaceOfTask(k, u) <=> k.klockwait[u] /\ k.call[u].p = p
  <2>1. CASE k.klockwait[u]
    BY <2>1, <1>3, PoolHeads
  <2>2. CASE ~k.klockwait[u] /\ k.state[u] = "READY"
    <3>1. PlaceOfTask(k, u) = {k.priority[u]}
      BY <2>2, ATaskWaits DEF PlaceOfTask
    <3> QED BY <3>1, <2>2, <1>1
  <2>3. CASE ~k.klockwait[u] /\ k.state[u] \in WaitBit
    <3>1. PlaceOfTask(k, u) = {k.wid[u]} /\ k.wid[u] \in MPF
      BY <2>3, ATaskWaits DEF PlaceOfTask, WaitInv
    <3> QED BY <3>1, <2>3, <1>1
  <2>4. CASE ~k.klockwait[u] /\ k.state[u] \notin WaitBit \cup {"READY"}
    <3>1. PlaceOfTask(k, u) \subseteq {FreeTcb}
      BY <2>4 DEF PlaceOfTask
    <3> QED BY <3>1, <2>4, <1>1
  <2> QED BY <2>1, <2>2, <2>3, <2>4
<1> QED BY <1>2, <1>3, <1>4

\* What LockInv says of one task.
HoldsFair(k, u) ==
    /\ k.call[u] = Idle \/ (k.call[u].op \in Op /\ k.call[u].p \in MPF)
    /\ k.klocked[u] => k.call[u] # Idle /\ k.locked[k.call[u].p]
    /\ k.call[u].at # "lock" => k.klocked[u]
    /\ k.klockwait[u] => /\ k.state[u] = "READY" /\ ~k.klocked[u]
                         /\ k.call[u] # Idle /\ k.locked[k.call[u].p]
    /\ k.state[u] \notin {"READY", "SUSPEND"} => k.call[u] = Idle

LEMMA LockParting ==
    ASSUME NEW k
    PROVE  LockInv(k) <=>
              /\ \A u \in Task : HoldsFair(k, u)
              /\ \A u, v \in Task :
                    k.klocked[u] /\ k.klocked[v] /\ k.call[u].p = k.call[v].p => u = v
              /\ \A q \in MPF : k.locked[q] => \E u \in Task : k.klocked[u] /\ k.call[u].p = q
  BY DEF LockInv, HoldsFair

\* Task t has ended its call and is about to release the lock of pool p.
Releasing(k, t, p) ==
    /\ Steady(k, PoolPlaces(k)) /\ Others(k)
    /\ k.call[t] = Idle /\ k.klocked[t] /\ ~k.klockwait[t] /\ k.locked[p]
    /\ \A u \in Task \ {t} : HoldsFair(k, u) /\ (k.klocked[u] => k.call[u].p # p)
    /\ \A u, v \in Task \ {t} :
          k.klocked[u] /\ k.klocked[v] /\ k.call[u].p = k.call[v].p => u = v
    /\ \A q \in MPF \ {p} : k.locked[q] =>
          \E u \in Task \ {t} : k.klocked[u] /\ k.call[u].p = q

LEMMA ReleasingFacts ==
    ASSUME NEW k, NEW t \in Task, NEW p \in MPF, Releasing(k, t, p)
    PROVE  /\ Steady(k, PoolPlaces(k)) /\ Ready(k, PoolPlaces(k)) /\ Others(k) /\ Kernel(k)
           /\ Pools(k) /\ KernelField \cup PoolField \subseteq DOMAIN k
           /\ \A q \in MPF, u \in Task :
              /\ InRing(k.que[LockQ[q]], u) <=> k.klockwait[u] /\ k.call[u].p = q
              /\ k.klockwait[u] => PlaceOfTask(k, u) = {LockQ[k.call[u].p]}
           /\ k.klocked \in [Task -> BOOLEAN] /\ k.klockwait \in [Task -> BOOLEAN]
           /\ k.locked \in [MPF -> BOOLEAN]
<1>1. /\ Steady(k, PoolPlaces(k)) /\ Ready(k, PoolPlaces(k)) /\ Others(k) /\ Kernel(k)
      /\ Pools(k) /\ KernelField \cup PoolField \subseteq DOMAIN k
  BY DEF Releasing, Steady, Ready, Others, Kernel, Pools
<1>2. ASSUME NEW u \in Task, k.klockwait[u]
      PROVE  k.state[u] = "READY" /\ k.call[u].p \in MPF
  BY <1>2 DEF Releasing, HoldsFair
<1>3. WaitInv(k)
  BY <1>1 DEF Others
<1>4. \A q \in MPF, u \in Task :
         /\ InRing(k.que[LockQ[q]], u) <=> k.klockwait[u] /\ k.call[u].p = q
         /\ k.klockwait[u] => PlaceOfTask(k, u) = {LockQ[k.call[u].p]}
  BY <1>1, <1>2, <1>3, LockQueuePlaces
<1> QED BY <1>1, <1>4 DEF Kernel, Pools

LEMMA ReleaseFreeState ==
    ASSUME NEW k, NEW t \in Task, NEW p \in MPF, Releasing(k, t, p),
           k.que[LockQ[p]] = <<>>, NEW k1, UnlockedFree(k1, k, PoolPlaces(k), t, p)
    PROVE  PoolState(k1)
<1> DEFINE r == PoolPlaces(k)
<1>1. /\ Steady(k, r) /\ Others(k) /\ Kernel(k)
      /\ \A u \in Task : InRing(k.que[LockQ[p]], u) <=> k.klockwait[u] /\ k.call[u].p = p
      /\ k.klocked \in [Task -> BOOLEAN] /\ k.locked \in [MPF -> BOOLEAN]
  BY ReleasingFacts
<1>2. /\ Steady(k1, r) /\ Only(k1, k, LockField)
      /\ k1.klocked = [k.klocked EXCEPT ![t] = FALSE] /\ k1.klockwait = k.klockwait
      /\ k1.locked = [k.locked EXCEPT ![p] = FALSE] /\ k1.que = k.que
  BY DEF UnlockedFree
<1>3. /\ k1.locked \in [MPF -> BOOLEAN] /\ ~k1.locked[p]
      /\ \A q \in MPF \ {p} : k1.locked[q] = k.locked[q]
      /\ ~k1.klocked[t] /\ \A u \in Task \ {t} : k1.klocked[u] = k.klocked[u]
  BY <1>1, <1>2
<1>4. /\ Others(k1) /\ k1.state = k.state /\ k1.priority = k.priority /\ k1.wid = k.wid
      /\ k1.call = k.call
  BY ONLY <1>1, <1>2, <1>3, LockFrame
<1>5. PoolPlaces(k1) = r
  <2>1. \A u \in Task : PlaceOfTask(k1, u) = PlaceOfTask(k, u)
    BY <1>2, <1>4, SamePlace
  <2> QED BY <2>1 DEF PoolPlaces
<1>6. ASSUME NEW u \in Task PROVE HoldsFair(k1, u)
  <2>1. CASE u = t
    BY <2>1, <1>2, <1>3, <1>4, IdleCall DEF HoldsFair, Releasing
  <2>2. CASE u # t
    <3>1. HoldsFair(k, u) /\ (k.klocked[u] => k.call[u].p # p)
      BY <2>2 DEF Releasing
    <3>2. k.klockwait[u] => k.call[u].p # p
      <4>1. ~InRing(k.que[LockQ[p]], u)
        BY DEF InRing
      <4> QED BY <4>1, <1>1
    <3>3. k.klocked[u] \/ k.klockwait[u] => k.call[u].p \in MPF
      BY <3>1 DEF HoldsFair
    <3>4. k1.klocked[u] = k.klocked[u] /\ k1.klockwait[u] = k.klockwait[u]
      BY <2>2, <1>2, <1>3
    <3>5. k.klocked[u] \/ k.klockwait[u] => k1.locked[k.call[u].p] = k.locked[k.call[u].p]
      BY <3>1, <3>2, <3>3, <1>3
    <3> QED BY <3>1, <3>4, <3>5, <1>4 DEF HoldsFair
  <2> QED BY <2>1, <2>2
<1>7. ASSUME NEW u \in Task, NEW v \in Task,
             k1.klocked[u] /\ k1.klocked[v] /\ k1.call[u].p = k1.call[v].p
      PROVE  u = v
  BY <1>3, <1>4, <1>7 DEF Releasing
<1>8. ASSUME NEW q \in MPF, k1.locked[q]
      PROVE  \E u \in Task : k1.klocked[u] /\ k1.call[u].p = q
  BY <1>3, <1>4, <1>8 DEF Releasing
<1>9. LockInv(k1)
  BY <1>6, <1>7, <1>8, LockParting
<1> QED BY <1>2, <1>4, <1>5, <1>9, PoolParting

LEMMA ReleaseToState ==
    ASSUME NEW k, NEW t \in Task, NEW p \in MPF, Releasing(k, t, p),
           k.que[LockQ[p]] # <<>>, NEW v \in Task, v = Head(k.que[LockQ[p]]),
           k.klockwait[v], k.call[v].p = p,
           NEW k1, UnlockedTo(k1, k, PoolPlaces(k), t, p, v)
    PROVE  PoolState(k1)
<1> DEFINE r == PoolPlaces(k)
<1>1. /\ Steady(k, r) /\ Others(k) /\ Kernel(k)
      /\ k.klocked \in [Task -> BOOLEAN] /\ k.klockwait \in [Task -> BOOLEAN]
      /\ k.locked \in [MPF -> BOOLEAN]
  BY ReleasingFacts
<1>2. /\ Steady(k1, [r EXCEPT ![v] = {k.priority[v]}]) /\ Only(k1, k, LockField)
      /\ k1.klocked = [[k.klocked EXCEPT ![t] = FALSE] EXCEPT ![v] = TRUE]
      /\ k1.klockwait = [k.klockwait EXCEPT ![v] = FALSE]
      /\ k1.locked = k.locked
      /\ \A h \in OtherHead \ {LockQ[p]} : k1.que[h] = k.que[h]
  BY DEF UnlockedTo
<1>3. v # t /\ HoldsFair(k, v)
  BY DEF Releasing
<1>4. /\ k1.klocked[v] /\ ~k1.klocked[t] /\ \A u \in Task \ {t, v} : k1.klocked[u] = k.klocked[u]
      /\ ~k1.klockwait[v] /\ \A u \in Task \ {v} : k1.klockwait[u] = k.klockwait[u]
      /\ k1.locked \in [MPF -> BOOLEAN]
  <2>1. DOMAIN k.klocked = Task /\ DOMAIN k.klockwait = Task
    BY <1>1
  <2>2. k1.klocked[v] /\ ~k1.klocked[t] /\ \A u \in Task \ {t, v} : k1.klocked[u] = k.klocked[u]
    BY ONLY <2>1, <1>2, <1>3
  <2>3. ~k1.klockwait[v] /\ \A u \in Task \ {v} : k1.klockwait[u] = k.klockwait[u]
    BY ONLY <2>1, <1>2, <1>3
  <2>4. k1.locked \in [MPF -> BOOLEAN]
    BY ONLY <1>1, <1>2
  <2> QED BY ONLY <2>2, <2>3, <2>4
<1>5. \A q \in MPF : k1.que[q] = k.que[q]
  BY <1>2, PoolHeads
<1>6. /\ Others(k1) /\ k1.state = k.state /\ k1.priority = k.priority /\ k1.wid = k.wid
      /\ k1.call = k.call
  BY ONLY <1>1, <1>2, <1>4, <1>5, LockFrame
<1>7. PoolPlaces(k1) = [r EXCEPT ![v] = {k.priority[v]}]
  <2>1. \A u \in Task \ {v} : PlaceOfTask(k1, u) = PlaceOfTask(k, u)
    BY <1>4, <1>6, SamePlace
  <2>2. PlaceOfTask(k1, v) = {k.priority[v]}
    <3>1. k1.state[v] = "READY" /\ k1.priority[v] = k.priority[v]
      BY <1>3, <1>6 DEF HoldsFair
    <3>2. (IF k1.klockwait[v] THEN LockQ[k1.call[v].p] ELSE k1.priority[v]) = k.priority[v]
      BY <3>1, <1>4
    <3> QED BY <3>1, <3>2, ATaskWaits DEF PlaceOfTask
  <2>3. v \in Task
    OBVIOUS
  <2> QED BY ONLY <2>1, <2>2, <2>3, OnePlace DEF r
<1>8. ASSUME NEW u \in Task PROVE HoldsFair(k1, u)
  <2>1. CASE u = t
    BY <2>1, <1>3, <1>4, <1>6, IdleCall DEF HoldsFair, Releasing
  <2>2. CASE u = v
    BY <2>2, <1>2, <1>3, <1>4, <1>6 DEF HoldsFair
  <2>3. CASE u # t /\ u # v
    <3>1. HoldsFair(k, u)
      BY <2>3 DEF Releasing
    <3>2. k1.klocked[u] = k.klocked[u] /\ k1.klockwait[u] = k.klockwait[u]
      BY <2>3, <1>4
    <3> QED BY <3>1, <3>2, <1>2, <1>6 DEF HoldsFair
  <2> QED BY <2>1, <2>2, <2>3
<1>9. ASSUME NEW u \in Task, NEW w \in Task,
             k1.klocked[u] /\ k1.klocked[w] /\ k1.call[u].p = k1.call[w].p
      PROVE  u = w
  <2>1. u # t /\ w # t
    BY <1>4, <1>9
  <2>2. CASE u # v /\ w # v
    BY <2>1, <2>2, <1>4, <1>6, <1>9 DEF Releasing
  <2>3. ASSUME NEW x \in Task, x # t, x # v, k1.klocked[x] PROVE k1.call[x].p # p
    BY <2>3, <1>4, <1>6 DEF Releasing
  <2>4. CASE u = v \/ w = v
    BY <2>1, <2>3, <2>4, <1>6, <1>9
  <2> QED BY <2>2, <2>4
<1>10. ASSUME NEW q \in MPF, k1.locked[q]
       PROVE  \E u \in Task : k1.klocked[u] /\ k1.call[u].p = q
  <2>1. CASE q = p
    BY <2>1, <1>4, <1>6
  <2>2. CASE q # p
    <3>1. PICK u \in Task \ {t} : k.klocked[u] /\ k.call[u].p = q
      BY <2>2, <1>2, <1>10 DEF Releasing
    <3>2. u # v
      BY <3>1, <1>3 DEF HoldsFair
    <3> QED BY <3>1, <3>2, <1>4, <1>6
  <2> QED BY <2>1, <2>2
<1>11. LockInv(k1)
  BY <1>8, <1>9, <1>10, LockParting
<1> QED BY <1>2, <1>6, <1>7, <1>11, PoolParting

\* knl_UnlockOBJ.
LEMMA UnlockState ==
    ASSUME NEW k, NEW t \in Task, NEW p \in MPF, Releasing(k, t, p)
    PROVE  PoolState(UnlockOBJ(k, t, p))
<1> DEFINE r == PoolPlaces(k)
           s == k.que[LockQ[p]]
<1>1. /\ Ready(k, r) /\ "locked" \in DOMAIN k
      /\ \A u \in Task :
            /\ InRing(s, u) <=> k.klockwait[u] /\ k.call[u].p = p
            /\ k.klockwait[u] => r[u] = {LockQ[k.call[u].p]}
  <2>1. /\ Ready(k, r) /\ PoolField \subseteq DOMAIN k
        /\ \A u \in Task :
              /\ InRing(s, u) <=> k.klockwait[u] /\ k.call[u].p = p
              /\ k.klockwait[u] => PlaceOfTask(k, u) = {LockQ[k.call[u].p]}
    BY ReleasingFacts
  <2> QED BY <2>1 DEF PoolPlaces, PoolField
<1>2. CASE s = <<>>
  <2>1. UnlockedFree(UnlockOBJ(k, t, p), k, r, t, p)
    BY <1>1, <1>2, UnlockFree
  <2> QED BY <2>1, <1>2, ReleaseFreeState
<1>3. CASE s # <<>>
  <2> DEFINE v == Head(s)
  <2>1. v \in Task /\ InRing(s, v)
    <3>1. s \in Seq(Task) /\ IsInjective(s)
      BY <1>1, PoolHeads, OtherHeads DEF Ready, Kernel, Rings, Linked
    <3> HIDE DEF s
    <3> QED BY <3>1, <1>3, TailRing
  <2>2. k.klockwait[v] /\ k.call[v].p = p /\ r[v] = {LockQ[p]}
    BY <2>1, <1>1
  <2> HIDE DEF r
  <2>3. UnlockedTo(UnlockOBJ(k, t, p), k, r, t, p, v)
    BY <1>1, <1>3, <2>2, UnlockTo
  <2> QED BY <2>1, <2>2, <2>3, <1>3, ReleaseToState DEF r
<1> QED BY <1>2, <1>3

\* The caller's call is over, and it has no block to give back.
LEMMA EndedCall ==
    ASSUME NEW k, BlockInv(k), CallInv(k), k.call \in [Task -> CallRecord], NEW t \in Task,
           k.call[t].b = NoBlock, NEW k1,
           k1.call = [k.call EXCEPT ![t] = Idle], k1.mpf = k.mpf, k1.frbcnt = k.frbcnt,
           k1.unused = k.unused, k1.freelist = k.freelist, k1.given = k.given
    PROVE  BlockInv(k1) /\ CallInv(k1)
<1>1. /\ Idle.b = NoBlock /\ Idle.op # "rel" /\ Idle.op # "del" /\ ~Creating(Idle)
  BY IdleCall DEF Creating, Op
<1>2. k1.call[t] = Idle /\ \A u \in Task \ {t} : k1.call[u] = k.call[u]
  OBVIOUS
<1>3. ASSUME NEW u \in Task, NEW p \in MPF, NEW b \in Block
      PROVE  Back(k1, u, p, b) <=> Back(k, u, p, b)
  <2>1. CASE u = t
    BY <2>1, <1>1, <1>2, PoolHeads DEF Back
  <2>2. CASE u # t
    BY <2>2, <1>2 DEF Back
  <2> QED BY <2>1, <2>2
<1>4. BlockInv(k1)
  BY <1>3, SameBlocks
<1>5. ASSUME NEW u \in Task \ {t}
      PROVE  /\ k.call[u].b # NoBlock => k1.mpf[k.call[u].p] = "exists"
             /\ Creates(k, u) => k1.mpf[k.call[u].p] = "taken"
  BY DEF CallInv
<1>6. CallInv(k1)
  BY ONLY <1>1, <1>5, CallInv(k), k.call \in [Task -> CallRecord], t \in Task,
     k1.call = [k.call EXCEPT ![t] = Idle], CallChange
<1> QED BY <1>4, <1>6

\* What LockInv says of a state that is about to release a lock follows from
\* what it said of the state before the call of t ended.
LEMMA EndedLocks ==
    ASSUME NEW k, LockInv(k), NEW t \in Task, k.call[t].at # "lock", NEW p, p = k.call[t].p,
           NEW k1, k1.klocked = k.klocked, k1.locked = k.locked,
           k1.call \in [Task -> CallRecord], k1.call[t] = Idle,
           \A u \in Task \ {t} : /\ k1.call[u] = k.call[u] /\ k1.state[u] = k.state[u]
                                 /\ k1.klockwait[u] = k.klockwait[u],
           ~k1.klockwait[t], Steady(k1, PoolPlaces(k1)), Others(k1)
    PROVE  p \in MPF /\ Releasing(k1, t, p)
<1>1. /\ \A u \in Task : HoldsFair(k, u)
      /\ \A u, v \in Task :
            k.klocked[u] /\ k.klocked[v] /\ k.call[u].p = k.call[v].p => u = v
      /\ \A q \in MPF : k.locked[q] => \E u \in Task : k.klocked[u] /\ k.call[u].p = q
  BY LockParting
<1>2. k.klocked[t] /\ k.locked[p] /\ p \in MPF
  BY <1>1, IdleCall DEF HoldsFair
<1>3. ASSUME NEW u \in Task \ {t}
      PROVE  HoldsFair(k1, u) /\ (k1.klocked[u] => k1.call[u].p # p)
  <2>1. HoldsFair(k1, u)
    BY <1>1 DEF HoldsFair
  <2>2. k1.klocked[u] => k1.call[u].p # p
    BY <1>1, <1>2
  <2> QED BY <2>1, <2>2
<1>4. ASSUME NEW u \in Task \ {t}, NEW v \in Task \ {t},
             k1.klocked[u] /\ k1.klocked[v] /\ k1.call[u].p = k1.call[v].p
      PROVE  u = v
  BY <1>1, <1>4
<1>5. ASSUME NEW q \in MPF \ {p}, k1.locked[q]
      PROVE  \E u \in Task \ {t} : k1.klocked[u] /\ k1.call[u].p = q
  <2>1. PICK u \in Task : k.klocked[u] /\ k.call[u].p = q
    BY <1>1, <1>5
  <2> QED BY <2>1
<1> QED BY <1>2, <1>3, <1>4, <1>5 DEF Releasing

\* A call ends without a wait.
LEMMA EndCallState ==
    ASSUME NEW k, PoolState(k), NEW t \in Task, Runnable(k, PoolPlaces(k), t),
           k.call[t].at # "lock", k.call[t].b = NoBlock, NEW p, p = k.call[t].p,
           NEW k1, Only(k1, k, {"call"}), k1.call = [k.call EXCEPT ![t] = Idle]
    PROVE  p \in MPF /\ Releasing(k1, t, p)
<1>1. /\ Steady(k, PoolPlaces(k)) /\ Pools(k) /\ LockInv(k) /\ WaitInv(k) /\ Sorted(k)
      /\ BlockInv(k) /\ CallInv(k) /\ k.call \in [Task -> CallRecord] /\ Kernel(k)
      /\ k.state[t] = "READY" /\ ~k.klockwait[t]
  BY OwnFacts, PlaceCases DEF PoolState
<1>2. /\ k1.state = k.state /\ k1.klocked = k.klocked /\ k1.klockwait = k.klockwait
      /\ k1.wspec = k.wspec /\ k1.wtmeb = k.wtmeb /\ k1.que = k.que
      /\ k1.priority = k.priority /\ k1.wid = k.wid /\ k1.locked = k.locked
      /\ k1.mpf = k.mpf /\ k1.mpfatr = k.mpfatr /\ k1.frbcnt = k.frbcnt
      /\ k1.unused = k.unused /\ k1.freelist = k.freelist /\ k1.given = k.given
      /\ DOMAIN k1 = DOMAIN k
  BY <1>1 DEF Only, Kernel, KernelField, Pools, PoolField
<1>3. /\ k1.call[t] = Idle /\ \A u \in Task \ {t} : k1.call[u] = k.call[u]
      /\ k1.call \in [Task -> CallRecord]
  BY <1>1, IdleCall
<1>4. PoolPlaces(k1) = PoolPlaces(k)
  <2>1. ASSUME NEW u \in Task PROVE PlaceOfTask(k1, u) = PlaceOfTask(k, u)
    <3>1. CASE u # t
      BY <3>1, <1>2, <1>3, SamePlace
    <3>2. CASE u = t
      BY <3>2, <1>1, <1>2, ATaskWaits DEF PlaceOfTask
    <3> QED BY <3>1, <3>2
  <2> QED BY <2>1 DEF PoolPlaces
<1>5. Steady(k1, PoolPlaces(k1))
  <2>1. {"call"} \cap {"que", "bitmap", "top_priority", "klocktsk", "schedtsk",
                       "priority", "ipriority", "klocked", "klockwait"} = {}
    OBVIOUS
  <2>2. k1.state \in [Task -> TSTAT] /\ k1.wspec \in [Task -> WSpec]
        /\ k1.wtmeb \in [Task -> BOOLEAN]
    BY <1>1, <1>2 DEF Kernel
  <2> QED BY <1>1, <1>4, <2>1, <2>2, FieldsChange
<1>6. BlockInv(k1) /\ CallInv(k1)
  BY ONLY <1>1, <1>2, t \in Task, k.call[t].b = NoBlock,
     k1.call = [k.call EXCEPT ![t] = Idle], EndedCall
<1>7. WaitInv(k1)
  BY <1>1, <1>2, <1>3, IdleCall DEF WaitInv, WaitsFor
<1>8. Pools(k1) /\ Sorted(k1)
  BY <1>1, <1>2, <1>3 DEF Pools, Sorted
<1>9. Others(k1)
  BY <1>6, <1>7, <1>8 DEF Others
<1>10. \A u \in Task \ {t} : /\ k1.call[u] = k.call[u] /\ k1.state[u] = k.state[u]
                             /\ k1.klockwait[u] = k.klockwait[u]
  BY <1>2, <1>3
<1> QED BY <1>1, <1>2, <1>3, <1>5, <1>9, <1>10, EndedLocks

\* Task t waits for a block of pool p, and its call is over.
BlockWait == ReadyQue \cup {"klockwait", "schedtsk", "state", "wtmeb", "wid", "wercd", "wspec",
                            "call"}

BlockAwaited(k1, k, t, p) ==
    /\ Steady(k1, [PoolPlaces(k) EXCEPT ![t] = {p}])
    /\ Only(k1, k, BlockWait)
    /\ k1.state = [k.state EXCEPT ![t] = "WAIT"]
    /\ k1.klockwait = [k.klockwait EXCEPT ![t] = FALSE]
    /\ \A u \in Task \ {t} : k1.wtmeb[u] = k.wtmeb[u]
    /\ k1.wid = [k.wid EXCEPT ![t] = p]
    /\ k1.wspec = [k.wspec EXCEPT ![t] = IF k.mpfatr[p] = "TPRI" THEN "mpf_tpri"
                                         ELSE "mpf_tfifo"]
    /\ k1.call = [k.call EXCEPT ![t] = Idle]
    /\ \A h \in OtherHead \ {p} : k1.que[h] = Unlink(k.que[h], t)
    /\ k.mpfatr[p] = "TPRI" /\ Ordered(Unlink(k.que[p], t), k.priority)
          => Ordered(k1.que[p], k.priority)

\* The caller enters the queue of its pool.
Enters(k1, k, t, h, atr) ==
    k1 = [k EXCEPT !.que = IF atr = "TPRI" THEN QueInsertTpri(k, t, h) ELSE QueInsert(@, t, h)]

Entered(k1, k, r, t, h, atr) ==
    /\ Steady(k1, [r EXCEPT ![t] = {h}])
    /\ Only(k1, k, {"que"})
    /\ \A g \in OtherHead \ {h} : k1.que[g] = k.que[g]
    /\ atr = "TPRI" /\ Ordered(k.que[h], k.priority) => Ordered(k1.que[h], k.priority)

LEMMA EnterPoolQueue ==
    ASSUME NEW k, NEW r, Steady(k, r), NEW t \in Task, r[t] = {}, NEW h \in OtherHead,
           NEW atr, NEW k1, Enters(k1, k, t, h, atr)
    PROVE  Entered(k1, k, r, t, h, atr)
<1>1. CASE atr = "TPRI"
  <2>1. k1 = [k EXCEPT !.que = QueInsertTpri(k, t, h)]
    BY <1>1 DEF Enters
  <2>2. QueuedByPriority(k1, k, r, t, h)
    BY ONLY Steady(k, r), t \in Task, r[t] = {}, h \in OtherHead, <2>1, QueueByPrioritySteady
  <2> QED BY <2>2, <1>1, OtherHeads DEF QueuedByPriority, Entered
<1>2. CASE atr # "TPRI"
  <2>1. k1 = [k EXCEPT !.que = QueInsert(@, t, h)]
    BY <1>2 DEF Enters
  <2>2. QueuedLast(k1, k, r, t, h)
    BY ONLY Steady(k, r), t \in Task, r[t] = {}, h \in OtherHead, <2>1, QueueLastSteady
  <2> QED BY <2>2, <1>2, OtherHeads DEF QueuedLast, Entered
<1> QED BY <1>1, <1>2

\* What the caller waits for is noted before it waits.
Notes(ka, k, t, p, spec) ==
    ka = [k EXCEPT !.wid[t] = p, !.wercd[t] = "E_TMOUT", !.wspec[t] = spec]

Noted(ka, k, t, p, spec) ==
    /\ Steady(ka, PoolPlaces(k)) /\ Only(ka, k, {"wid", "wercd", "wspec"})
    /\ ka.wid = [k.wid EXCEPT ![t] = p] /\ ka.wspec = [k.wspec EXCEPT ![t] = spec]
    /\ ka.state = k.state

LEMMA WaitNoted ==
    ASSUME NEW k, PoolState(k), NEW t \in Task, NEW p \in MPF,
           NEW spec \in {"mpf_tpri", "mpf_tfifo"},
           NEW ka, Notes(ka, k, t, p, spec)
    PROVE  Noted(ka, k, t, p, spec)
<1>1. /\ Steady(k, PoolPlaces(k)) /\ Kernel(k) /\ Pools(k)
      /\ KernelField \cup PoolField \subseteq DOMAIN k
  BY OwnFacts DEF PoolState, Kernel, Pools
<1>2. /\ Only(ka, k, {"wid", "wercd", "wspec"})
      /\ ka.wid = [k.wid EXCEPT ![t] = p] /\ ka.wspec = [k.wspec EXCEPT ![t] = spec]
  BY <1>1 DEF Notes, Only, KernelField, PoolField
<1>3. ka.state = k.state /\ ka.wtmeb = k.wtmeb
  BY <1>1, <1>2 DEF Only, KernelField
<1>4. ka.state \in [Task -> TSTAT] /\ ka.wspec \in [Task -> WSpec]
      /\ ka.wtmeb \in [Task -> BOOLEAN]
  BY <1>1, <1>2, <1>3 DEF Kernel, WSpec
<1>5. {"wid", "wercd", "wspec"} \cap {"que", "bitmap", "top_priority", "klocktsk", "schedtsk",
                                      "priority", "ipriority", "klocked", "klockwait"} = {}
  OBVIOUS
<1>6. Steady(ka, PoolPlaces(k))
  BY ONLY <1>1, <1>2, <1>4, <1>5, FieldsChange
<1> QED BY <1>2, <1>3, <1>6 DEF Noted

LEMMA WaitForBlockState ==
    ASSUME NEW k, PoolState(k), NEW t \in Task, Runnable(k, PoolPlaces(k), t), NEW p \in MPF,
           NEW tmout
    PROVE  BlockAwaited(WaitForBlock(k, t, p, tmout), k, t, p)
<1> DEFINE r == PoolPlaces(k)
           atr == k.mpfatr[p]
           spec == IF atr = "TPRI" THEN "mpf_tpri" ELSE "mpf_tfifo"
           timed == (tmout = "TIME")
           ka == [k EXCEPT !.wid[t] = p, !.wercd[t] = "E_TMOUT", !.wspec[t] = spec]
           kb == MakeWait(ka, t, tmout)
           kq == [kb EXCEPT !.que = IF atr = "TPRI" THEN QueInsertTpri(kb, t, p) ELSE QueInsert(@, t, p)]
           k1 == WaitForBlock(k, t, p, tmout)
           r1 == [r EXCEPT ![t] = {p}]
<1>1. /\ Pools(k) /\ Kernel(k) /\ KernelField \cup PoolField \subseteq DOMAIN k
      /\ k.state[t] = "READY" /\ p \in OtherHead /\ spec \in {"mpf_tpri", "mpf_tfifo"}
      /\ timed \in BOOLEAN /\ r \in Places
  BY OwnFacts, PlaceCases, PoolHeads DEF Kernel, Pools, PoolState, Steady, Ready
<1>2. k1 = [kb EXCEPT !.call[t] = Idle,
                      !.que = IF atr = "TPRI" THEN QueInsertTpri(kb, t, p) ELSE QueInsert(@, t, p)]
  BY DEF WaitForBlock
<1> HIDE DEF spec
<1>3. /\ Steady(ka, r) /\ Only(ka, k, {"wid", "wercd", "wspec"})
      /\ ka.wid = [k.wid EXCEPT ![t] = p] /\ ka.wspec = [k.wspec EXCEPT ![t] = spec]
      /\ ka.state = k.state
  <2>1. Notes(ka, k, t, p, spec)
    BY DEF Notes
  <2> HIDE DEF ka
  <2>2. Noted(ka, k, t, p, spec)
    BY ONLY <1>1, <2>1, PoolState(k), t \in Task, p \in MPF, WaitNoted
  <2> QED BY <2>2 DEF r, Noted
<1> HIDE DEF ka, k1, r
<1>4. MayLeave(ka, r, t) /\ ka.state[t] = "READY"
  <2>1. ka.priority = k.priority /\ k.priority[t] \in r[t]
    BY <1>1, <1>3 DEF Only, KernelField, Runnable, r
  <2> QED BY <2>1, <1>1, <1>3 DEF MayLeave, Runnable
<1> HIDE DEF timed, atr
<1>5. MadeWait(kb, ka, r, t, timed)
  BY <1>1, <1>3, <1>4, MakeWaitSteady DEF timed
<1> HIDE DEF kb
<1>6. /\ Steady(kb, [r EXCEPT ![t] = {}])
      /\ Only(kb, ka, ReadyQue \cup {"klockwait", "schedtsk", "state", "wtmeb"})
      /\ kb.state = [ka.state EXCEPT ![t] = "WAIT"]
      /\ kb.wtmeb = [ka.wtmeb EXCEPT ![t] = timed]
      /\ kb.klockwait = [ka.klockwait EXCEPT ![t] = FALSE]
      /\ \A h \in OtherHead : kb.que[h] = Unlink(ka.que[h], t)
  BY <1>5 DEF MadeWait
<1>7. [r EXCEPT ![t] = {}][t] = {} /\ r1 = [[r EXCEPT ![t] = {}] EXCEPT ![t] = {p}]
  BY <1>1 DEF Places
<1>8. /\ Steady(kq, r1) /\ Only(kq, kb, {"que"})
      /\ \A g \in OtherHead \ {p} : kq.que[g] = kb.que[g]
      /\ atr = "TPRI" /\ Ordered(kb.que[p], kb.priority) => Ordered(kq.que[p], kb.priority)
  <2> DEFINE r0 == [r EXCEPT ![t] = {}]
  <2>1. r0[t] = {} /\ r1 = [r0 EXCEPT ![t] = {p}] /\ Steady(kb, r0)
    BY <1>6, <1>7
  <2>3. Enters(kq, kb, t, p, atr)
    BY DEF Enters
  <2> HIDE DEF r0, r1, kq
  <2>2. Entered(kq, kb, r0, t, p, atr)
    BY ONLY <1>1, <2>1, <2>3, t \in Task, EnterPoolQueue
  <2> QED BY <2>1, <2>2 DEF Entered
<1>9. /\ Only(kb, k, BlockWait) /\ Only(kq, k, BlockWait)
      /\ KernelField \cup PoolField \subseteq DOMAIN kb
      /\ KernelField \cup PoolField \subseteq DOMAIN kq
  <2>1. /\ {"wid", "wercd", "wspec"} \subseteq BlockWait /\ {"que"} \subseteq BlockWait
        /\ ReadyQue \cup {"klockwait", "schedtsk", "state", "wtmeb"} \subseteq BlockWait
    BY DEF BlockWait, ReadyQue
  <2>2. Only(kb, k, BlockWait)
    BY <1>3, <1>6, <2>1, OnlyTrans
  <2>3. Only(kq, k, BlockWait)
    BY <1>8, <2>1, <2>2, OnlyTrans
  <2> QED BY <1>1, <2>2, <2>3 DEF Only
<1>10. Only(k1, kq, {"call"}) /\ k1.call = [kq.call EXCEPT ![t] = Idle] /\ k1.que = kq.que
  BY <1>2, <1>9 DEF Only, KernelField, PoolField
<1> HIDE DEF kq, r1
<1>11. /\ k1.state = kb.state /\ k1.klockwait = kb.klockwait /\ k1.wtmeb = kb.wtmeb
       /\ k1.wid = kb.wid /\ k1.wspec = kb.wspec /\ kq.call = kb.call
       /\ ka.klockwait = k.klockwait /\ ka.wtmeb = k.wtmeb /\ ka.que = k.que
       /\ ka.priority = k.priority /\ ka.call = k.call
       /\ kb.wid = ka.wid /\ kb.wspec = ka.wspec /\ kb.call = ka.call
       /\ kb.priority = ka.priority
       /\ kq.state = kb.state /\ kq.wspec = kb.wspec /\ kq.wtmeb = kb.wtmeb
  <2>1. /\ ka.klockwait = k.klockwait /\ ka.wtmeb = k.wtmeb /\ ka.que = k.que
        /\ ka.priority = k.priority /\ ka.call = k.call /\ DOMAIN ka = DOMAIN k
    BY <1>1, <1>3 DEF Only, KernelField, PoolField
  <2>2. /\ kb.wid = ka.wid /\ kb.wspec = ka.wspec /\ kb.call = ka.call
        /\ kb.priority = ka.priority
    BY <1>1, <2>1, <1>6 DEF Only, KernelField, PoolField, ReadyQue
  <2>3. /\ kq.state = kb.state /\ kq.klockwait = kb.klockwait /\ kq.wtmeb = kb.wtmeb
        /\ kq.wid = kb.wid /\ kq.wspec = kb.wspec /\ kq.call = kb.call
    BY <1>8, <1>9 DEF Only, KernelField, PoolField
  <2>4. /\ k1.state = kq.state /\ k1.klockwait = kq.klockwait /\ k1.wtmeb = kq.wtmeb
        /\ k1.wid = kq.wid /\ k1.wspec = kq.wspec
    BY <1>9, <1>10 DEF Only, KernelField, PoolField
  <2> QED BY <2>1, <2>2, <2>3, <2>4
<1>12. Only(k1, k, BlockWait)
  <2>1. {"call"} \subseteq BlockWait
    BY DEF BlockWait
  <2> QED BY <1>9, <1>10, <2>1, OnlyTrans
<1>13. Steady(k1, r1)
  <2>1. {"call"} \cap {"que", "bitmap", "top_priority", "klocktsk", "schedtsk",
                       "priority", "ipriority", "klocked", "klockwait"} = {}
    OBVIOUS
  <2>2. Kernel(kq)
    BY <1>8 DEF Steady, Ready
  <2>3. k1.state \in [Task -> TSTAT] /\ k1.wspec \in [Task -> WSpec]
        /\ k1.wtmeb \in [Task -> BOOLEAN]
    BY <2>2, <1>11 DEF Kernel
  <2> QED BY ONLY <1>8, <1>10, <2>1, <2>3, FieldsChange
<1>14. /\ k1.state = [k.state EXCEPT ![t] = "WAIT"]
       /\ k1.klockwait = [k.klockwait EXCEPT ![t] = FALSE]
       /\ k1.wid = [k.wid EXCEPT ![t] = p] /\ k1.wspec = [k.wspec EXCEPT ![t] = spec]
       /\ k1.call = [k.call EXCEPT ![t] = Idle]
  BY <1>3, <1>6, <1>10, <1>11
<1>15. \A u \in Task \ {t} : k1.wtmeb[u] = k.wtmeb[u]
  BY <1>6, <1>11
<1>16. /\ \A h \in OtherHead \ {p} : k1.que[h] = Unlink(k.que[h], t)
       /\ atr = "TPRI" /\ Ordered(Unlink(k.que[p], t), k.priority) => Ordered(k1.que[p], k.priority)
  BY <1>1, <1>6, <1>8, <1>10, <1>11
<1> QED BY <1>12, <1>13, <1>14, <1>15, <1>16 DEF BlockAwaited, atr, spec, k1, r1, r

LEMMA AwaitingState ==
    ASSUME NEW k, PoolState(k), NEW t \in Task, Runnable(k, PoolPlaces(k), t),
           k.call[t].op = "get", k.call[t].at = "body", NEW p, p = k.call[t].p,
           k.mpf[p] = "exists", k.frbcnt[p] = 0,
           NEW k1, BlockAwaited(k1, k, t, p)
    PROVE  p \in MPF /\ Releasing(k1, t, p)
<1>1. /\ Steady(k, PoolPlaces(k)) /\ Pools(k) /\ LockInv(k) /\ WaitInv(k) /\ Sorted(k)
      /\ BlockInv(k) /\ CallInv(k) /\ k.call \in [Task -> CallRecord] /\ Kernel(k)
      /\ KernelField \cup PoolField \subseteq DOMAIN k
      /\ k.state[t] = "READY" /\ ~k.klockwait[t] /\ PoolPlaces(k)[t] = {k.priority[t]}
      /\ k.call[t].b = NoBlock
  <2>1. k.call[t].b = NoBlock
    BY OwnFacts DEF CallInv
  <2> QED BY <2>1, OwnFacts, PlaceCases DEF PoolState, Kernel, Pools
<1>2. k.klocked[t] /\ p \in MPF /\ \A u \in Task : k.klocked[u] /\ k.call[u].p = p => u = t
  <2>1. k.call[t].at # "lock"
    OBVIOUS
  <2> QED BY <2>1, OwnFacts
<1>3. /\ k1.klocked = k.klocked /\ k1.que \in Rings /\ k1.priority = k.priority
      /\ k1.locked = k.locked /\ k1.mpf = k.mpf /\ k1.mpfatr = k.mpfatr
      /\ k1.frbcnt = k.frbcnt /\ k1.unused = k.unused /\ k1.freelist = k.freelist
      /\ k1.given = k.given /\ KernelField \cup PoolField \subseteq DOMAIN k1
  <2>1. Kernel(k1) /\ Only(k1, k, BlockWait)
    BY DEF BlockAwaited, Steady, Ready
  <2>2. k1.que \in Rings
    BY <2>1 DEF Kernel
  <2> QED BY <1>1, <2>1, <2>2 DEF Only, BlockWait, ReadyQue, KernelField, PoolField
<1>4. /\ k1.state[t] = "WAIT" /\ \A u \in Task \ {t} : k1.state[u] = k.state[u]
      /\ ~k1.klockwait[t] /\ \A u \in Task \ {t} : k1.klockwait[u] = k.klockwait[u]
      /\ k1.wid[t] = p /\ \A u \in Task \ {t} : k1.wid[u] = k.wid[u]
      /\ k1.wspec[t] = IF k.mpfatr[p] = "TPRI" THEN "mpf_tpri" ELSE "mpf_tfifo"
      /\ \A u \in Task \ {t} : k1.wspec[u] = k.wspec[u]
      /\ k1.call[t] = Idle /\ \A u \in Task \ {t} : k1.call[u] = k.call[u]
      /\ \A u \in Task \ {t} : k1.wtmeb[u] = k.wtmeb[u]
      /\ k1.wid \in [Task -> MPF \cup {NoMpf}] /\ k1.call \in [Task -> CallRecord]
  <2>1. k1.state[t] = "WAIT" /\ \A u \in Task \ {t} : k1.state[u] = k.state[u]
    BY <1>1 DEF BlockAwaited, Kernel
  <2>2. ~k1.klockwait[t] /\ \A u \in Task \ {t} : k1.klockwait[u] = k.klockwait[u]
    BY <1>1 DEF BlockAwaited, Kernel
  <2>3. /\ k1.wspec[t] = IF k.mpfatr[p] = "TPRI" THEN "mpf_tpri" ELSE "mpf_tfifo"
        /\ \A u \in Task \ {t} : k1.wspec[u] = k.wspec[u]
    BY <1>1 DEF BlockAwaited, Kernel
  <2>4. /\ k1.wid[t] = p /\ \A u \in Task \ {t} : k1.wid[u] = k.wid[u]
        /\ k1.wid \in [Task -> MPF \cup {NoMpf}]
    BY <1>1, <1>2 DEF BlockAwaited, Pools
  <2>5. /\ k1.call[t] = Idle /\ \A u \in Task \ {t} : k1.call[u] = k.call[u]
        /\ k1.call \in [Task -> CallRecord]
    BY <1>1, IdleCall DEF BlockAwaited
  <2>6. \A u \in Task \ {t} : k1.wtmeb[u] = k.wtmeb[u]
    BY DEF BlockAwaited
  <2> QED BY <2>1, <2>2, <2>3, <2>4, <2>5, <2>6
<1>5. PoolPlaces(k1) = [PoolPlaces(k) EXCEPT ![t] = {p}]
  <2>1. \A u \in Task \ {t} : PlaceOfTask(k1, u) = PlaceOfTask(k, u)
    BY <1>3, <1>4, SamePlace
  <2>2. PlaceOfTask(k1, t) = {p}
    <3>1. k1.state[t] \in WaitBit /\ k1.state[t] # "READY" /\ k1.state[t] # "NONEXIST"
      BY <1>4 DEF WaitBit
    <3> QED BY <3>1, <1>4 DEF PlaceOfTask
  <2>3. t \in Task
    OBVIOUS
  <2> QED BY ONLY <2>1, <2>2, <2>3, OnePlace
<1>6. Steady(k1, PoolPlaces(k1))
  BY <1>5 DEF BlockAwaited
<1>7. BlockInv(k1) /\ CallInv(k1)
  <2>1. k1.call = [k.call EXCEPT ![t] = Idle] /\ t \in Task
    BY DEF BlockAwaited
  <2> QED BY ONLY <1>1, <1>3, <2>1, EndedCall
<1>8. WaitInv(k1)
  <2>1. ASSUME NEW u \in Task, k1.state[u] \in WaitBit
        PROVE  /\ k1.wid[u] \in MPF
               /\ k1.mpf[k1.wid[u]] = "exists" /\ k1.frbcnt[k1.wid[u]] = 0
               /\ k1.wspec[u] = IF k1.mpfatr[k1.wid[u]] = "TPRI" THEN "mpf_tpri"
                                ELSE "mpf_tfifo"
    <3>1. CASE u = t
      BY <3>1, <1>2, <1>3, <1>4
    <3>2. CASE u # t
      BY <3>2, <2>1, <1>1, <1>3, <1>4 DEF WaitInv
    <3> QED BY <3>1, <3>2
  <2>2. ASSUME NEW u \in Task, k1.wtmeb[u] PROVE k1.state[u] \in WaitBit
    <3>1. CASE u = t
      BY <3>1, <1>4 DEF WaitBit
    <3>2. CASE u # t
      BY <3>2, <2>2, <1>1, <1>4 DEF WaitInv
    <3> QED BY <3>1, <3>2
  <2>3. ASSUME NEW u \in Task, k1.call[u].at = "put"
        PROVE  /\ k1.call[u].op = "rel" /\ k1.mpf[k1.call[u].p] = "exists"
               /\ \A w \in Task : ~WaitsFor(k1, w, k1.call[u].p)
    <3>1. u # t /\ k1.call[u] = k.call[u]
      BY <2>3, <1>4, IdleCall
    <3>2. k.klocked[u]
      BY <2>3, <3>1, OwnFacts
    <3>3. k.call[u].p # p
      BY <3>1, <3>2, <1>2
    <3>4. /\ k.call[u].op = "rel" /\ k.mpf[k.call[u].p] = "exists"
          /\ \A w \in Task : ~WaitsFor(k, w, k.call[u].p)
      BY <2>3, <3>1, <1>1 DEF WaitInv
    <3>5. ASSUME NEW w \in Task PROVE ~WaitsFor(k1, w, k.call[u].p)
      <4>1. CASE w = t
        BY <4>1, <3>3, <1>4 DEF WaitsFor
      <4>2. CASE w # t
        BY <4>2, <3>4, <1>4 DEF WaitsFor
      <4> QED BY <4>1, <4>2
    <3> QED BY <3>1, <3>4, <3>5, <1>3
  <2> QED BY <2>1, <2>2, <2>3 DEF WaitInv
<1>9. Sorted(k1)
  <2> SUFFICES ASSUME NEW q \in MPF, k.mpfatr[q] = "TPRI"
               PROVE  Ordered(k1.que[q], k.priority)
    BY <1>3 DEF Sorted
  <2>1. Ordered(k.que[q], k.priority)
    BY <1>1 DEF Sorted
  <2>2. k.que[q] \in Seq(Task) /\ IsInjective(k.que[q])
    BY WaiterQueued
  <2>3. Ordered(Unlink(k.que[q], t), k.priority)
    BY <2>1, <2>2, UnlinkOrdered
  <2>4. CASE q = p
    BY <2>3, <2>4 DEF BlockAwaited
  <2>5. CASE q # p
    BY <2>3, <2>5, PoolHeads DEF BlockAwaited
  <2> QED BY <2>4, <2>5
<1>10. Pools(k1)
  BY <1>1, <1>3, <1>4 DEF Pools
<1>11. Others(k1)
  BY <1>7, <1>8, <1>9, <1>10 DEF Others
<1>12. \A u \in Task \ {t} : /\ k1.call[u] = k.call[u] /\ k1.state[u] = k.state[u]
                             /\ k1.klockwait[u] = k.klockwait[u]
  BY <1>4
<1>13. k.call[t].at # "lock"
  OBVIOUS
<1> QED BY ONLY <1>1, <1>3, <1>4, <1>6, <1>11, <1>12, <1>13, p = k.call[t].p, t \in Task,
           EndedLocks

(***************************************************************************)
(* The task in execution stays the right one.                              *)
(***************************************************************************)
\* A critical section: a dispatch is requested when another task should
\* execute.
LEMMA CallControl ==
    ASSUME PoolInv, NEW c, NEW k, SystemCall(c, k), PoolState(k)
    PROVE  PoolInv'
<1>1. /\ kn' = k /\ ctxtsk' = ctxtsk /\ dispatch_disabled' = dispatch_disabled
      /\ basepri' = basepri
      /\ pendsv' = (pendsv \/ (/\ c = "hdr" \/ ~basepri
                               /\ ctxtsk # k.schedtsk
                               /\ dispatch_disabled = "ENABLE"))
  BY DEF SystemCall, EndCritical
<1>2. Control
  BY DEF PoolInv
<1>3. pendsv' \in BOOLEAN
  BY <1>1
<1>4. ASSUME ctxtsk # NoTask, ~pendsv'
      PROVE  Runnable(k, PoolPlaces(k), ctxtsk)
  <2>1. ctxtsk = k.schedtsk
    BY <1>1, <1>2, <1>4 DEF Control
  <2>2. Selected(k, PoolPlaces(k))
    BY DEF PoolState, Steady
  <2> QED BY <2>1, <2>2, <1>4 DEF Selected
<1>5. Control'
  <2>1. InTask' => Runnable(kn', PoolPlaces(kn)', ctxtsk')
    BY <1>1, <1>4 DEF InTask, PoolPlaces, PlaceOfTask
  <2> QED BY <1>1, <1>2, <1>3, <2>1 DEF Control
<1>6. PoolState(k) => PoolState(kn)'
  BY <1>1 DEF PoolState, Steady, Ready
<1> QED BY <1>5, <1>6 DEF PoolInv

\* A step outside of critical sections.
LEMMA PlainControl ==
    ASSUME PoolInv, NEW k, PlainStep(k), PoolState(k),
           InTask => Runnable(k, PoolPlaces(k), ctxtsk)
    PROVE  PoolInv'
<1>1. /\ kn' = k /\ ctxtsk' = ctxtsk /\ dispatch_disabled' = dispatch_disabled
      /\ basepri' = basepri /\ pendsv' = pendsv
  BY DEF PlainStep
<1>2. Control
  BY DEF PoolInv
<1>3. Control'
  <2>1. InTask' => Runnable(kn', PoolPlaces(kn)', ctxtsk')
    BY <1>1 DEF InTask, PoolPlaces, PlaceOfTask
  <2> QED BY <1>1, <1>2, <2>1 DEF Control
<1>4. PoolState(k) => PoolState(kn)'
  BY <1>1 DEF PoolState, Steady, Ready
<1> QED BY <1>3, <1>4 DEF PoolInv

LEMMA InExecution ==
    ASSUME PoolInv, InTask
    PROVE  /\ ctxtsk \in Task /\ PoolState(kn) /\ Runnable(kn, PoolPlaces(kn), ctxtsk)
           /\ kn.call \in [Task -> CallRecord] /\ kn.call[ctxtsk] \in CallRecord
           /\ Pools(kn) /\ Kernel(kn) /\ CallInv(kn)
           /\ KernelField \cup PoolField \subseteq DOMAIN kn
<1>1. ctxtsk \in Task /\ PoolState(kn) /\ Runnable(kn, PoolPlaces(kn), ctxtsk)
  BY DEF PoolInv, Control, InTask
<1> QED BY <1>1, OwnFacts DEF Pools, Kernel

\* A step of the task in execution that only it and its pool see.
LEMMA OwnControl ==
    ASSUME PoolInv, InTask, NEW k, PlainStep(k), OwnStepped(k, kn)
    PROVE  PoolInv'
  BY InExecution, PlainControl DEF OwnStepped

\* One attempt to lock the pool of a call.
LEMMA LockControl ==
    ASSUME PoolInv, InTask, NEW k, PoolState(k), Runnable(k, PoolPlaces(k), ctxtsk),
           k.call[ctxtsk].op \in Op, k.call[ctxtsk].at = "lock", Lock(k)
    PROVE  PoolInv'
<1> DEFINE t == ctxtsk
           k1 == LockOBJ(k, t, k.call[t].p)
           k2 == IF k1.klocked[t] THEN Goto(k1, "body") ELSE k1
<1>1. t \in Task /\ k.call[t] # Idle
  BY InExecution, IdleCall
<1>2. Attempted(k1, k, t)
  BY <1>1, LockState
<1>3. SystemCall("task", k2)
  BY DEF Lock
<1>4. IF k1.klocked[t] THEN k2 = [k1 EXCEPT !.call[t].at = "body"] ELSE k2 = k1
  BY DEF Goto
<1> HIDE DEF k1, k2
<1>5. PoolState(k2)
  BY ONLY <1>1, <1>2, <1>4, PoolState(k), Runnable(k, PoolPlaces(k), t), k.call[t].op \in Op,
     k.call[t].at = "lock", LockCallState
<1> QED BY <1>3, <1>5, CallControl

(***************************************************************************)
(* The calls on pools.                                                     *)
(***************************************************************************)
LEMMA CreMpfStep ==
    ASSUME PoolInv, NEW p \in MPF, CreMpf(p)
    PROVE  PoolInv'
<1> DEFINE t == ctxtsk
           k1 == [kn EXCEPT !.mpf[p] = "taken", !.call[t] = Call("cre", p, NoBlock)]
<1>1. InTask /\ kn.call[t] = Idle /\ kn.mpf[p] = "free" /\ PlainStep(k1)
  BY DEF CreMpf, MayCall, IdleTask
<1>2. /\ t \in Task /\ PoolState(kn) /\ Runnable(kn, PoolPlaces(kn), t)
      /\ PoolField \subseteq DOMAIN kn
  BY <1>1, InExecution
<1>3. /\ Only(k1, kn, {"call", "mpf"})
      /\ k1.call = [kn.call EXCEPT ![t] = Call("cre", p, NoBlock)]
      /\ k1.mpf = [kn.mpf EXCEPT ![p] = "taken"]
  BY <1>2 DEF Only, PoolField
<1> HIDE DEF k1, t
<1>4. OwnStepped(k1, kn)
  BY ONLY <1>1, <1>2, <1>3, p \in MPF, NewCreState
<1> QED BY <1>1, <1>4, OwnControl

LEMMA BeginStep ==
    ASSUME PoolInv, NEW p \in MPF, NEW op \in {"get", "del"}, Begin(op, p, NoBlock),
           op = "del" => InProgress("rel", p) = {}
    PROVE  PoolInv'
<1> DEFINE t == ctxtsk
           c == Call(op, p, NoBlock)
           k == [kn EXCEPT !.call[t] = c]
<1>1. InTask /\ kn.call[t] = Idle /\ Lock(k)
  BY DEF Begin, MayCall, IdleTask
<1>2. /\ t \in Task /\ PoolState(kn) /\ Runnable(kn, PoolPlaces(kn), t)
      /\ PoolField \subseteq DOMAIN kn
      /\ kn.call \in [Task -> CallRecord]
  BY <1>1, InExecution
<1>3. Only(k, kn, {"call"}) /\ k.call = [kn.call EXCEPT ![t] = c]
  BY <1>2 DEF Only, PoolField
<1>4. c.op = op /\ c.at = "lock" /\ op \in Op
  BY NewCall DEF Op
<1>5. op = "del" => \A u \in Task : kn.call[u].p = p => kn.call[u].op # "rel"
  BY DEF InProgress
<1> HIDE DEF k, t
<1>6. OwnStepped(k, kn)
  BY ONLY <1>1, <1>2, <1>3, <1>5, p \in MPF, op \in {"get", "del"}, NewCallState DEF c
<1>7. k.call[t].op \in Op /\ k.call[t].at = "lock"
  BY <1>2, <1>3, <1>4
<1>8. PoolState(k) /\ Runnable(k, PoolPlaces(k), t)
  BY <1>2, <1>6 DEF OwnStepped
<1> QED BY <1>1, <1>7, <1>8, LockControl DEF t

LEMMA RelMpfStep ==
    ASSUME PoolInv, NEW p \in MPF, NEW b \in Block, RelMpf(p, b)
    PROVE  PoolInv'
<1> DEFINE t == ctxtsk
           c == Call("rel", p, b)
           k == [kn EXCEPT !.call[t] = c, !.given[p] = @ \ {b}]
<1>1. /\ InTask /\ kn.call[t] = Idle /\ Lock(k) /\ b \in kn.given[p]
      /\ \A u \in Task : kn.call[u].p = p => kn.call[u].op # "del"
  BY DEF RelMpf, MayCall, IdleTask, InProgress
<1>2. /\ t \in Task /\ PoolState(kn) /\ Runnable(kn, PoolPlaces(kn), t)
      /\ PoolField \subseteq DOMAIN kn
      /\ kn.call \in [Task -> CallRecord]
  BY <1>1, InExecution
<1>3. /\ Only(k, kn, {"call", "given"}) /\ k.call = [kn.call EXCEPT ![t] = c]
      /\ k.given = [kn.given EXCEPT ![p] = @ \ {b}]
  BY <1>2 DEF Only, PoolField
<1>4. c.op = "rel" /\ c.at = "lock" /\ "rel" \in Op
  BY NewCall DEF Op
<1> HIDE DEF k, t
<1>5. OwnStepped(k, kn)
  BY ONLY <1>1, <1>2, <1>3, p \in MPF, NewRelState DEF c
<1>6. k.call[t].op \in Op /\ k.call[t].at = "lock"
  BY <1>2, <1>3, <1>4
<1>7. PoolState(k) /\ Runnable(k, PoolPlaces(k), t)
  BY <1>2, <1>5 DEF OwnStepped
<1> QED BY <1>1, <1>6, <1>7, LockControl DEF t

LEMMA LockRetryStep ==
    ASSUME PoolInv, LockRetry
    PROVE  PoolInv'
<1>1. InTask /\ kn.call[ctxtsk] # Idle /\ kn.call[ctxtsk].at = "lock" /\ Lock(kn)
  BY DEF LockRetry
<1>2. ctxtsk \in Task /\ PoolState(kn) /\ Runnable(kn, PoolPlaces(kn), ctxtsk)
  BY <1>1, InExecution
<1>3. kn.call[ctxtsk].op \in Op
  BY <1>1, <1>2, OwnFacts
<1> QED BY <1>1, <1>2, <1>3, LockControl

LEMMA UnlockStep ==
    ASSUME PoolInv, Unlock
    PROVE  PoolInv'
<1> DEFINE t == ctxtsk
           p == kn.call[t].p
           k == [kn EXCEPT !.call[t] = Idle]
<1>1. InTask /\ kn.call[t].at = "unlock" /\ SystemCall("task", UnlockOBJ(k, t, p))
  BY DEF Unlock, Pool
<1>2. /\ t \in Task /\ PoolState(kn) /\ Runnable(kn, PoolPlaces(kn), t)
      /\ PoolField \subseteq DOMAIN kn /\ CallInv(kn)
  BY <1>1, InExecution
<1>3. Only(k, kn, {"call"}) /\ k.call = [kn.call EXCEPT ![t] = Idle]
  BY <1>2 DEF Only, PoolField
<1>4. kn.call[t].at # "lock" /\ kn.call[t].b = NoBlock
  BY <1>1, <1>2 DEF CallInv
<1> HIDE DEF k
<1>5. p \in MPF /\ Releasing(k, t, p)
  BY <1>2, <1>3, <1>4, EndCallState
<1>6. PoolState(UnlockOBJ(k, t, p))
  BY <1>2, <1>5, UnlockState
<1> QED BY <1>1, <1>6, CallControl

LEMMA SameEntry ==
    ASSUME NEW D, NEW R, NEW f \in [D -> R], NEW x
    PROVE  [f EXCEPT ![x] = f[x]] = f
  OBVIOUS

\* A wait that ends changes nothing for the task in execution.
LEMMA EndWaitKeeps ==
    ASSUME NEW k, PoolState(k), NEW u \in Task, k.state[u] \in WaitBit, NEW k1,
           PoolWaitEnded(k1, k, u), NEW t \in Task, Runnable(k, PoolPlaces(k), t)
    PROVE  PoolState(k1) /\ Runnable(k1, PoolPlaces(k1), t)
<1>1. k.state[t] = "READY" /\ ~k.klockwait[t] /\ Kernel(k)
  BY PlaceCases, OwnFacts
<1>2. u # t
  BY <1>1, ATaskWaits
<1>3. PoolState(k1) /\ k1.state[t] = k.state[t] /\ Only(k1, k, PoolWaitEnds)
  BY <1>2 DEF PoolWaitEnded
<1>4. k1.klockwait = k.klockwait
  BY <1>1, <1>3 DEF Only, PoolWaitEnds, WaitEnds, ReadyQue, Kernel, KernelField
<1> QED BY <1>1, <1>3, <1>4, PlaceCases

LEMMA CreBodyStep ==
    ASSUME PoolInv, NEW atr \in MpfAtr, CreBody(atr)
    PROVE  PoolInv'
<1> DEFINE t == ctxtsk
           p == kn.call[t].p
           c == [kn.call[t] EXCEPT !.at = "unlock"]
           k1 == Goto([kn EXCEPT !.mpf[p] = "exists", !.mpfatr[p] = atr, !.frbcnt[p] = MpfCnt,
                                 !.unused[p] = 1, !.freelist[p] = <<>>], "unlock")
<1>1. InTask /\ kn.call[t].op = "cre" /\ kn.call[t].at = "body" /\ PlainStep(k1)
  BY DEF CreBody, Continues, Pool
<1>2. /\ t \in Task /\ PoolState(kn) /\ Runnable(kn, PoolPlaces(kn), t)
      /\ PoolField \subseteq DOMAIN kn /\ Pools(kn) /\ kn.call[t] \in CallRecord
  BY <1>1, InExecution
<1>3. PoolMade(k1, kn, t, p, atr, c)
  BY <1>2 DEF Only, PoolField, OwnField, Goto, PoolMade
<1>4. GoesOn(c, kn.call[t], "unlock")
  BY <1>2, CallAt DEF At, GoesOn
<1> HIDE DEF k1, c
<1>5. OwnStepped(k1, kn)
  BY <1>1, <1>2, <1>3, <1>4, CreBodyState
<1> QED BY <1>1, <1>5, OwnControl

LEMMA GiveBack ==
    ASSUME NEW c0 \in CallRecord, NEW c, c = [c0 EXCEPT !.b = NoBlock, !.at = "unlock"]
    PROVE  GoesOnWithout(c, c0, "unlock")
  BY DEF CallRecord, GoesOnWithout, At

LEMMA RelPutStep ==
    ASSUME PoolInv, RelPut
    PROVE  PoolInv'
<1> DEFINE t == ctxtsk
           p == kn.call[t].p
           b == kn.call[t].b
           c == [kn.call[t] EXCEPT !.b = NoBlock, !.at = "unlock"]
           k1 == Goto([kn EXCEPT !.call[t].b = NoBlock, !.freelist[p] = <<b>> \o @,
                                 !.frbcnt[p] = @ + 1], "unlock")
<1>1. InTask /\ kn.call[t].op = "rel" /\ kn.call[t].at = "put" /\ PlainStep(k1)
  BY DEF RelPut, Continues, Pool
<1>2. /\ t \in Task /\ PoolState(kn) /\ Runnable(kn, PoolPlaces(kn), t)
      /\ PoolField \subseteq DOMAIN kn /\ Pools(kn) /\ kn.call[t] \in CallRecord
  BY <1>1, InExecution
<1>3. Moved(k1, kn, t, p, c, kn.frbcnt[p] + 1, kn.unused[p],
            <<kn.call[t].b>> \o kn.freelist[p], kn.given[p])
  <2>1. /\ [kn.unused EXCEPT ![p] = kn.unused[p]] = kn.unused
        /\ [kn.given EXCEPT ![p] = kn.given[p]] = kn.given
    BY <1>2, SameEntry DEF Pools
  <2>2. /\ Only(k1, kn, OwnField) /\ k1.call = [kn.call EXCEPT ![t] = c]
        /\ k1.mpf = kn.mpf /\ k1.mpfatr = kn.mpfatr /\ k1.locked = kn.locked
        /\ k1.frbcnt = [kn.frbcnt EXCEPT ![p] = kn.frbcnt[p] + 1]
        /\ k1.unused = kn.unused
        /\ k1.freelist = [kn.freelist EXCEPT ![p] = <<b>> \o kn.freelist[p]]
        /\ k1.given = kn.given
    BY <1>2 DEF Only, PoolField, OwnField, Goto
  <2> QED BY <2>1, <2>2 DEF Moved
<1>4. GoesOnWithout(c, kn.call[t], "unlock")
  BY <1>2, GiveBack
<1> HIDE DEF k1, c
<1>5. OwnStepped(k1, kn)
  BY <1>1, <1>2, <1>3, <1>4, PutState
<1> QED BY <1>1, <1>5, OwnControl

\* A call that has locked its pool finds that it does not exist.
LEMMA LeavePool ==
    ASSUME PoolInv, InTask, kn.call[ctxtsk].at = "body",
           kn.call[ctxtsk].op \in {"get", "del"}, PlainStep(Goto(kn, "unlock"))
    PROVE  PoolInv'
<1> DEFINE t == ctxtsk
           c == [kn.call[t] EXCEPT !.at = "unlock"]
           k1 == Goto(kn, "unlock")
<1>1. /\ t \in Task /\ PoolState(kn) /\ Runnable(kn, PoolPlaces(kn), t)
      /\ PoolField \subseteq DOMAIN kn /\ Pools(kn) /\ kn.call[t] \in CallRecord
      /\ CallInv(kn)
  BY InExecution
<1>2. Only(k1, kn, {"call"}) /\ k1.call = [kn.call EXCEPT ![t] = c]
  BY <1>1 DEF Only, PoolField, Goto
<1>3. c \in CallRecord /\ c.op = kn.call[t].op /\ c.p = kn.call[t].p /\ c.b = kn.call[t].b
      /\ c.at = "unlock"
  BY <1>1, CallAt DEF At
<1>4. kn.call[t].b = NoBlock /\ c.op \in Op /\ c.op # "rel" /\ c.p \in MPF /\ kn.klocked[t]
      /\ ~Creating(c)
  <2>1. kn.call[t].b = NoBlock
    BY <1>1 DEF CallInv
  <2>2. kn.call[t] # Idle /\ kn.klocked[t] /\ kn.call[t].p \in MPF /\ kn.call[t].op \in Op
    BY <1>1, OwnFacts
  <2> QED BY <2>1, <2>2, <1>3 DEF Creating
<1> HIDE DEF k1, c
<1>5. OwnStepped(k1, kn)
  BY <1>1, <1>2, <1>3, <1>4, CallStep
<1> QED BY <1>5, OwnControl DEF k1

LEMMA TakeMoves ==
    ASSUME NEW k, Pools(k), NEW t \in Task, NEW p \in MPF, NEW c,
           NEW k1, k1 = [TakeBlock(k, p) EXCEPT !.call[t] = c]
    PROVE  \E s, m, b : /\ Takes(k.freelist[p], k.unused[p], s, m, b)
                        /\ Moved(k1, k, t, p, c, k.frbcnt[p] - 1, m, s, k.given[p] \cup {b})
<1> DEFINE f == k.freelist[p]
           u == k.unused[p]
<1>1. /\ PoolField \subseteq DOMAIN k
      /\ [k.unused EXCEPT ![p] = k.unused[p]] = k.unused
      /\ [k.freelist EXCEPT ![p] = k.freelist[p]] = k.freelist
  BY SameEntry DEF Pools
<1>2. CASE f # <<>>
  <2>1. k1 = [k EXCEPT !.freelist[p] = Tail(f), !.given[p] = @ \cup {Head(f)},
                       !.frbcnt[p] = @ - 1, !.call[t] = c]
    BY <1>2 DEF TakeBlock
  <2>2. Moved(k1, k, t, p, c, k.frbcnt[p] - 1, u, Tail(f), k.given[p] \cup {Head(f)})
    BY <1>1, <2>1 DEF Moved, Only, PoolField, OwnField
  <2>3. Takes(f, u, Tail(f), u, Head(f))
    BY <1>2 DEF Takes
  <2> QED BY <2>2, <2>3
<1>3. CASE f = <<>>
  <2>1. k1 = [k EXCEPT !.unused[p] = u + 1, !.given[p] = @ \cup {u},
                       !.frbcnt[p] = @ - 1, !.call[t] = c]
    BY <1>3 DEF TakeBlock
  <2>2. Moved(k1, k, t, p, c, k.frbcnt[p] - 1, u + 1, f, k.given[p] \cup {u})
    BY <1>1, <2>1 DEF Moved, Only, PoolField, OwnField
  <2>3. Takes(f, u, f, u + 1, u)
    BY <1>3 DEF Takes
  <2> QED BY <2>2, <2>3
<1> QED BY <1>2, <1>3

LEMMA GetBodyStep ==
    ASSUME PoolInv, NEW tmout \in TMO, GetBody(tmout)
    PROVE  PoolInv'
<1> DEFINE t == ctxtsk
           p == kn.call[t].p
<1>1. InTask /\ kn.call[t].op = "get" /\ kn.call[t].at = "body"
  BY DEF GetBody, Continues
<1>2. /\ t \in Task /\ PoolState(kn) /\ Runnable(kn, PoolPlaces(kn), t)
      /\ PoolField \subseteq DOMAIN kn /\ Pools(kn) /\ kn.call[t] \in CallRecord
      /\ CallInv(kn)
  BY <1>1, InExecution
<1>3. /\ kn.call[t].at # "lock" /\ kn.call[t].b = NoBlock /\ p \in MPF
      /\ kn.frbcnt[p] \in Nat
  <2>1. kn.call[t].at # "lock" /\ kn.call[t].b = NoBlock
    BY <1>1, <1>2 DEF CallInv
  <2>2. p \in MPF
    BY <1>2, <2>1, OwnFacts
  <2> QED BY <2>1, <2>2, <1>2 DEF Pools
<1>4. CASE kn.mpf[p] # "exists" /\ PlainStep(Goto(kn, "unlock"))
  BY <1>1, <1>4, LeavePool
<1>5. CASE kn.mpf[p] = "exists" /\ kn.frbcnt[p] > 0 /\ PlainStep(Goto(TakeBlock(kn, p), "unlock"))
  <2> DEFINE c == [kn.call[t] EXCEPT !.at = "unlock"]
             k1 == Goto(TakeBlock(kn, p), "unlock")
  <2>1. TakeBlock(kn, p).call = kn.call
    BY <1>2 DEF TakeBlock, PoolField
  <2>2. k1 = [TakeBlock(kn, p) EXCEPT !.call[t] = c]
    BY <2>1 DEF Goto
  <2>3. GoesOn(c, kn.call[t], "unlock")
    BY <1>2, CallAt DEF At, GoesOn
  <2>4. PlainStep(k1)
    BY <1>5
  <2> HIDE DEF k1, c
  <2>5. PICK s, m, b : /\ Takes(kn.freelist[p], kn.unused[p], s, m, b)
                       /\ Moved(k1, kn, t, p, c, kn.frbcnt[p] - 1, m, s, kn.given[p] \cup {b})
    BY <1>2, <1>3, <2>2, TakeMoves
  <2>6. OwnStepped(k1, kn)
    BY <1>1, <1>2, <1>5, <2>3, <2>5, TakeState
  <2> QED BY <1>1, <2>4, <2>6, OwnControl
<1>6. CASE /\ kn.mpf[p] = "exists" /\ kn.frbcnt[p] <= 0 /\ tmout = "POL"
           /\ SystemCall("task", UnlockOBJ([kn EXCEPT !.call[t] = Idle], t, p))
  <2> DEFINE k == [kn EXCEPT !.call[t] = Idle]
  <2>1. Only(k, kn, {"call"}) /\ k.call = [kn.call EXCEPT ![t] = Idle]
    BY <1>2 DEF Only, PoolField
  <2>2. SystemCall("task", UnlockOBJ(k, t, p))
    BY <1>6
  <2> HIDE DEF k
  <2>3. p \in MPF /\ Releasing(k, t, p)
    BY <1>2, <1>3, <2>1, EndCallState
  <2>4. PoolState(UnlockOBJ(k, t, p))
    BY <1>2, <2>3, UnlockState
  <2> QED BY <2>2, <2>4, CallControl
<1>7. CASE /\ kn.mpf[p] = "exists" /\ kn.frbcnt[p] <= 0 /\ tmout # "POL"
           /\ SystemCall("task", UnlockOBJ(WaitForBlock(kn, t, p, tmout), t, p))
  <2> DEFINE k == WaitForBlock(kn, t, p, tmout)
  <2>1. BlockAwaited(k, kn, t, p)
    BY <1>2, <1>3, WaitForBlockState
  <2>2. SystemCall("task", UnlockOBJ(k, t, p))
    BY <1>7
  <2>3. kn.frbcnt[p] = 0
    BY <1>3, <1>7
  <2> HIDE DEF k
  <2>4. p \in MPF /\ Releasing(k, t, p)
    BY <1>1, <1>2, <1>7, <2>1, <2>3, AwaitingState
  <2>5. PoolState(UnlockOBJ(k, t, p))
    BY <1>2, <2>4, UnlockState
  <2> QED BY <2>2, <2>5, CallControl
<1> QED BY <1>4, <1>5, <1>6, <1>7 DEF GetBody, Pool

LEMMA RelBodyStep ==
    ASSUME PoolInv, RelBody
    PROVE  PoolInv'
<1> DEFINE t == ctxtsk
           p == kn.call[t].p
           b == kn.call[t].b
           k == Goto([kn EXCEPT !.call[t].b = NoBlock, !.given[p] = @ \cup {b}], "unlock")
<1>1. InTask /\ kn.call[t].op = "rel" /\ kn.call[t].at = "body"
  BY DEF RelBody, Continues
<1>2. /\ t \in Task /\ PoolState(kn) /\ Runnable(kn, PoolPlaces(kn), t)
      /\ PoolField \subseteq DOMAIN kn /\ Pools(kn) /\ kn.call[t] \in CallRecord
      /\ CallInv(kn)
  BY <1>1, InExecution
<1>3. kn.call[t].at # "lock" /\ b # NoBlock /\ p \in MPF /\ kn.mpf[p] = "exists"
  <2>1. kn.call[t].at # "lock" /\ b # NoBlock /\ kn.mpf[p] = "exists"
    BY <1>1, <1>2 DEF CallInv
  <2> QED BY <2>1, <1>2, OwnFacts
<1>4. CASE kn.que[p] # <<>> /\ PlainStep(EndPoolWait(k, Head(kn.que[p]), "E_OK"))
  <2> DEFINE c == [kn.call[t] EXCEPT !.b = NoBlock, !.at = "unlock"]
             u == Head(kn.que[p])
             k2 == EndPoolWait(k, u, "E_OK")
  <2>1. Moved(k, kn, t, p, c, kn.frbcnt[p], kn.unused[p], kn.freelist[p], kn.given[p] \cup {b})
    <3>1. /\ [kn.unused EXCEPT ![p] = kn.unused[p]] = kn.unused
          /\ [kn.freelist EXCEPT ![p] = kn.freelist[p]] = kn.freelist
          /\ [kn.frbcnt EXCEPT ![p] = kn.frbcnt[p]] = kn.frbcnt
      BY <1>2, SameEntry DEF Pools
    <3>2. /\ Only(k, kn, OwnField) /\ k.call = [kn.call EXCEPT ![t] = c]
          /\ k.mpf = kn.mpf /\ k.mpfatr = kn.mpfatr /\ k.locked = kn.locked
          /\ k.frbcnt = kn.frbcnt /\ k.unused = kn.unused /\ k.freelist = kn.freelist
          /\ k.given = [kn.given EXCEPT ![p] = kn.given[p] \cup {b}]
      BY <1>2 DEF Only, PoolField, OwnField, Goto
    <3> QED BY <3>1, <3>2 DEF Moved
  <2>2. GoesOnWithout(c, kn.call[t], "unlock")
    BY <1>2, GiveBack
  <2>3. PlainStep(k2)
    BY <1>4
  <2>4. u \in Task /\ kn.state[u] \in WaitBit
    <3>1. /\ \A v \in Task : InRing(kn.que[p], v) <=> WaitsFor(kn, v, p)
          /\ kn.que[p] \in Seq(Task) /\ IsInjective(kn.que[p])
      BY <1>2, <1>3, WaiterQueued
    <3>2. u \in Task /\ InRing(kn.que[p], u)
      BY <3>1, <1>4, TailRing
    <3> QED BY <3>1, <3>2 DEF WaitsFor
  <2> HIDE DEF k, c, u
  <2>5. OwnStepped(k, kn)
    BY <1>1, <1>2, <1>3, <2>1, <2>2, ReturnState
  <2>6. PoolState(k) /\ Runnable(k, PoolPlaces(k), t)
    BY <1>2, <2>5 DEF OwnStepped
  <2>7. k.state[u] \in WaitBit
    <3>1. k.state = kn.state
      BY <2>1, <1>1, InExecution DEF Moved, Only, OwnField, KernelField
    <3> QED BY <3>1, <2>4
  <2>8. PoolWaitEnded(k2, k, u)
    BY <2>4, <2>6, <2>7, EndPoolWaitState
  <2> HIDE DEF k2
  <2>9. PoolState(k2) /\ Runnable(k2, PoolPlaces(k2), t)
    BY <1>2, <2>4, <2>6, <2>7, <2>8, EndWaitKeeps
  <2> QED BY <2>3, <2>9, PlainControl
<1>5. CASE kn.que[p] = <<>> /\ PlainStep(Goto(kn, "put"))
  <2> DEFINE c == [kn.call[t] EXCEPT !.at = "put"]
             k1 == Goto(kn, "put")
  <2>1. Only(k1, kn, {"call"}) /\ k1.call = [kn.call EXCEPT ![t] = c]
    BY <1>2 DEF Only, PoolField, Goto
  <2>2. c \in CallRecord /\ c.op = "rel" /\ c.p = p /\ c.b = b /\ c.at = "put"
    BY <1>1, <1>2, CallAt DEF At
  <2>3. ~HasWaiter(kn, p) /\ kn.klocked[t]
    BY <1>2, <1>3, <1>5, WaiterQueued, OwnFacts
  <2>4. ~Creating(c) /\ "rel" \in Op
    BY <2>2 DEF Creating, Op
  <2>5. PlainStep(k1)
    BY <1>5
  <2> HIDE DEF c, k1
  <2>6. OwnStepped(k1, kn)
    BY <1>1, <1>2, <1>3, <2>1, <2>2, <2>3, <2>4, CallStep
  <2> QED BY <1>1, <2>5, <2>6, OwnControl
<1> QED BY <1>3, <1>4, <1>5 DEF RelBody, Pool

(***************************************************************************)
(* knl_wait_delete: every task in the queue of the pool is released, one   *)
(* after the other.                                                        *)
(***************************************************************************)
\* f[i] is the state after the first i tasks of s are released, up to n.
ReleasedUpTo(f, k, s, n) ==
    f = [i \in 0..n |-> IF i = 0 THEN k ELSE EndPoolWait(f[i-1], s[i], "E_DLT")]

LEMMA ReleasesAll ==
    ASSUME NEW k, NEW s, NEW m \in Nat
    PROVE  \E f : ReleasedUpTo(f, k, s, m)
<1> DEFINE Missing == {n \in Nat : ~\E f : ReleasedUpTo(f, k, s, n)}
<1> SUFFICES ASSUME Missing # {} PROVE FALSE
  OBVIOUS
<1>1. Missing \subseteq Nat /\ \A n \in Missing : ~\E f : ReleasedUpTo(f, k, s, n)
  OBVIOUS
<1>2. \A n \in Nat \ Missing : \E f : ReleasedUpTo(f, k, s, n)
  OBVIOUS
<1> HIDE DEF Missing
<1>3. PICK n \in Missing : \A j \in Missing : n <= j
  BY <1>1, LeastElement
<1>4. n \in Nat /\ ~\E f : ReleasedUpTo(f, k, s, n)
  BY <1>1, <1>3
<1>5. n # 0
  <2>1. ReleasedUpTo([i \in {0} |-> k], k, s, 0)
    BY DEF ReleasedUpTo
  <2> QED BY <2>1, <1>4
<1>6. PICK g : ReleasedUpTo(g, k, s, n-1)
  BY <1>2, <1>3, <1>4, <1>5
<1> DEFINE f == [i \in 0..n |-> IF i = n THEN EndPoolWait(g[n-1], s[n], "E_DLT") ELSE g[i]]
<1>7. ReleasedUpTo(f, k, s, n)
  <2>1. ASSUME NEW i \in 0..n
        PROVE  f[i] = IF i = 0 THEN k ELSE EndPoolWait(f[i-1], s[i], "E_DLT")
    <3>1. CASE i = n
      BY <3>1, <1>4, <1>5
    <3>2. CASE i # n
      <4>1. i \in 0..(n-1) /\ f[i] = g[i] /\ (i # 0 => i - 1 \in 0..n /\ i - 1 # n)
        BY <3>2, <1>4
      <4>2. g[i] = IF i = 0 THEN k ELSE EndPoolWait(g[i-1], s[i], "E_DLT")
        BY <4>1, <1>6 DEF ReleasedUpTo
      <4> QED BY <4>1, <4>2
    <3> QED BY <3>1, <3>2
  <2> HIDE DEF f
  <2>2. f = [i \in 0..n |-> f[i]]
    BY DEF f
  <2> QED BY <2>1, <2>2 DEF ReleasedUpTo
<1> QED BY <1>4, <1>7

LEMMA PoolWaitDeleteIs ==
    ASSUME NEW k, NEW p, NEW s \in Seq(Task), s = k.que[p]
    PROVE  \E f : ReleasedUpTo(f, k, s, Len(s)) /\ PoolWaitDelete(k, p) = f[Len(s)]
<1> DEFINE f == CHOOSE f : ReleasedUpTo(f, k, s, Len(s))
<1>1. \E g : ReleasedUpTo(g, k, s, Len(s))
  <2>1. Len(s) \in Nat
    OBVIOUS
  <2> QED BY <2>1, ReleasesAll
<1>2. ReleasedUpTo(f, k, s, Len(s))
  BY <1>1
<1>3. PoolWaitDelete(k, p) = f[Len(s)]
  BY DEF PoolWaitDelete, ReleasedUpTo
<1> QED BY <1>2, <1>3

\* After some of the tasks in s, the others still wait.
StillWait(k1, k, p, s, n, t) ==
    /\ PoolState(k1) /\ Only(k1, k, PoolWaitEnds) /\ Runnable(k1, PoolPlaces(k1), t)
    /\ \A i \in (n+1)..Len(s) : k1.state[s[i]] \in WaitBit
    /\ \A u \in Task : WaitsFor(k1, u, p) => \E i \in (n+1)..Len(s) : u = s[i]

LEMMA OneLessWaits ==
    ASSUME NEW k, NEW p \in MPF, NEW t \in Task, NEW s \in Seq(Task), IsInjective(s),
           NEW n \in 1..Len(s), NEW k1, StillWait(k1, k, p, s, n-1, t)
    PROVE  StillWait(EndPoolWait(k1, s[n], "E_DLT"), k, p, s, n, t)
<1> DEFINE u == s[n]
           k2 == EndPoolWait(k1, u, "E_DLT")
<1>1. /\ PoolState(k1) /\ Only(k1, k, PoolWaitEnds) /\ Runnable(k1, PoolPlaces(k1), t)
      /\ \A i \in n..Len(s) : k1.state[s[i]] \in WaitBit
      /\ \A v \in Task : WaitsFor(k1, v, p) => \E i \in n..Len(s) : v = s[i]
  <2>1. (n - 1) + 1 = n
    OBVIOUS
  <2> QED BY <2>1 DEF StillWait
<1>2. u \in Task /\ k1.state[u] \in WaitBit /\ n \in Nat /\ Len(s) \in Nat
  BY <1>1
<1>3. PoolWaitEnded(k2, k1, u)
  BY <1>1, <1>2, EndPoolWaitState
<1>4. \A i \in (n+1)..Len(s) : i \in n..Len(s) /\ s[i] \in Task /\ s[i] # u
  BY <1>2 DEF IsInjective
<1>5. \A i \in n..Len(s) : i = n \/ i \in (n+1)..Len(s)
  BY <1>2
<1> HIDE DEF k2, u
<1>6. PoolState(k2) /\ Runnable(k2, PoolPlaces(k2), t)
  BY <1>1, <1>2, <1>3, EndWaitKeeps
<1>7. Only(k2, k, PoolWaitEnds)
  <2>1. Only(k2, k1, PoolWaitEnds)
    BY <1>3 DEF PoolWaitEnded
  <2> QED BY <1>1, <2>1, OnlyTrans
<1>8. /\ \A v \in Task \ {u} : k2.state[v] = k1.state[v] /\ k2.wid[v] = k1.wid[v]
      /\ k2.state[u] \notin WaitBit
  BY <1>3, ATaskWaits DEF PoolWaitEnded
<1>9. \A i \in (n+1)..Len(s) : k2.state[s[i]] \in WaitBit
  BY <1>1, <1>4, <1>8
<1>10. ASSUME NEW v \in Task, WaitsFor(k2, v, p)
       PROVE  \E i \in (n+1)..Len(s) : v = s[i]
  <2>1. v # u /\ WaitsFor(k1, v, p)
    BY <1>8, <1>10 DEF WaitsFor
  <2>2. PICK i \in n..Len(s) : v = s[i]
    BY <2>1, <1>1
  <2> QED BY <2>1, <2>2, <1>5 DEF u
<1> QED BY <1>6, <1>7, <1>9, <1>10 DEF StillWait, k2, u

LEMMA PoolWaitDeleteState ==
    ASSUME NEW k, PoolState(k), NEW p \in MPF, NEW t \in Task, Runnable(k, PoolPlaces(k), t),
           NEW k1, k1 = PoolWaitDelete(k, p)
    PROVE  /\ PoolState(k1) /\ Only(k1, k, PoolWaitEnds) /\ Runnable(k1, PoolPlaces(k1), t)
           /\ ~HasWaiter(k1, p)
<1> DEFINE s == k.que[p]
<1>1. /\ s \in Seq(Task) /\ IsInjective(s)
      /\ \A u \in Task : InRing(s, u) <=> WaitsFor(k, u, p)
  BY WaiterQueued
<1>2. PICK f : ReleasedUpTo(f, k, s, Len(s)) /\ PoolWaitDelete(k, p) = f[Len(s)]
  BY <1>1, PoolWaitDeleteIs
<1> DEFINE Bad == {n \in 0..Len(s) : ~StillWait(f[n], k, p, s, n, t)}
<1>3. StillWait(k, k, p, s, 0, t)
  <2>1. ASSUME NEW i \in 1..Len(s) PROVE k.state[s[i]] \in WaitBit
    <3>1. s[i] \in Task /\ InRing(s, s[i])
      BY <1>1 DEF InRing
    <3> QED BY <3>1, <1>1 DEF WaitsFor
  <2>2. ASSUME NEW u \in Task, WaitsFor(k, u, p) PROVE \E i \in 1..Len(s) : u = s[i]
    BY <2>2, <1>1 DEF InRing
  <2>3. Only(k, k, PoolWaitEnds)
    BY DEF Only
  <2> HIDE DEF s
  <2> QED BY <2>1, <2>2, <2>3 DEF StillWait
<1>4. Len(s) \in Nat /\ f[0] = k
      /\ \A n \in 1..Len(s) : f[n] = EndPoolWait(f[n-1], s[n], "E_DLT")
  <2>1. Len(s) \in Nat
    BY <1>1
  <2> HIDE DEF s
  <2>2. f = [i \in 0..Len(s) |-> IF i = 0 THEN k ELSE EndPoolWait(f[i-1], s[i], "E_DLT")]
    BY <1>2 DEF ReleasedUpTo
  <2>3. \A i \in 0..Len(s) : f[i] = IF i = 0 THEN k ELSE EndPoolWait(f[i-1], s[i], "E_DLT")
    BY <2>2
  <2>4. \A n \in 1..Len(s) : n \in 0..Len(s) /\ n # 0
    BY <2>1
  <2> QED BY <2>1, <2>3, <2>4
<1>5. Bad \subseteq Nat /\ \A n \in 0..Len(s) : n \notin Bad => StillWait(f[n], k, p, s, n, t)
  BY <1>4
<1>6. Bad \subseteq 0..Len(s) /\ \A n \in Bad : ~StillWait(f[n], k, p, s, n, t)
  OBVIOUS
<1> HIDE DEF s, Bad
<1>7. Bad = {}
  <2> SUFFICES ASSUME Bad # {} PROVE FALSE
    OBVIOUS
  <2>1. PICK n \in Bad : \A j \in Bad : n <= j
    BY <1>5, LeastElement
  <2>2. n # 0 /\ n \in 0..Len(s)
    BY <2>1, <1>3, <1>4, <1>6
  <2>3. n \in 1..Len(s) /\ n - 1 \in 0..Len(s) /\ n - 1 \notin Bad
    BY <2>1, <2>2, <1>4
  <2>4. StillWait(f[n-1], k, p, s, n-1, t)
    BY <2>3, <1>5
  <2>5. StillWait(f[n], k, p, s, n, t)
    BY <2>3, <2>4, <1>1, <1>4, OneLessWaits
  <2> QED BY <2>1, <2>5, <1>6
<1>8. StillWait(k1, k, p, s, Len(s), t)
  BY <1>2, <1>4, <1>5, <1>7
<1>9. (Len(s)+1)..Len(s) = {}
  BY <1>4
<1> QED BY <1>8, <1>9 DEF StillWait, HasWaiter

LEMMA DelBodyStep ==
    ASSUME PoolInv, DelBody
    PROVE  PoolInv'
<1> DEFINE t == ctxtsk
           p == kn.call[t].p
           k == PoolWaitDelete(kn, p)
           c == [k.call[t] EXCEPT !.at = "unlock"]
           k0 == [k EXCEPT !.mpf[p] = "free", !.mpfatr[p] = "TFIFO", !.frbcnt[p] = 0,
                           !.unused[p] = 1, !.freelist[p] = <<>>, !.given[p] = {}]
           k1 == Goto(k0, "unlock")
<1>1. InTask /\ kn.call[t].op = "del" /\ kn.call[t].at = "body"
  BY DEF DelBody, Continues
<1>2. /\ t \in Task /\ PoolState(kn) /\ Runnable(kn, PoolPlaces(kn), t)
      /\ KernelField \cup PoolField \subseteq DOMAIN kn /\ kn.call[t] \in CallRecord
  BY <1>1, InExecution
<1>3. CASE kn.mpf[p] # "exists" /\ PlainStep(Goto(kn, "unlock"))
  BY <1>1, <1>3, LeavePool
<1>4. CASE kn.mpf[p] = "exists" /\ PlainStep(k1)
  <2>1. p \in MPF
    BY <1>1, <1>2, OwnFacts, IdleCall
  <2>2. /\ PoolState(k) /\ Only(k, kn, PoolWaitEnds) /\ Runnable(k, PoolPlaces(k), t)
        /\ ~HasWaiter(k, p)
    BY <2>1, <1>2, PoolWaitDeleteState
  <2> HIDE DEF k
  <2>3. k.call = kn.call /\ k.mpf = kn.mpf /\ PoolField \subseteq DOMAIN k
    BY <1>2, <2>2 DEF Only, PoolWaitEnds, WaitEnds, ReadyQue, PoolField
  <2>4. PoolUnmade(k1, k, t, p, c)
    BY <2>3 DEF PoolUnmade, Only, PoolField, OwnField, Goto
  <2>5. GoesOn(c, k.call[t], "unlock")
    <3>1. k.call[t] \in CallRecord
      BY <1>2, <2>3
    <3>2. c = [k.call[t] EXCEPT !.at = "unlock"]
      OBVIOUS
    <3> HIDE DEF c, k1, p, t
    <3> QED BY <3>1, <3>2, CallAt DEF At, GoesOn
  <2>6. PlainStep(k1)
    BY <1>4
  <2>7. k.call[t].op = "del" /\ k.call[t].at = "body" /\ p = k.call[t].p /\ k.mpf[p] = "exists"
    BY <1>1, <1>4, <2>3
  <2> HIDE DEF k1, c, p
  <2>8. OwnStepped(k1, k)
    BY <1>2, <2>2, <2>4, <2>5, <2>7, DelPoolState
  <2>9. PoolState(k1) /\ Runnable(k1, PoolPlaces(k1), t)
    BY <1>2, <2>2, <2>8 DEF OwnStepped
  <2> QED BY <2>6, <2>9, PlainControl
<1>5. PlainStep(Goto(IF kn.mpf[p] # "exists" THEN kn ELSE k0, "unlock"))
  BY DEF DelBody, Pool
<1> HIDE DEF k0
<1> QED BY <1>3, <1>4, <1>5

(***************************************************************************)
(* A step that concerns one task, and no pool.                             *)
(***************************************************************************)
SameTask(k1, k, u) ==
    /\ k1.state[u] = k.state[u] /\ k1.priority[u] = k.priority[u]
    /\ k1.klockwait[u] = k.klockwait[u] /\ k1.wspec[u] = k.wspec[u]
    /\ k1.wtmeb[u] = k.wtmeb[u] /\ k1.wid[u] = k.wid[u] /\ k1.call[u] = k.call[u]

\* The waits of task t are as they should be.
WaitsFair(k, t) ==
    /\ k.state[t] \in WaitBit =>
          /\ k.wid[t] \in MPF
          /\ k.mpf[k.wid[t]] = "exists" /\ k.frbcnt[k.wid[t]] = 0
          /\ k.wspec[t] = IF k.mpfatr[k.wid[t]] = "TPRI" THEN "mpf_tpri" ELSE "mpf_tfifo"
    /\ k.wtmeb[t] => k.state[t] \in WaitBit

\* The pools are as before, apart from given, and so are the tasks but t.
OneTask(k1, k, t) ==
    /\ k1.mpf = k.mpf /\ k1.mpfatr = k.mpfatr /\ k1.locked = k.locked
    /\ k1.frbcnt = k.frbcnt /\ k1.klocked = k.klocked
    /\ \A u \in Task \ {t} : SameTask(k1, k, u)

\* Task t waits for nothing new, and goes on with its call or abandons it
\* before it has a lock.
Bystander(k1, k, t) ==
    /\ HoldsFair(k1, t) /\ WaitsFair(k1, t)
    /\ k1.call[t] = k.call[t] \/ (k1.call[t] = Idle /\ ~k.klocked[t])
    /\ \A p : WaitsFor(k1, t, p) => WaitsFor(k, t, p)

LEMMA TaskChange ==
    ASSUME NEW k, PoolState(k), NEW t \in Task, NEW k1,
           Steady(k1, [PoolPlaces(k) EXCEPT ![t] = PlaceOfTask(k1, t)]),
           Pools(k1), Sorted(k1), BlockInv(k1), CallInv(k1),
           OneTask(k1, k, t), Bystander(k1, k, t)
    PROVE  PoolState(k1)
<1>1. LockInv(k) /\ WaitInv(k)
  BY DEF PoolState
<1>2. PoolPlaces(k1) = [PoolPlaces(k) EXCEPT ![t] = PlaceOfTask(k1, t)]
  <2>1. \A u \in Task \ {t} : PlaceOfTask(k1, u) = PlaceOfTask(k, u)
    BY SamePlace DEF OneTask, SameTask
  <2> QED BY <2>1, OnePlace
<1>3. ASSUME NEW u \in Task PROVE HoldsFair(k1, u)
  <2>1. CASE u = t
    BY <2>1 DEF Bystander
  <2>2. CASE u # t
    <3>1. HoldsFair(k, u)
      BY <1>1, LockParting
    <3> QED BY <2>2, <3>1 DEF HoldsFair, OneTask, SameTask
  <2> QED BY <2>1, <2>2
<1>4. \A u \in Task : k1.klocked[u] => k.klocked[u] /\ k1.call[u] = k.call[u]
  BY DEF OneTask, SameTask, Bystander
<1>5. \A u \in Task : k.klocked[u] => k1.klocked[u] /\ k1.call[u] = k.call[u]
  BY DEF OneTask, SameTask, Bystander
<1>6. LockInv(k1)
  <2>1. \A u, v \in Task :
           k1.klocked[u] /\ k1.klocked[v] /\ k1.call[u].p = k1.call[v].p => u = v
    BY <1>1, <1>4 DEF LockInv
  <2>2. \A q \in MPF : k1.locked[q] => \E u \in Task : k1.klocked[u] /\ k1.call[u].p = q
    BY <1>1, <1>5 DEF LockInv, OneTask
  <2> QED BY <1>3, <2>1, <2>2, LockParting
<1>7. ASSUME NEW u \in Task, NEW p, WaitsFor(k1, u, p) PROVE WaitsFor(k, u, p)
  <2>1. CASE u = t
    BY <2>1, <1>7 DEF Bystander
  <2>2. CASE u # t
    BY <2>2, <1>7 DEF WaitsFor, OneTask, SameTask
  <2> QED BY <2>1, <2>2
<1>8. ASSUME NEW u \in Task PROVE WaitsFair(k1, u)
  <2>1. CASE u = t
    BY <2>1 DEF Bystander
  <2>2. CASE u # t
    <3>1. WaitsFair(k, u)
      BY <1>1 DEF WaitInv, WaitsFair
    <3> QED BY <2>2, <3>1 DEF WaitsFair, OneTask, SameTask
  <2> QED BY <2>1, <2>2
<1>9. ASSUME NEW u \in Task, k1.call[u].at = "put"
      PROVE  /\ k1.call[u].op = "rel" /\ k1.mpf[k1.call[u].p] = "exists"
             /\ \A v \in Task : ~WaitsFor(k1, v, k1.call[u].p)
  <2>1. k1.call[u] = k.call[u]
    BY <1>9, IdleCall DEF OneTask, SameTask, Bystander
  <2>2. /\ k.call[u].op = "rel" /\ k.mpf[k.call[u].p] = "exists"
        /\ \A v \in Task : ~WaitsFor(k, v, k.call[u].p)
    BY <1>1, <1>9, <2>1 DEF WaitInv
  <2> QED BY <1>7, <2>1, <2>2 DEF OneTask
<1>10. WaitInv(k1)
  BY <1>8, <1>9 DEF WaitInv, WaitsFair
<1> QED BY <1>2, <1>6, <1>10 DEF PoolState

\* A change of a field that no part of the invariant looks at.
LEMMA HiddenField ==
    ASSUME NEW k, PoolState(k), NEW k1, NEW F, F \in {{"bpriority"}, {"wercd"}, {"suscnt"}},
           Only(k1, k, F)
    PROVE  /\ PoolState(k1)
           /\ \A u \in Task : Runnable(k1, PoolPlaces(k1), u) <=> Runnable(k, PoolPlaces(k), u)
<1>1. Kernel(k) /\ Pools(k) /\ Steady(k, PoolPlaces(k)) /\ KernelField \cup PoolField \subseteq DOMAIN k
  BY DEF PoolState, Steady, Ready, Kernel, Pools
<1>2. /\ k1.state = k.state /\ k1.klocked = k.klocked /\ k1.klockwait = k.klockwait
      /\ k1.wspec = k.wspec /\ k1.wtmeb = k.wtmeb /\ k1.que = k.que
      /\ k1.priority = k.priority /\ k1.wid = k.wid /\ k1.mpf = k.mpf
      /\ k1.mpfatr = k.mpfatr /\ k1.locked = k.locked /\ k1.frbcnt = k.frbcnt
      /\ k1.unused = k.unused /\ k1.freelist = k.freelist /\ k1.given = k.given
      /\ k1.call = k.call /\ DOMAIN k1 = DOMAIN k
  BY <1>1 DEF Only, KernelField, PoolField
<1>3. PoolPlaces(k1) = PoolPlaces(k)
  BY <1>2 DEF PoolPlaces, PlaceOfTask
<1>4. Steady(k1, PoolPlaces(k))
  <2>1. F \cap {"que", "bitmap", "top_priority", "klocktsk", "schedtsk",
                "priority", "ipriority", "klocked", "klockwait"} = {}
    OBVIOUS
  <2>2. k1.state \in [Task -> TSTAT] /\ k1.wspec \in [Task -> WSpec]
        /\ k1.wtmeb \in [Task -> BOOLEAN]
    BY <1>1, <1>2 DEF Kernel
  <2> QED BY <1>1, <2>1, <2>2, FieldsChange
<1>5. Pools(k1)
  BY <1>1, <1>2 DEF Pools
<1>6. LockInv(k1)
  BY <1>2 DEF PoolState, LockInv
<1>7. WaitInv(k1)
  BY <1>2 DEF PoolState, WaitInv, WaitsFor
<1>8. Sorted(k1)
  BY <1>2 DEF PoolState, Sorted
<1>9. BlockInv(k1) /\ CallInv(k1)
  BY <1>2, BlocksKept DEF PoolState
<1> QED BY <1>2, <1>3, <1>4, <1>5, <1>6, <1>7, <1>8, <1>9 DEF PoolState, Runnable

\* The kernel's part of a task.
SameInKernel(k1, k, u) ==
    /\ k1.state[u] = k.state[u] /\ k1.priority[u] = k.priority[u]
    /\ k1.klockwait[u] = k.klockwait[u] /\ k1.wspec[u] = k.wspec[u]
    /\ k1.wtmeb[u] = k.wtmeb[u]

\* What a step that concerns the kernel's part of task t leaves as it was.
KernelOnly(k1, k) ==
    /\ k1.mpf = k.mpf /\ k1.mpfatr = k.mpfatr /\ k1.locked = k.locked
    /\ k1.frbcnt = k.frbcnt /\ k1.unused = k.unused /\ k1.freelist = k.freelist
    /\ k1.given = k.given /\ k1.wid = k.wid /\ k1.call = k.call
    /\ k1.klocked = k.klocked

LEMMA OnlyKernel ==
    ASSUME NEW k, PoolState(k), NEW k1, NEW F, Only(k1, k, F), F \cap PoolField = {},
           "klocked" \notin F
    PROVE  KernelOnly(k1, k) /\ PoolField \subseteq DOMAIN k1
<1>1. KernelField \cup PoolField \subseteq DOMAIN k
  BY DEF PoolState, Steady, Ready, Kernel, Pools
<1> QED BY <1>1 DEF Only, KernelField, PoolField, KernelOnly

LEMMA TaskStep ==
    ASSUME NEW k, PoolState(k), NEW t \in Task, NEW k1, KernelOnly(k1, k),
           PoolField \subseteq DOMAIN k1,
           Steady(k1, [PoolPlaces(k) EXCEPT ![t] = PlaceOfTask(k1, t)]), Sorted(k1),
           \A u \in Task \ {t} : SameInKernel(k1, k, u),
           k1.klockwait[t] => k.klockwait[t],
           k1.klockwait[t] => k1.state[t] = "READY",
           k1.state[t] \notin {"READY", "SUSPEND"} => k.call[t] = Idle,
           k1.state[t] \in WaitBit => k.state[t] \in WaitBit /\ k1.wspec[t] = k.wspec[t],
           k1.wtmeb[t] => k1.state[t] \in WaitBit
    PROVE  PoolState(k1)
<1>1. Pools(k) /\ LockInv(k) /\ WaitInv(k) /\ BlockInv(k) /\ CallInv(k)
  BY DEF PoolState
<1>2. Pools(k1)
  BY <1>1 DEF Pools, KernelOnly
<1>3. BlockInv(k1) /\ CallInv(k1)
  BY <1>1, BlocksKept DEF KernelOnly
<1>4. OneTask(k1, k, t)
  BY DEF OneTask, SameTask, KernelOnly, SameInKernel
<1>5. Bystander(k1, k, t)
  <2>1. HoldsFair(k, t)
    BY <1>1, LockParting
  <2>2. HoldsFair(k1, t)
    BY <2>1 DEF HoldsFair, KernelOnly
  <2>3. WaitsFair(k, t)
    BY <1>1 DEF WaitInv, WaitsFair
  <2>4. WaitsFair(k1, t)
    BY <2>3 DEF WaitsFair, KernelOnly
  <2>5. \A p : WaitsFor(k1, t, p) => WaitsFor(k, t, p)
    BY DEF WaitsFor, KernelOnly
  <2>6. k1.call[t] = k.call[t]
    BY DEF KernelOnly
  <2> QED BY <2>2, <2>4, <2>5, <2>6 DEF Bystander
<1> QED BY <1>2, <1>3, <1>4, <1>5, TaskChange

\* A task that does not exist is in the queue of free TCBs.
LEMMA FreeTask ==
    ASSUME NEW k, PoolState(k), k.que[FreeTcb] # <<>>, NEW t, t = Head(k.que[FreeTcb])
    PROVE  t \in Task /\ k.state[t] = "NONEXIST" /\ PoolPlaces(k)[t] = {FreeTcb}
<1> DEFINE s == k.que[FreeTcb]
           r == PoolPlaces(k)
<1>1. /\ s \in Seq(Task) /\ IsInjective(s) /\ FreeTcb \in QueHead /\ FreeTcb \notin Pri
      /\ \A u \in Task : InRing(s, u) <=> FreeTcb \in r[u]
  BY OtherHeads DEF PoolState, Steady, Ready, Kernel, Rings, Linked
<1>2. t \in Task /\ InRing(s, t)
  <2>1. t = Head(s) /\ s # <<>> /\ s \in Seq(Task) /\ IsInjective(s)
    BY <1>1
  <2> HIDE DEF s, r
  <2>2. Head(s) \in Task /\ InRing(s, Head(s))
    BY <2>1, TailEntries, InRingContains
  <2> QED BY <2>1, <2>2
<1> HIDE DEF s, r
<1>3. FreeTcb \in r[t] /\ k.priority[t] \in Pri
  BY <1>1, <1>2 DEF PoolState, Steady, Ready, Kernel
<1>4. k.klockwait[t] => k.call[t].p \in MPF
  BY <1>2 DEF PoolState, LockInv
<1>5. k.state[t] = "NONEXIST"
  <2>1. CASE k.state[t] = "READY" /\ ~k.klockwait[t]
    BY <2>1, <1>1, <1>2, <1>3, PlaceCases DEF r
  <2>2. CASE k.state[t] = "READY" /\ k.klockwait[t]
    BY <2>2, <1>2, <1>3, <1>4, PoolHeads, PlaceCases DEF r
  <2>3. CASE k.state[t] \in WaitBit
    BY <2>3, <1>2, <1>3, PoolHeads, PlaceCases DEF r
  <2>4. CASE k.state[t] \notin WaitBit \cup {"READY", "NONEXIST"}
    BY <2>4, <1>2, <1>3, PlaceCases DEF r
  <2> QED BY <2>1, <2>2, <2>3, <2>4
<1> QED BY <1>2, <1>5, PlaceCases

(***************************************************************************)
(* Tasks are created, started, suspended and resumed.                      *)
(***************************************************************************)
LEMMA CreTskState ==
    ASSUME NEW k, PoolState(k), NEW p \in Pri, k.que[FreeTcb] # <<>>
    PROVE  PoolState(CreateTcb(k, p))
<1> DEFINE t == Head(k.que[FreeTcb])
           r == PoolPlaces(k)
           k1 == CreateTcb(k, p)
<1>1. t \in Task /\ k.state[t] = "NONEXIST" /\ r[t] = {FreeTcb}
  BY FreeTask
<1>2. Steady(k, r) /\ Kernel(k) /\ Sorted(k) /\ LockInv(k) /\ WaitInv(k)
  BY DEF PoolState, Steady, Ready
<1>3. Created(k1, k, r, t)
  <2> HIDE DEF r, k1
  <2>1. t \in Task /\ Created(CreateTcb(k, p), k, r, t)
    BY <1>1, <1>2, CreateTcbSteady
  <2> QED BY <2>1 DEF k1
<1> HIDE DEF t, r, k1
<1>4. /\ Steady(k1, [r EXCEPT ![t] = {}])
      /\ Only(k1, k, Dormancy \cup {"que", "ipriority"})
      /\ k1.state = [k.state EXCEPT ![t] = "DORMANT"]
      /\ \A u \in Task \ {t} : k1.priority[u] = k.priority[u]
      /\ k1.klocked = [k.klocked EXCEPT ![t] = FALSE]
      /\ k1.klockwait = [k.klockwait EXCEPT ![t] = FALSE]
      /\ k1.wspec = [k.wspec EXCEPT ![t] = NoSpec]
      /\ \A h \in QueHead \ {FreeTcb} : k1.que[h] = k.que[h]
  BY <1>3 DEF Created
<1>5. k.call[t] = Idle /\ ~k.klocked[t] /\ ~k.klockwait[t] /\ ~k.wtmeb[t]
  BY <1>1, <1>2, ATaskWaits DEF LockInv, WaitInv
<1>6. k1.klocked = k.klocked
  <2>1. k.klocked \in [Task -> BOOLEAN]
    BY <1>2 DEF Kernel
  <2>2. [k.klocked EXCEPT ![t] = FALSE] = k.klocked
    BY <1>1, <1>5, <2>1, FalseEntry
  <2> QED BY <1>4, <2>2
<1>7. /\ k1.wtmeb = k.wtmeb /\ k1.mpf = k.mpf /\ k1.mpfatr = k.mpfatr /\ k1.locked = k.locked
      /\ k1.frbcnt = k.frbcnt /\ k1.unused = k.unused /\ k1.freelist = k.freelist
      /\ k1.given = k.given /\ k1.wid = k.wid /\ k1.call = k.call
      /\ PoolField \subseteq DOMAIN k1
  <2>1. KernelField \cup PoolField \subseteq DOMAIN k
    BY DEF PoolState, Steady, Ready, Kernel, Pools
  <2> QED BY <1>4, <2>1 DEF Only, KernelField, PoolField, Dormancy
<1>8. k1.state[t] = "DORMANT" /\ ~k1.klockwait[t]
  BY <1>1, <1>2, <1>4 DEF Kernel
<1>9. PlaceOfTask(k1, t) = {}
  BY <1>8, ATaskWaits DEF PlaceOfTask
<1>10. Sorted(k1)
  <2>1. \A q \in MPF : k1.que[q] = k.que[q]
    BY <1>4, PoolHeads, OtherHeads
  <2>2. \A q \in MPF : k.mpfatr[q] = "TPRI" => q \notin r[t]
    BY <1>1, PoolHeads
  <2> QED BY <1>1, <1>2, <1>4, <1>7, <2>1, <2>2, SortedKept
<1>11. \A u \in Task \ {t} : SameInKernel(k1, k, u)
  BY <1>2, <1>4, <1>7 DEF SameInKernel, Kernel
<1>12. KernelOnly(k1, k)
  BY <1>6, <1>7 DEF KernelOnly
<1>13. Steady(k1, [PoolPlaces(k) EXCEPT ![t] = PlaceOfTask(k1, t)])
  BY <1>4, <1>9 DEF r
<1>14. PoolState(k1)
  BY <1>1, <1>5, <1>7, <1>8, <1>10, <1>11, <1>12, <1>13, ATaskWaits, TaskStep
<1> QED BY <1>14 DEF k1

\* A dormant or suspended task is made ready.
ReadyAgain(k1, k, t) ==
    /\ Steady(k1, [PoolPlaces(k) EXCEPT ![t] = {k.priority[t]}])
    /\ Only(k1, k, ReadyQue \cup {"state", "schedtsk", "suscnt"})
    /\ k1.state = [k.state EXCEPT ![t] = "READY"]
    /\ \A h \in OtherHead : k1.que[h] = k.que[h]

LEMMA ReadyAgainState ==
    ASSUME NEW k, PoolState(k), NEW t \in Task, k.state[t] \in {"DORMANT", "SUSPEND"},
           NEW k1, ReadyAgain(k1, k, t)
    PROVE  PoolState(k1)
<1>1. Steady(k, PoolPlaces(k)) /\ Kernel(k) /\ Sorted(k) /\ LockInv(k) /\ WaitInv(k)
  BY DEF PoolState, Steady, Ready
<1>2. /\ Steady(k1, [PoolPlaces(k) EXCEPT ![t] = {k.priority[t]}])
      /\ Only(k1, k, ReadyQue \cup {"state", "schedtsk", "suscnt"})
      /\ k1.state = [k.state EXCEPT ![t] = "READY"]
      /\ \A h \in OtherHead : k1.que[h] = k.que[h]
  BY DEF ReadyAgain
<1>3. KernelOnly(k1, k) /\ PoolField \subseteq DOMAIN k1
  <2> DEFINE F == ReadyQue \cup {"state", "schedtsk", "suscnt"}
  <2>1. F \cap PoolField = {} /\ "klocked" \notin F
    BY DEF ReadyQue, PoolField
  <2> QED BY <1>2, <2>1, OnlyKernel
<1>4. /\ k1.wtmeb = k.wtmeb /\ k1.klockwait = k.klockwait /\ k1.priority = k.priority
      /\ k1.wspec = k.wspec
  <2>1. KernelField \subseteq DOMAIN k
    BY <1>1 DEF Kernel
  <2> QED BY <1>2, <2>1 DEF Only, KernelField, ReadyQue
<1>5. ~k.klockwait[t] /\ ~k.wtmeb[t]
  BY <1>1, ATaskWaits DEF LockInv, WaitInv
<1>6. k1.state[t] = "READY"
  BY <1>1, <1>2 DEF Kernel
<1>7. PlaceOfTask(k1, t) = {k.priority[t]}
  <2>1. (IF k1.klockwait[t] THEN LockQ[k1.call[t].p] ELSE k1.priority[t]) = k.priority[t]
    BY <1>4, <1>5
  <2> QED BY <1>6, <2>1, ATaskWaits DEF PlaceOfTask
<1>8. Sorted(k1)
  BY <1>1, <1>2, <1>3, <1>4, PoolHeads, SortedKept DEF KernelOnly
<1>9. \A u \in Task \ {t} : SameInKernel(k1, k, u)
  BY <1>1, <1>2, <1>4 DEF SameInKernel, Kernel
<1>10. Steady(k1, [PoolPlaces(k) EXCEPT ![t] = PlaceOfTask(k1, t)])
  BY <1>2, <1>7
<1> QED BY <1>3, <1>4, <1>5, <1>6, <1>8, <1>9, <1>10, ATaskWaits, TaskStep

LEMMA StaTskState ==
    ASSUME NEW k, PoolState(k), NEW t \in Task, k.state[t] = "DORMANT"
    PROVE  PoolState(MakeReady(k, t))
<1> DEFINE r == PoolPlaces(k)
           k1 == MakeReady(k, t)
<1>1. Steady(k, r) /\ LockInv(k)
  BY DEF PoolState
<1>2. r[t] = {} /\ ~k.klockwait[t]
  BY <1>1, PlaceCases, ATaskWaits DEF LockInv
<1> HIDE DEF r, k1
<1>3. MadeReady(k1, k, r, t)
  BY <1>1, <1>2, MakeReadySteady DEF k1
<1>4. ReadyAgain(k1, k, t)
  <2>1. ReadyQue \cup {"state", "schedtsk"} \subseteq ReadyQue \cup {"state", "schedtsk", "suscnt"}
    OBVIOUS
  <2>2. Only(k1, k, ReadyQue \cup {"state", "schedtsk", "suscnt"})
    BY <1>3, <2>1 DEF MadeReady, Only
  <2> QED BY <1>3, <2>2 DEF MadeReady, ReadyAgain, r
<1>5. PoolState(k1)
  BY <1>4, ReadyAgainState
<1> QED BY <1>5 DEF k1

LEMMA SuspendState ==
    ASSUME NEW k, PoolState(k), NEW t \in Task, k.state[t] \in Alive
    PROVE  PoolState(Suspend(k, t))
<1> DEFINE r == PoolPlaces(k)
           k1 == Suspend(k, t)
           s == IF k.state[t] = "READY" THEN "SUSPEND"
                ELSE IF k.state[t] = "WAIT" THEN "WAITSUS" ELSE k.state[t]
<1>1. Steady(k, r) /\ Kernel(k) /\ Sorted(k) /\ LockInv(k) /\ WaitInv(k)
  BY DEF PoolState, Steady, Ready
<1>2. k.state[t] = "READY" => MayLeave(k, r, t)
  BY PlaceCases
<1> HIDE DEF r, k1
<1>3. Suspended(k1, k, r, t)
  BY <1>1, <1>2, SuspendSteady DEF k1
<1>4. /\ Steady(k1, IF k.state[t] = "READY" THEN [r EXCEPT ![t] = {}] ELSE r)
      /\ Only(k1, k, ReadyQue \cup {"klockwait", "schedtsk", "state", "suscnt"})
      /\ k1.state = [k.state EXCEPT ![t] = s]
      /\ k1.klockwait = IF k.state[t] = "READY" THEN [k.klockwait EXCEPT ![t] = FALSE]
                        ELSE k.klockwait
      /\ \A h \in OtherHead :
            k1.que[h] = IF k.state[t] = "READY" THEN Unlink(k.que[h], t) ELSE k.que[h]
  BY <1>3 DEF Suspended
<1>5. k.state[t] \in {"READY", "WAIT", "SUSPEND", "WAITSUS"}
  BY <1>1 DEF Kernel, TSTAT, Alive
<1> HIDE DEF s
<1>6. KernelOnly(k1, k) /\ PoolField \subseteq DOMAIN k1
  <2> DEFINE F == ReadyQue \cup {"klockwait", "schedtsk", "state", "suscnt"}
  <2>1. F \cap PoolField = {} /\ "klocked" \notin F
    BY DEF ReadyQue, PoolField
  <2> QED BY <1>4, <2>1, OnlyKernel
<1>7. k1.wtmeb = k.wtmeb /\ k1.priority = k.priority /\ k1.wspec = k.wspec
  <2>1. KernelField \subseteq DOMAIN k
    BY <1>1 DEF Kernel
  <2> QED BY <1>4, <2>1 DEF Only, KernelField, ReadyQue
<1>8. k1.state[t] = s /\ \A u \in Task \ {t} : k1.state[u] = k.state[u]
  BY <1>1, <1>4 DEF Kernel
<1>9. \A u \in Task \ {t} : k1.klockwait[u] = k.klockwait[u]
  BY <1>1, <1>4 DEF Kernel
<1>10. \A u \in Task \ {t} : SameInKernel(k1, k, u)
  BY <1>7, <1>8, <1>9 DEF SameInKernel
<1>11. ~k1.klockwait[t]
  <2>1. CASE k.state[t] = "READY"
    BY <2>1, <1>1, <1>4 DEF Kernel
  <2>2. CASE k.state[t] # "READY"
    BY <2>2, <1>1, <1>4 DEF LockInv
  <2> QED BY <2>1, <2>2
<1>12. k.state[t] \notin {"READY", "SUSPEND"} => k.call[t] = Idle
  BY <1>1 DEF LockInv
<1>13. k.wtmeb[t] => k.state[t] \in WaitBit
  BY <1>1 DEF WaitInv
<1>14. s \in WaitBit <=> k.state[t] \in WaitBit
  BY <1>5 DEF s, WaitBit
<1>15. s \notin {"READY", "SUSPEND"} => k.state[t] \notin {"READY", "SUSPEND"}
  BY <1>5 DEF s
<1>16. Steady(k1, [PoolPlaces(k) EXCEPT ![t] = PlaceOfTask(k1, t)]) /\ Sorted(k1)
  <2>1. CASE k.state[t] = "READY"
    <3>1. PlaceOfTask(k1, t) = {}
      BY <2>1, <1>8, ATaskWaits DEF PlaceOfTask, s
    <3>2. Sorted(k1)
      BY <2>1, <1>1, <1>4, <1>6, <1>7, SortedUnlinked DEF KernelOnly
    <3> QED BY <2>1, <3>1, <3>2, <1>4 DEF r
  <2>2. CASE k.state[t] # "READY"
    <3>1. PlaceOfTask(k1, t) = PlaceOfTask(k, t)
      <4>1. CASE k.state[t] \in WaitBit
        <5>1. PlaceOfTask(k1, t) = {k1.wid[t]}
          BY <4>1, <1>8, <1>14, ATaskWaits DEF PlaceOfTask
        <5>2. PlaceOfTask(k, t) = {k.wid[t]}
          BY <4>1, ATaskWaits DEF PlaceOfTask
        <5> QED BY <5>1, <5>2, <1>6 DEF KernelOnly
      <4>2. CASE k.state[t] = "SUSPEND"
        BY <4>2, <1>8, ATaskWaits DEF PlaceOfTask, s
      <4> QED BY <2>2, <4>1, <4>2, <1>5 DEF WaitBit
    <3>2. r = [r EXCEPT ![t] = PlaceOfTask(k1, t)]
      BY <3>1 DEF r, PoolPlaces
    <3>3. Sorted(k1)
      BY <2>2, <1>1, <1>4, <1>6, <1>7, PoolHeads, SortedKept DEF KernelOnly
    <3> QED BY <2>2, <3>2, <3>3, <1>4 DEF r
  <2> QED BY <2>1, <2>2
<1>17. k1.state[t] \in WaitBit => k.state[t] \in WaitBit /\ k1.wspec[t] = k.wspec[t]
  BY <1>7, <1>8, <1>14
<1>18. k1.state[t] \notin {"READY", "SUSPEND"} => k.call[t] = Idle
  BY <1>8, <1>12, <1>15
<1>19. k1.wtmeb[t] => k1.state[t] \in WaitBit
  BY <1>7, <1>8, <1>13, <1>14
<1>20. PoolState(k1)
  BY <1>6, <1>10, <1>11, <1>16, <1>17, <1>18, <1>19, TaskStep
<1> QED BY <1>20 DEF k1

LEMMA ResumeState ==
    ASSUME NEW k, PoolState(k), NEW t \in Task, k.state[t] \in {"SUSPEND", "WAITSUS"},
           NEW count
    PROVE  PoolState(Resume(k, t, count))
<1> DEFINE r == PoolPlaces(k)
           k1 == Resume(k, t, count)
<1>1. Steady(k, r) /\ Kernel(k) /\ Sorted(k) /\ LockInv(k) /\ WaitInv(k)
  BY DEF PoolState, Steady, Ready
<1>2. k.state[t] = "SUSPEND" => r[t] = {} /\ ~k.klockwait[t]
  BY <1>1, PlaceCases, ATaskWaits DEF LockInv
<1> HIDE DEF r, k1
<1>3. Unsuspended(k1, k, r, t)
  BY <1>1, <1>2, ResumeSteady DEF k1
<1>4. CASE Only(k1, k, {"suscnt"})
  <2>1. PoolState(k1)
    BY <1>4, HiddenField
  <2> QED BY <2>1 DEF k1
<1>5. CASE /\ k.state[t] = "SUSPEND"
           /\ Steady(k1, [r EXCEPT ![t] = {k.priority[t]}])
           /\ Only(k1, k, ReadyQue \cup {"state", "schedtsk", "suscnt"})
           /\ k1.state = [k.state EXCEPT ![t] = "READY"]
           /\ \A h \in OtherHead : k1.que[h] = k.que[h]
  <2>1. ReadyAgain(k1, k, t)
    BY <1>5 DEF ReadyAgain, r
  <2>2. PoolState(k1)
    BY <1>5, <2>1, ReadyAgainState
  <2> QED BY <2>2 DEF k1
<1>6. CASE /\ k.state[t] # "SUSPEND"
           /\ Steady(k1, r)
           /\ Only(k1, k, {"state", "suscnt"})
           /\ k1.state = [k.state EXCEPT ![t] = "WAIT"]
  <2>1. KernelOnly(k1, k) /\ PoolField \subseteq DOMAIN k1
    <3>1. {"state", "suscnt"} \cap PoolField = {} /\ "klocked" \notin {"state", "suscnt"}
      BY DEF PoolField
    <3> QED BY <1>6, <3>1, OnlyKernel
  <2>2. /\ k1.wtmeb = k.wtmeb /\ k1.priority = k.priority /\ k1.wspec = k.wspec
        /\ k1.klockwait = k.klockwait /\ k1.que = k.que
    <3>1. KernelField \subseteq DOMAIN k
      BY <1>1 DEF Kernel
    <3> QED BY <1>6, <3>1 DEF Only, KernelField
  <2>3. k1.state[t] = "WAIT" /\ \A u \in Task \ {t} : k1.state[u] = k.state[u]
    BY <1>1, <1>6 DEF Kernel
  <2>4. k.state[t] \in WaitBit /\ k1.state[t] \in WaitBit
    BY <1>6, <2>3 DEF WaitBit
  <2>5. ~k.klockwait[t] /\ k.call[t] = Idle
    BY <1>1, <2>4, ATaskWaits DEF LockInv
  <2>6. \A u \in Task \ {t} : SameInKernel(k1, k, u)
    BY <2>2, <2>3 DEF SameInKernel
  <2>7. PlaceOfTask(k1, t) = PlaceOfTask(k, t)
    <3>1. PlaceOfTask(k1, t) = {k1.wid[t]}
      BY <2>4, ATaskWaits DEF PlaceOfTask
    <3>2. PlaceOfTask(k, t) = {k.wid[t]}
      BY <2>4, ATaskWaits DEF PlaceOfTask
    <3> QED BY <3>1, <3>2, <2>1 DEF KernelOnly
  <2>8. Steady(k1, [PoolPlaces(k) EXCEPT ![t] = PlaceOfTask(k1, t)])
    <3>1. r = [PoolPlaces(k) EXCEPT ![t] = PlaceOfTask(k1, t)]
      BY <2>7 DEF r, PoolPlaces
    <3> QED BY <3>1, <1>6
  <2>9. Sorted(k1)
    BY <1>1, <2>1, <2>2, SortedKept DEF KernelOnly
  <2>10. PoolState(k1)
    BY <2>1, <2>2, <2>4, <2>5, <2>6, <2>8, <2>9, TaskStep
  <2> QED BY <2>10 DEF k1
<1> QED BY <1>3, <1>4, <1>5, <1>6 DEF Unsuspended

(***************************************************************************)
(* The steps that release a wait, and the dispatcher's.                    *)
(***************************************************************************)
LEMMA RelWaiPoolStep ==
    ASSUME PoolInv, NEW t \in Task, RelWaiPool(t)
    PROVE  PoolInv'
<1>1. PoolState(EndPoolWait(kn, t, "E_RLWAI"))
  BY EndPoolWaitState DEF RelWaiPool, PoolInv, PoolWaitEnded
<1> QED BY <1>1, CallControl DEF RelWaiPool

LEMMA TimerEventPoolStep ==
    ASSUME PoolInv, NEW t \in Task, TimerEventPool(t)
    PROVE  PoolInv'
<1>1. kn.state[t] \in WaitBit
  BY DEF TimerEventPool, PoolInv, PoolState, WaitInv
<1>2. PoolState(EndPoolWait(kn, t, kn.wercd[t]))
  BY <1>1, EndPoolWaitState DEF PoolInv, PoolWaitEnded
<1> QED BY <1>2, CallControl DEF TimerEventPool

LEMMA OtherSteps ==
    ASSUME PoolInv, NEW t \in Task,
           (\E p \in Pri : CreTsk(p)) \/ StaTsk("hdr", t) \/ SusTsk("hdr", t) \/ RsmTsk("hdr", t)
    PROVE  PoolInv'
<1>1. PoolState(kn)
  BY DEF PoolInv
<1>2. ASSUME NEW p \in Pri, CreTsk(p) PROVE PoolInv'
  <2>1. PoolState(CreateTcb(kn, p))
    BY <1>1, <1>2, CreTskState DEF CreTsk
  <2> QED BY <1>2, <2>1, CallControl DEF CreTsk
<1>3. CASE StaTsk("hdr", t)
  <2>1. PoolState(MakeReady(kn, t))
    BY <1>1, <1>3, StaTskState DEF StaTsk
  <2> QED BY <1>3, <2>1, CallControl DEF StaTsk
<1>4. CASE SusTsk("hdr", t)
  <2>1. PoolState(Suspend(kn, t))
    BY <1>1, <1>4, SuspendState DEF SusTsk
  <2> QED BY <1>4, <2>1, CallControl DEF SusTsk
<1>5. CASE RsmTsk("hdr", t)
  <2>1. PoolState(Resume(kn, t, kn.suscnt[t] - 1))
    BY <1>1, <1>5, ResumeState DEF RsmTsk
  <2> QED BY <1>5, <2>1, CallControl DEF RsmTsk
<1> QED BY <1>2, <1>3, <1>4, <1>5

LEMMA DispatchEntryStep ==
    ASSUME PoolInv, DispatchEntry
    PROVE  PoolInv'
<1>1. kn' = kn /\ ctxtsk' = NoTask /\ pendsv' = FALSE /\ basepri' = basepri
  BY DEF DispatchEntry
<1>2. PoolState(kn) => PoolState(kn)'
  BY <1>1 DEF PoolState, Steady, Ready
<1> QED BY <1>1, <1>2 DEF PoolInv, Control, InTask

LEMMA DispatchSwitchStep ==
    ASSUME PoolInv, DispatchSwitch
    PROVE  PoolInv'
<1> DEFINE t == kn.schedtsk
           k == [kn EXCEPT !.wercd[t] = "none"]
<1>1. /\ kn' = k /\ t # NoTask /\ ctxtsk' = t /\ dispatch_disabled' = "ENABLE"
      /\ pendsv' = pendsv /\ basepri' = basepri
  BY DEF DispatchSwitch
<1>2. PoolState(kn) /\ Control
  BY DEF PoolInv
<1>3. Only(k, kn, {"wercd"})
  BY DEF Only
<1>4. PoolState(k) /\ \A u \in Task : Runnable(k, PoolPlaces(k), u)
                                       <=> Runnable(kn, PoolPlaces(kn), u)
  <2> HIDE DEF k, t
  <2> QED BY <1>2, <1>3, HiddenField
<1>5. t \in Task /\ Runnable(kn, PoolPlaces(kn), t)
  BY <1>1, <1>2 DEF PoolState, Steady, Selected, Ready, Kernel
<1>6. Runnable(k, PoolPlaces(k), t)
  BY <1>4, <1>5
<1> HIDE DEF k, t
<1>7. PoolState(k) => PoolState(kn)'
  BY <1>1 DEF PoolState, Steady, Ready
<1>8. Runnable(kn', PoolPlaces(kn)', ctxtsk')
  BY <1>1, <1>6 DEF PoolPlaces, PlaceOfTask
<1> QED BY <1>1, <1>2, <1>4, <1>5, <1>7, <1>8 DEF PoolInv, Control

(***************************************************************************)
(* A task is terminated.                                                   *)
(***************************************************************************)
\* The call of task t is abandoned, and a block that it was giving back is
\* still the application's.
CallAbandoned(k1, k, t) ==
    /\ k1.call = [k.call EXCEPT ![t] = Idle]
    /\ k1.mpf = k.mpf /\ k1.frbcnt = k.frbcnt /\ k1.unused = k.unused
    /\ k1.freelist = k.freelist /\ k1.mpfatr = k.mpfatr
    /\ k1.given = IF k.call[t].b = NoBlock THEN k.given
                  ELSE [k.given EXCEPT ![k.call[t].p] = @ \cup {k.call[t].b}]

LEMMA AbandonedBlocks ==
    ASSUME NEW k, PoolState(k), NEW t \in Task, NEW k1, CallAbandoned(k1, k, t)
    PROVE  BlockInv(k1) /\ CallInv(k1) /\ k1.given \in [MPF -> SUBSET Block]
<1> DEFINE b == k.call[t].b
           p == k.call[t].p
           s == k.freelist[p]
           m == k.unused[p]
           g0 == k.given[p]
           g == g0 \cup {b}
<1>1. /\ Pools(k) /\ BlockInv(k) /\ CallInv(k)
      /\ k.call \in [Task -> CallRecord] /\ k.call[t] \in CallRecord
      /\ k.call[t] # Idle => p \in MPF
  BY OwnFacts
<1>2. /\ k1.call = [k.call EXCEPT ![t] = Idle] /\ k1.mpf = k.mpf /\ k1.frbcnt = k.frbcnt
      /\ k1.unused = k.unused /\ k1.freelist = k.freelist /\ k1.mpfatr = k.mpfatr
  BY DEF CallAbandoned
<1>3. k1.call[t] = Idle /\ \A u \in Task \ {t} : k1.call[u] = k.call[u]
  BY <1>1, <1>2
<1>4. CASE b = NoBlock
  <2>1. k1.given = k.given
    BY <1>4 DEF CallAbandoned
  <2> QED BY <1>1, <1>2, <1>4, <2>1, EndedCall DEF Pools
<1>5. CASE b # NoBlock
  <2>1. k1.given = [k.given EXCEPT ![p] = g]
    BY <1>5 DEF CallAbandoned
  <2>2. b \in Block /\ p \in MPF /\ k.mpf[p] = "exists"
    <3>1. k.call[t] # Idle /\ k.mpf[p] = "exists"
      BY <1>1, <1>5, IdleCall DEF CallInv
    <3>2. b \in Block \cup {NoBlock}
      BY <1>1 DEF CallRecord
    <3> QED BY <1>1, <1>5, <3>1, <3>2
  <2>3. PoolParts(s, m, g0, BackRel(k, p)) /\ Counted(k.frbcnt[p], s, m)
    BY <2>2, PartsOf
  <2>4. k.call[t].b = b /\ k.call[t].p = p /\ k.given[p] = g0
    OBVIOUS
  <2>5. k1.freelist[p] = s /\ k1.unused[p] = m /\ k1.frbcnt[p] = k.frbcnt[p]
    BY <1>2
  <2> HIDE DEF b, p, s, m, g0, g
  <2>6. k1.given[p] = g /\ \A q \in MPF \ {p} : k1.given[q] = k.given[q]
    BY <1>1, <2>1, <2>2 DEF Pools
  <2>7. k1.call[t].b = NoBlock
    BY <1>3, IdleCall
  <2>8. /\ <<t, b>> \in BackRel(k, p)
        /\ \A u \in Task, a \in Block : <<u, a>> \in BackRel(k1, p)
                                        <=> <<u, a>> \in BackRel(k, p) /\ u # t
        /\ \A a \in Block : <<t, a>> \in BackRel(k, p) => a = b
    BY <1>3, <2>2, <2>4, <2>7, BackMoved
  <2>9. PoolParts(s, m, g, BackRel(k1, p))
    BY <2>2, <2>3, <2>8, ReturnParts DEF g
  <2>10. Partition(k1, p)
    <3>1. Parts(s, m, g, BackRel(k1, p)) /\ k.frbcnt[p] = Unfree(s, m) /\ g \in SUBSET Block
      BY <2>3, <2>9 DEF PoolParts, Counted
    <3> QED BY <2>5, <2>6, <3>1, PartitionParts
  <2>11. OnePool(k1, k, p)
    BY <1>2, <2>6 DEF OnePool
  <2>12. ASSUME NEW u \in Task, NEW q \in MPF \ {p}, NEW a \in Block
         PROVE  Back(k1, u, q, a) <=> Back(k, u, q, a)
    <3>1. CASE u = t
      BY <3>1, <1>3, <2>4, IdleCall, PoolHeads DEF Back
    <3>2. CASE u # t
      BY <3>2, <1>3 DEF Back
    <3> QED BY <3>1, <3>2
  <2>13. BlockInv(k1)
    BY <1>1, <1>2, <2>2, <2>10, <2>11, <2>12, OnePoolBlocks
  <2>14. CallInv(k1)
    <3>1. /\ Idle.b = NoBlock /\ Idle.op # "rel" /\ Idle.op # "del" /\ ~Creating(Idle)
      BY IdleCall DEF Creating, Op
    <3>2. ASSUME NEW u \in Task \ {t}
          PROVE  /\ k.call[u].b # NoBlock => k1.mpf[k.call[u].p] = "exists"
                 /\ Creates(k, u) => k1.mpf[k.call[u].p] = "taken"
      BY <1>1, <1>2 DEF CallInv
    <3>3. CallInv(k) /\ k.call \in [Task -> CallRecord]
          /\ k1.call = [k.call EXCEPT ![t] = Idle]
      BY <1>1, <1>2
    <3> QED BY ONLY <3>1, <3>2, <3>3, t \in Task, CallChange
  <2>15. k1.given \in [MPF -> SUBSET Block]
    <3>1. g \in SUBSET Block /\ k.given \in [MPF -> SUBSET Block]
      BY <1>1, <2>9 DEF PoolParts, Pools
    <3> QED BY <2>1, <3>1, UpdateFunction
  <2> QED BY <2>13, <2>14, <2>15
<1> QED BY <1>4, <1>5

\* What is left of task t in the kernel once it is terminated.
Terminated(k1, k, t) ==
    /\ Steady(k1, [PoolPlaces(k) EXCEPT ![t] = {}])
    /\ Only(k1, k, ReadyQue \cup Dormancy \cup {"schedtsk", "wtmeb", "wid", "call", "given"})
    /\ k1.state = [k.state EXCEPT ![t] = "DORMANT"]
    /\ \A u \in Task \ {t} : k1.priority[u] = k.priority[u]
    /\ k1.klocked = [k.klocked EXCEPT ![t] = FALSE]
    /\ k1.klockwait = [k.klockwait EXCEPT ![t] = FALSE]
    /\ k1.wspec = [k.wspec EXCEPT ![t] = NoSpec]
    /\ k1.wtmeb = IF k.state[t] \in WaitBit THEN [k.wtmeb EXCEPT ![t] = FALSE] ELSE k.wtmeb
    /\ k1.wid = [k.wid EXCEPT ![t] = NoMpf]
    /\ CallAbandoned(k1, k, t)
    /\ \A h \in OtherHead : k1.que[h] = Unlink(k.que[h], t)

LEMMA AbandonSteady ==
    ASSUME NEW k, PoolState(k), NEW t \in Task, k.state[t] \in Alive
    PROVE  Terminated(Abandon(Detach(k, t), t), k, t)
<1> DEFINE r == PoolPlaces(k)
           r0 == [r EXCEPT ![t] = {}]
           k0 == Detach(k, t)
           k1 == MakeDormant(k0, t)
           k2 == Abandon(k0, t)
           F0 == ReadyQue \cup {"klockwait", "schedtsk", "wtmeb"}
           F2 == {"wid", "call", "given"}
           F == ReadyQue \cup Dormancy \cup {"schedtsk", "wtmeb", "wid", "call", "given"}
<1>1. Steady(k, r) /\ Kernel(k) /\ Pools(k) /\ KernelField \cup PoolField \subseteq DOMAIN k
  BY DEF PoolState, Steady, Ready, Kernel, Pools
<1>2. Detached(k0, k, r, t)
  <2>1. k.state[t] = "READY" => MayLeave(k, r, t)
    BY PlaceCases
  <2>2. k.state[t] \in WaitBit => r[t] \cap Pri = {}
    BY PlaceCases
  <2>3. k.state[t] \notin WaitBit \cup {"READY"} => r[t] = {}
    BY PlaceCases DEF Alive
  <2> HIDE DEF r
  <2> QED BY <1>1, <2>1, <2>2, <2>3, DetachSteady
<1>3. r0[t] = {} /\ r \in Places
  BY <1>1 DEF Steady, Ready, Places
<1>4. k2 = [k1 EXCEPT !.wid[t] = NoMpf, !.call[t] = Idle,
                      !.given = IF k0.call[t].b = NoBlock THEN k1.given
                                ELSE [k0.given EXCEPT ![k0.call[t].p] = @ \cup {k0.call[t].b}]]
  BY DEF Abandon
<1> HIDE DEF r, r0, k0, k1, k2
<1>5. /\ Steady(k0, r0) /\ Only(k0, k, F0)
      /\ k0.wtmeb = IF k.state[t] \in WaitBit THEN [k.wtmeb EXCEPT ![t] = FALSE] ELSE k.wtmeb
      /\ [k0.klockwait EXCEPT ![t] = FALSE] = [k.klockwait EXCEPT ![t] = FALSE]
      /\ \A h \in OtherHead : k0.que[h] = Unlink(k.que[h], t)
  BY <1>2 DEF Detached, r0
<1>6. MadeDormant(k1, k0, r0, t)
  BY <1>3, <1>5, MakeDormantSteady DEF k1
<1>7. /\ Steady(k1, r0) /\ Only(k1, k0, Dormancy)
      /\ k1.state = [k0.state EXCEPT ![t] = "DORMANT"]
      /\ k1.priority = [k0.priority EXCEPT ![t] = k0.ipriority[t]]
      /\ k1.klocked = [k0.klocked EXCEPT ![t] = FALSE]
      /\ k1.klockwait = [k0.klockwait EXCEPT ![t] = FALSE]
      /\ k1.wspec = [k0.wspec EXCEPT ![t] = NoSpec]
  BY <1>6 DEF MadeDormant
<1>8. KernelField \cup PoolField \subseteq DOMAIN k0 /\ DOMAIN k1 = DOMAIN k0
      /\ DOMAIN k0 = DOMAIN k
  BY <1>1, <1>5, <1>7 DEF Only
<1>9. /\ k0.call = k.call /\ k0.given = k.given /\ k0.wid = k.wid /\ k0.state = k.state
      /\ k0.priority = k.priority /\ k0.klocked = k.klocked /\ k0.wspec = k.wspec
      /\ k0.mpf = k.mpf /\ k0.frbcnt = k.frbcnt /\ k0.unused = k.unused
      /\ k0.freelist = k.freelist /\ k0.mpfatr = k.mpfatr
  BY <1>1, <1>5 DEF Only, KernelField, PoolField, ReadyQue
<1>10. /\ k1.call = k.call /\ k1.given = k.given /\ k1.wid = k.wid
       /\ k1.mpf = k.mpf /\ k1.frbcnt = k.frbcnt /\ k1.unused = k.unused
       /\ k1.freelist = k.freelist /\ k1.mpfatr = k.mpfatr
       /\ k1.que = k0.que /\ k1.wtmeb = k0.wtmeb
  BY <1>7, <1>8, <1>9 DEF Only, KernelField, PoolField, Dormancy
<1>11. /\ Only(k2, k1, F2)
       /\ k2.wid = [k1.wid EXCEPT ![t] = NoMpf] /\ k2.call = [k1.call EXCEPT ![t] = Idle]
       /\ k2.given = IF k0.call[t].b = NoBlock THEN k1.given
                      ELSE [k0.given EXCEPT ![k0.call[t].p] = @ \cup {k0.call[t].b}]
  BY <1>4, <1>8 DEF Only, PoolField
<1>12. /\ k2.state = k1.state /\ k2.priority = k1.priority /\ k2.klocked = k1.klocked
       /\ k2.klockwait = k1.klockwait /\ k2.wspec = k1.wspec /\ k2.wtmeb = k1.wtmeb
       /\ k2.que = k1.que /\ k2.mpf = k1.mpf /\ k2.frbcnt = k1.frbcnt
       /\ k2.unused = k1.unused /\ k2.freelist = k1.freelist /\ k2.mpfatr = k1.mpfatr
  BY <1>8, <1>11 DEF Only, KernelField, PoolField
<1>13. Steady(k2, r0)
  <2>1. F2 \cap {"que", "bitmap", "top_priority", "klocktsk", "schedtsk",
                 "priority", "ipriority", "klocked", "klockwait"} = {}
    OBVIOUS
  <2>2. k2.state \in [Task -> TSTAT] /\ k2.wspec \in [Task -> WSpec]
        /\ k2.wtmeb \in [Task -> BOOLEAN]
    BY <1>7, <1>12 DEF Steady, Ready, Kernel
  <2> HIDE DEF F2
  <2> QED BY <1>7, <1>11, <2>1, <2>2, FieldsChange
<1>14. Only(k2, k, F)
  <2>1. F0 \subseteq F /\ Dormancy \subseteq F /\ F2 \subseteq F
    BY DEF Dormancy
  <2> HIDE DEF F0, F, F2
  <2>2. Only(k1, k, F)
    BY <1>5, <1>7, <2>1, OnlyTrans
  <2>3. F \subseteq F
    OBVIOUS
  <2> QED BY <1>11, <2>1, <2>2, <2>3, OnlyTrans
<1>15. /\ k2.state = [k.state EXCEPT ![t] = "DORMANT"]
       /\ \A u \in Task \ {t} : k2.priority[u] = k.priority[u]
       /\ k2.klocked = [k.klocked EXCEPT ![t] = FALSE]
       /\ k2.wspec = [k.wspec EXCEPT ![t] = NoSpec]
       /\ k2.wid = [k.wid EXCEPT ![t] = NoMpf]
  <2>1. \A u \in Task \ {t} : k2.priority[u] = k.priority[u]
    <3>1. k.priority \in [Task -> Pri]
      BY <1>1 DEF Kernel
    <3>2. k2.priority = [k.priority EXCEPT ![t] = k0.ipriority[t]]
      BY <1>7, <1>9, <1>12
    <3> QED BY <3>1, <3>2
  <2>2. k2.state = [k.state EXCEPT ![t] = "DORMANT"]
    BY <1>7, <1>9, <1>12
  <2>3. k2.klocked = [k.klocked EXCEPT ![t] = FALSE]
    BY <1>7, <1>9, <1>12
  <2>4. k2.wspec = [k.wspec EXCEPT ![t] = NoSpec]
    BY <1>7, <1>9, <1>12
  <2>5. k2.wid = [k.wid EXCEPT ![t] = NoMpf]
    BY <1>10, <1>11
  <2> QED BY <2>1, <2>2, <2>3, <2>4, <2>5
<1>16. k2.klockwait = [k.klockwait EXCEPT ![t] = FALSE]
  BY <1>5, <1>7, <1>12
<1>17. CallAbandoned(k2, k, t)
  BY <1>9, <1>10, <1>11, <1>12 DEF CallAbandoned
<1>18. \A h \in OtherHead : k2.que[h] = Unlink(k.que[h], t)
  BY <1>5, <1>10, <1>12
<1>19. k2.wtmeb = IF k.state[t] \in WaitBit THEN [k.wtmeb EXCEPT ![t] = FALSE] ELSE k.wtmeb
  BY <1>5, <1>10, <1>12
<1>20. Terminated(k2, k, t)
  BY <1>13, <1>14, <1>15, <1>16, <1>17, <1>18, <1>19 DEF Terminated, r0, r
<1> QED BY <1>20 DEF k2, k0

LEMMA TerminatedState ==
    ASSUME NEW k, PoolState(k), NEW t \in Task, ~k.klocked[t],
           NEW k1, Terminated(k1, k, t)
    PROVE  PoolState(k1)
<1>1. Kernel(k) /\ Pools(k) /\ LockInv(k) /\ WaitInv(k) /\ Sorted(k) /\ Steady(k, PoolPlaces(k))
      /\ KernelField \cup PoolField \subseteq DOMAIN k
  BY DEF PoolState, Steady, Ready, Kernel, Pools
<1>2. CallAbandoned(k1, k, t)
  BY DEF Terminated
<1>3. BlockInv(k1) /\ CallInv(k1) /\ k1.given \in [MPF -> SUBSET Block]
  BY <1>2, AbandonedBlocks
<1>4. /\ k1.mpf = k.mpf /\ k1.mpfatr = k.mpfatr /\ k1.frbcnt = k.frbcnt
      /\ k1.unused = k.unused /\ k1.freelist = k.freelist
      /\ k1.call = [k.call EXCEPT ![t] = Idle]
  BY <1>2 DEF CallAbandoned
<1>5. k1.locked = k.locked /\ DOMAIN k1 = DOMAIN k
  BY <1>1 DEF Terminated, Only, PoolField, ReadyQue, Dormancy
<1>6. k1.wid = [k.wid EXCEPT ![t] = NoMpf]
  BY DEF Terminated
<1>7. Pools(k1)
  <2>1. k1.wid \in [Task -> MPF \cup {NoMpf}]
    BY <1>1, <1>6 DEF Pools
  <2>2. k1.call \in [Task -> CallRecord]
    BY <1>1, <1>4, IdleCall, UpdateFunction DEF Pools
  <2> QED BY <1>1, <1>3, <1>4, <1>5, <2>1, <2>2 DEF Pools
<1>8. k1.klocked = k.klocked
  BY <1>1, FalseEntry DEF Terminated, Kernel
<1>9. /\ k1.state[t] = "DORMANT" /\ k1.call[t] = Idle /\ ~k1.klockwait[t] /\ ~k1.klocked[t]
  BY <1>1, <1>4, <1>8 DEF Terminated, Kernel, Pools
<1>10. ~k1.wtmeb[t]
  <2>1. CASE k.state[t] \in WaitBit
    BY <2>1, <1>1 DEF Terminated, Kernel
  <2>2. CASE k.state[t] \notin WaitBit
    BY <2>2, <1>1 DEF Terminated, WaitInv
  <2> QED BY <2>1, <2>2
<1>11. ASSUME NEW u \in Task \ {t} PROVE SameTask(k1, k, u)
  <2>1. k1.wtmeb[u] = k.wtmeb[u]
    BY <1>1 DEF Terminated, Kernel
  <2>2. k1.state[u] = k.state[u] /\ k1.priority[u] = k.priority[u] /\ k1.wspec[u] = k.wspec[u]
    BY <1>1 DEF Terminated, Kernel
  <2>3. k1.klockwait[u] = k.klockwait[u]
    BY <1>1 DEF Terminated, Kernel
  <2>4. k1.wid[u] = k.wid[u] /\ k1.call[u] = k.call[u]
    BY <1>1, <1>4, <1>6 DEF Pools
  <2> QED BY <2>1, <2>2, <2>3, <2>4 DEF SameTask
<1>12. OneTask(k1, k, t)
  BY <1>4, <1>5, <1>8, <1>11 DEF OneTask
<1>13. Bystander(k1, k, t)
  BY <1>9, <1>10, IdleCall, ATaskWaits DEF Bystander, HoldsFair, WaitsFair, WaitsFor
<1>14. Steady(k1, [PoolPlaces(k) EXCEPT ![t] = PlaceOfTask(k1, t)])
  <2>1. PlaceOfTask(k1, t) = {}
    BY <1>9, ATaskWaits DEF PlaceOfTask
  <2> QED BY <2>1 DEF Terminated
<1>15. Sorted(k1)
  <2>1. /\ \A h \in OtherHead : k1.que[h] = Unlink(k.que[h], t)
        /\ \A u \in Task \ {t} : k1.priority[u] = k.priority[u]
    BY DEF Terminated
  <2> QED BY <1>1, <1>4, <2>1, SortedUnlinked
<1> QED BY <1>3, <1>7, <1>12, <1>13, <1>14, <1>15, TaskChange

LEMMA TerTskPoolStep ==
    ASSUME PoolInv, NEW t \in Task, TerTskPool(t)
    PROVE  PoolInv'
<1> DEFINE k == Abandon(Detach(kn, t), t)
<1>1. PoolState(kn) /\ kn.state[t] \in Alive /\ ~kn.klocked[t] /\ SystemCall("task", k)
  BY DEF PoolInv, TerTskPool
<1>2. PoolState(k)
  BY <1>1, AbandonSteady, TerminatedState
<1> HIDE DEF k
<1> QED BY <1>1, <1>2, CallControl

(***************************************************************************)
(* The priority of a task changes.                                         *)
(***************************************************************************)
LEMMA MoveReadyState ==
    ASSUME NEW k, PoolState(k), NEW t \in Task, k.state[t] = "READY", NEW p \in Pri
    PROVE  PoolState(MoveReady(k, t, p))
<1> DEFINE r == PoolPlaces(k)
           k1 == MoveReady(k, t, p)
<1>1. Steady(k, r) /\ Ready(k, r) /\ Kernel(k) /\ Sorted(k) /\ LockInv(k) /\ WaitInv(k)
  BY DEF PoolState, Steady, Ready
<1>2. MayLeave(k, r, t)
  BY PlaceCases
<1> HIDE DEF r, k1
<1>3. MovedReady(k1, k, r, t, p)
  BY <1>1, <1>2, MoveReadySteady DEF k1
<1>4. /\ Steady(k1, [r EXCEPT ![t] = {p}])
      /\ Only(k1, k, ReadyQue \cup {"klockwait", "schedtsk", "priority"})
      /\ k1.klockwait = [k.klockwait EXCEPT ![t] = FALSE]
      /\ k1.priority = [k.priority EXCEPT ![t] = p]
      /\ \A h \in OtherHead : k1.que[h] = Unlink(k.que[h], t)
  BY <1>3 DEF MovedReady
<1>5. KernelOnly(k1, k) /\ PoolField \subseteq DOMAIN k1
  <2> DEFINE F == ReadyQue \cup {"klockwait", "schedtsk", "priority"}
  <2>1. F \cap PoolField = {} /\ "klocked" \notin F
    BY DEF ReadyQue, PoolField
  <2> QED BY <1>4, <2>1, OnlyKernel
<1>6. k1.wtmeb = k.wtmeb /\ k1.wspec = k.wspec /\ k1.state = k.state
  <2>1. KernelField \subseteq DOMAIN k
    BY <1>1 DEF Kernel
  <2> QED BY <1>4, <2>1 DEF Only, KernelField, ReadyQue
<1>7. ~k1.klockwait[t] /\ \A u \in Task \ {t} : k1.klockwait[u] = k.klockwait[u]
  BY <1>1, <1>4 DEF Kernel
<1>8. k1.priority[t] = p /\ \A u \in Task \ {t} : k1.priority[u] = k.priority[u]
  BY <1>1, <1>4 DEF Kernel
<1>9. \A u \in Task \ {t} : SameInKernel(k1, k, u)
  BY <1>6, <1>7, <1>8 DEF SameInKernel
<1>10. PlaceOfTask(k1, t) = {p}
  <2>1. (IF k1.klockwait[t] THEN LockQ[k1.call[t].p] ELSE k1.priority[t]) = p
    BY <1>7, <1>8
  <2> QED BY <1>6, <2>1, ATaskWaits DEF PlaceOfTask
<1>11. Sorted(k1)
  <2>1. k1.mpfatr = k.mpfatr
    BY <1>5 DEF KernelOnly
  <2>2. /\ \A h \in OtherHead : k1.que[h] = Unlink(k.que[h], t)
        /\ \A u \in Task \ {t} : k1.priority[u] = k.priority[u]
    BY <1>4, <1>8
  <2> QED BY <1>1, <2>1, <2>2, SortedUnlinked
<1>12. Steady(k1, [PoolPlaces(k) EXCEPT ![t] = PlaceOfTask(k1, t)])
  BY <1>4, <1>10 DEF r
<1>13. ~k.wtmeb[t] /\ k.state[t] \notin WaitBit
  BY <1>1, ATaskWaits DEF WaitInv
<1>14. PoolState(k1)
  BY <1>5, <1>6, <1>7, <1>9, <1>11, <1>12, <1>13, TaskStep
<1> QED BY <1>14 DEF k1

\* The priority of a task that is not READY, and its place in the wait queue
\* of a TA_TPRI pool.
LEMMA PriorityState ==
    ASSUME NEW k, PoolState(k), NEW t \in Task, k.state[t] # "READY", NEW p \in Pri,
           NEW que, NEW k1, Reprioritized(k1, k, t, p, que),
           Steady(k1, PoolPlaces(k)), Sorted(k1)
    PROVE  PoolState(k1)
<1>1. Kernel(k) /\ LockInv(k) /\ WaitInv(k)
  BY DEF PoolState, Steady, Ready
<1>2. KernelOnly(k1, k) /\ PoolField \subseteq DOMAIN k1
  <2>1. {"priority", "que"} \cap PoolField = {} /\ "klocked" \notin {"priority", "que"}
    BY DEF PoolField
  <2> QED BY <2>1, OnlyKernel DEF Reprioritized
<1>3. /\ k1.state = k.state /\ k1.klockwait = k.klockwait /\ k1.wtmeb = k.wtmeb
      /\ k1.wspec = k.wspec
  BY <1>1 DEF Only, Reprioritized, Kernel, KernelField
<1>4. \A u \in Task \ {t} : k1.priority[u] = k.priority[u]
  BY <1>1 DEF Reprioritized, Kernel
<1>5. \A u \in Task \ {t} : SameInKernel(k1, k, u)
  BY <1>3, <1>4 DEF SameInKernel
<1>6. PlaceOfTask(k1, t) = PlaceOfTask(k, t)
  <2>1. k1.state[t] = k.state[t] /\ k1.wid[t] = k.wid[t]
    BY <1>2, <1>3 DEF KernelOnly
  <2> QED BY <2>1, ATaskWaits DEF PlaceOfTask
<1>7. PoolPlaces(k) = [PoolPlaces(k) EXCEPT ![t] = PlaceOfTask(k1, t)]
  BY <1>6 DEF PoolPlaces
<1>8. ~k.klockwait[t] /\ (k.wtmeb[t] => k.state[t] \in WaitBit)
      /\ (k.state[t] \notin {"READY", "SUSPEND"} => k.call[t] = Idle)
  BY <1>1 DEF LockInv, WaitInv
<1> QED BY <1>2, <1>3, <1>5, <1>7, <1>8, TaskStep

\* Task t moves within the wait queue of pool h.
LEMMA WaiterMovesState ==
    ASSUME NEW k, PoolState(k), NEW t \in Task, k.state[t] \in WaitBit, NEW p \in Pri,
           NEW h, h = k.wid[t],
           NEW kd, Reprioritized(kd, k, t, p, QueRemove(k.que, t)),
           NEW k1, k1 = [kd EXCEPT !.que = QueInsertTpri(kd, t, h)]
    PROVE  PoolState(k1)
<1> DEFINE r == PoolPlaces(k)
           rd == [r EXCEPT ![t] = {}]
           new == QueRemove(k.que, t)
<1>1. Steady(k, r) /\ Kernel(k) /\ Sorted(k) /\ WaitInv(k)
  BY DEF PoolState, Steady, Ready
<1>2. r[t] = {h} /\ h \in MPF /\ h \in OtherHead /\ r[t] \cap Pri = {}
  BY PlaceCases, PoolHeads
<1>3. /\ k.que \in Rings /\ r \in Places /\ Linked(k.que, r)
  BY <1>1 DEF Steady, Ready, Kernel
<1>4. /\ new \in Rings /\ Linked(new, rd) /\ \A g \in QueHead : g \notin r[t] => new[g] = k.que[g]
  <2> HIDE DEF r
  <2> QED BY <1>3, QueRemoveLinked
<1>5. \A g \in OtherHead : new[g] = Unlink(k.que[g], t)
  BY <1>3, OtherHeads DEF QueRemove, Rings
<1>6. /\ rd \in Places /\ rd[t] = {} /\ \A u \in Task : u # t => rd[u] = r[u]
  BY <1>3 DEF Places
<1>7. [rd EXCEPT ![t] = {h}] = r
  <2>1. [rd EXCEPT ![t] = {h}] = [r EXCEPT ![t] = {h}]
    OBVIOUS
  <2>2. [r EXCEPT ![t] = r[t]] = r
    BY <1>3 DEF Places
  <2> QED BY <1>2, <2>1, <2>2
<1> HIDE DEF r, rd, new
<1>8. Reprioritized(kd, k, t, p, new)
  BY DEF new
<1>9. Steady(kd, rd)
  <2>1. \A q \in Pri : new[q] = k.que[q]
    BY <1>2, <1>4, PriIsNatural
  <2>2. \A u \in Task : rd[u] \cap Pri = r[u] \cap Pri
    BY <1>2, <1>6
  <2> QED BY <1>1, <1>2, <1>4, <1>6, <1>8, <2>1, <2>2, NewPriority
<1>10. kd.que = new /\ kd.priority = [k.priority EXCEPT ![t] = p]
       /\ Only(kd, k, {"priority", "que"})
  BY <1>8 DEF Reprioritized
<1>11. kd.mpfatr = k.mpfatr
  BY <1>10 DEF Only, PoolState, Pools, PoolField
<1>12. Sorted(kd)
  <2>1. \A g \in OtherHead : kd.que[g] = Unlink(k.que[g], t)
    BY <1>5, <1>10
  <2>2. \A u \in Task \ {t} : kd.priority[u] = k.priority[u]
    BY <1>1, <1>10 DEF Kernel
  <2> QED BY <1>1, <1>11, <2>1, <2>2, SortedUnlinked
<1>13. QueuedByPriority(k1, kd, rd, t, h)
  BY <1>2, <1>6, <1>9, QueueByPrioritySteady
<1>14. /\ Steady(k1, r) /\ Only(k1, kd, {"que"})
       /\ Ordered(kd.que[h], kd.priority) => Ordered(k1.que[h], kd.priority)
       /\ \A g \in QueHead \ {h} : k1.que[g] = kd.que[g]
  BY <1>7, <1>13 DEF QueuedByPriority
<1>15. k1.mpfatr = kd.mpfatr /\ k1.priority = kd.priority
  <2>1. KernelField \cup PoolField \subseteq DOMAIN kd
    BY <1>1, <1>10 DEF Only, Kernel, PoolState, Pools
  <2> QED BY <1>14, <2>1 DEF Only, KernelField, PoolField
<1>16. Sorted(k1)
  <2> SUFFICES ASSUME NEW q \in MPF, k1.mpfatr[q] = "TPRI"
               PROVE  Ordered(k1.que[q], k1.priority)
    BY DEF Sorted
  <2>1. Ordered(kd.que[q], kd.priority)
    BY <1>12, <1>15 DEF Sorted
  <2>2. CASE q = h
    BY <2>1, <2>2, <1>14, <1>15
  <2>3. CASE q # h
    BY <2>1, <2>3, <1>14, <1>15, PoolHeads, OtherHeads
  <2> QED BY <2>2, <2>3
<1>17. Reprioritized(k1, k, t, p, k1.que)
  <2>1. {"priority", "que"} \subseteq {"priority", "que"} /\ {"que"} \subseteq {"priority", "que"}
    OBVIOUS
  <2>2. Only(k1, k, {"priority", "que"})
    BY <1>10, <1>14, <2>1, OnlyTrans
  <2> QED BY <1>10, <1>15, <2>2 DEF Reprioritized
<1>18. k.state[t] # "READY"
  BY ATaskWaits
<1> QED BY <1>14, <1>16, <1>17, <1>18, PriorityState DEF r

\* Task t is in no queue that is in order of priority.
LEMMA OtherPriorityState ==
    ASSUME NEW k, PoolState(k), NEW t \in Task, k.state[t] # "READY",
           ~(k.state[t] \in WaitBit /\ k.wspec[t] = "mpf_tpri"), NEW p \in Pri,
           NEW k1, Reprioritized(k1, k, t, p, k.que)
    PROVE  PoolState(k1)
<1> DEFINE r == PoolPlaces(k)
<1>1. Steady(k, r) /\ Kernel(k) /\ Sorted(k) /\ WaitInv(k)
  BY DEF PoolState, Steady, Ready
<1>2. /\ k.que \in Rings /\ r \in Places /\ Linked(k.que, r)
  BY <1>1 DEF Steady, Ready, Kernel
<1>3. ASSUME NEW q \in MPF, k.mpfatr[q] = "TPRI" PROVE q \notin r[t]
  <2>1. CASE k.state[t] \in WaitBit
    <3>1. k.mpfatr[k.wid[t]] # "TPRI" /\ r[t] = {k.wid[t]}
      BY <2>1, <1>1, PlaceCases DEF WaitInv
    <3> QED BY <3>1, <1>3
  <2>2. CASE k.state[t] = "NONEXIST"
    BY <2>2, PlaceCases, PoolHeads
  <2>3. CASE k.state[t] \notin WaitBit \cup {"READY", "NONEXIST"}
    BY <2>3, PlaceCases
  <2> QED BY <2>1, <2>2, <2>3
<1>4. r[t] \cap Pri = {}
  <2>1. CASE k.state[t] \in WaitBit
    BY <2>1, PlaceCases
  <2>2. CASE k.state[t] = "NONEXIST"
    BY <2>2, PlaceCases, PriIsNatural
  <2>3. CASE k.state[t] \notin WaitBit \cup {"READY", "NONEXIST"}
    BY <2>3, PlaceCases
  <2> QED BY <2>1, <2>2, <2>3
<1> HIDE DEF r
<1>5. Steady(k1, r)
  BY <1>1, <1>2, <1>4, NewPriority
<1>6. /\ k1.que = k.que /\ k1.priority = [k.priority EXCEPT ![t] = p]
      /\ Only(k1, k, {"priority", "que"})
  BY DEF Reprioritized
<1>7. k1.mpfatr = k.mpfatr
  BY <1>6 DEF Only, PoolState, Pools, PoolField
<1>8. Sorted(k1)
  <2>1. \A u \in Task \ {t} : k1.priority[u] = k.priority[u]
    BY <1>1, <1>6 DEF Kernel
  <2> QED BY <1>1, <1>3, <1>6, <1>7, <2>1, SortedKept
<1> QED BY <1>5, <1>8, PriorityState DEF r

LEMMA ChgPriPoolStep ==
    ASSUME PoolInv, NEW t \in Task, NEW p \in Pri, ChgPriPool(t, p)
    PROVE  PoolInv'
<1> DEFINE k == [kn EXCEPT !.bpriority[t] = p]
           k1 == [k EXCEPT !.priority[t] = p]
           h == k.wid[t]
           kd == [k1 EXCEPT !.que = QueRemove(@, t)]
           k2 == [k1 EXCEPT !.que = QueInsertTpri(kd, t, h)]
<1>1. PoolState(kn)
  BY DEF PoolInv
<1>2. PoolState(k)
  <2>1. Only(k, kn, {"bpriority"})
    BY DEF Only
  <2> HIDE DEF k
  <2> QED BY <1>1, <2>1, HiddenField
<1>3. SystemCall("hdr",
         CASE k.state[t] = "READY" -> MoveReady(k, t, p)
           [] k.state[t] \in WaitBit /\ k.wspec[t] = "mpf_tpri" -> k2
           [] OTHER -> k1)
  BY DEF ChgPriPool
<1> HIDE DEF k
<1>4. "priority" \in DOMAIN k /\ "que" \in DOMAIN k
  BY <1>2 DEF PoolState, Steady, Ready, Kernel, KernelField
<1>5. Reprioritized(k1, k, t, p, k.que)
  BY <1>4 DEF Reprioritized, Only
<1>6. Reprioritized(kd, k, t, p, QueRemove(k.que, t))
  BY <1>4 DEF Reprioritized, Only
<1>7. k2 = [kd EXCEPT !.que = QueInsertTpri(kd, t, h)]
  OBVIOUS
<1> HIDE DEF k1, kd, k2, h
<1>8. CASE k.state[t] = "READY"
  <2>1. SystemCall("hdr", MoveReady(k, t, p))
    BY <1>3, <1>8, ATaskWaits
  <2>2. PoolState(MoveReady(k, t, p))
    BY <1>2, <1>8, MoveReadyState
  <2> QED BY <2>1, <2>2, CallControl
<1>9. CASE k.state[t] \in WaitBit /\ k.wspec[t] = "mpf_tpri"
  <2>1. SystemCall("hdr", k2)
    BY <1>3, <1>9, ATaskWaits
  <2>2. PoolState(k2)
    BY <1>2, <1>6, <1>7, <1>9, WaiterMovesState DEF h
  <2> QED BY <2>1, <2>2, CallControl
<1>10. CASE k.state[t] # "READY" /\ ~(k.state[t] \in WaitBit /\ k.wspec[t] = "mpf_tpri")
  <2>1. SystemCall("hdr", k1)
    BY <1>3, <1>10
  <2>2. PoolState(k1)
    BY <1>2, <1>5, <1>10, OtherPriorityState
  <2> QED BY <2>1, <2>2, CallControl
<1> QED BY <1>8, <1>9, <1>10

(***************************************************************************)
(* The initial states.                                                     *)
(***************************************************************************)
\* No pool exists, and no task is in a call.
FreePools(k1, k) ==
    /\ DOMAIN k1 = KernelField \cup PoolField
    /\ \A f \in KernelField : k1[f] = k[f]
    /\ k1.mpf = [p \in MPF |-> "free"] /\ k1.mpfatr = [p \in MPF |-> "TFIFO"]
    /\ k1.locked = [p \in MPF |-> FALSE] /\ k1.frbcnt = [p \in MPF |-> 0]
    /\ k1.unused = [p \in MPF |-> 1] /\ k1.freelist = [p \in MPF |-> <<>>]
    /\ k1.given = [p \in MPF |-> {}] /\ k1.wid = [t \in Task |-> NoMpf]
    /\ k1.call = [t \in Task |-> Idle]

LEMMA WithFreePoolsFields ==
    ASSUME NEW k, DOMAIN k = KernelField
    PROVE  FreePools(WithFreePools(k), k)
<1> DEFINE g == [mpf |-> [p \in MPF |-> "free"],
                 mpfatr |-> [p \in MPF |-> "TFIFO"],
                 locked |-> [p \in MPF |-> FALSE],
                 frbcnt |-> [p \in MPF |-> 0],
                 unused |-> [p \in MPF |-> 1],
                 freelist |-> [p \in MPF |-> <<>>],
                 given |-> [p \in MPF |-> {}],
                 wid |-> [t \in Task |-> NoMpf],
                 call |-> [t \in Task |-> Idle]]
           k1 == WithFreePools(k)
<1>2. DOMAIN g = PoolField
  BY DEF PoolField
<1>3. /\ g.mpf = [p \in MPF |-> "free"] /\ g.mpfatr = [p \in MPF |-> "TFIFO"]
      /\ g.locked = [p \in MPF |-> FALSE] /\ g.frbcnt = [p \in MPF |-> 0]
      /\ g.unused = [p \in MPF |-> 1] /\ g.freelist = [p \in MPF |-> <<>>]
      /\ g.given = [p \in MPF |-> {}] /\ g.wid = [t \in Task |-> NoMpf]
      /\ g.call = [t \in Task |-> Idle]
  OBVIOUS
<1>1. k1 = [f \in KernelField \cup PoolField |-> IF f \in KernelField THEN k[f] ELSE g[f]]
  BY <1>2 DEF WithFreePools, WithFields
<1> HIDE DEF g, k1
<1>5. \A f \in PoolField : f \notin KernelField
  BY DEF PoolField, KernelField
<1>6. DOMAIN k1 = KernelField \cup PoolField /\ \A f \in KernelField : k1[f] = k[f]
  BY <1>1
<1>7. \A f \in PoolField : k1[f] = g[f]
  BY <1>1, <1>5
<1>8. /\ k1.mpf = g.mpf /\ k1.mpfatr = g.mpfatr /\ k1.locked = g.locked
      /\ k1.frbcnt = g.frbcnt /\ k1.unused = g.unused /\ k1.freelist = g.freelist
      /\ k1.given = g.given /\ k1.wid = g.wid /\ k1.call = g.call
  BY <1>7 DEF PoolField
<1>9. FreePools(k1, k)
  BY <1>3, <1>6, <1>8 DEF FreePools
<1> QED BY <1>9 DEF k1

LEMMA InitPoolState ==
    ASSUME NEW k2, NEW r, FirstTask(k2, r), NEW k, k = WithFreePools(k2)
    PROVE  PoolState(k)
<1>1. /\ Steady(k2, r) /\ DOMAIN k2 = KernelField /\ Kernel(k2) /\ r \in Places
      /\ \A t \in Task : r[t] = IF t = 1 THEN {k2.priority[1]} ELSE {FreeTcb}
      /\ \A t \in Task : k2.state[t] = IF t = 1 THEN "READY" ELSE "NONEXIST"
      /\ \A t \in Task : ~k2.klocked[t] /\ ~k2.klockwait[t] /\ ~k2.wtmeb[t]
      /\ \A p \in MPF : k2.que[p] = <<>>
  BY PoolHeads DEF FirstTask, Steady, Ready
<1>2. /\ DOMAIN k = KernelField \cup PoolField
      /\ \A f \in KernelField : k[f] = k2[f]
      /\ k.mpf = [p \in MPF |-> "free"] /\ k.mpfatr = [p \in MPF |-> "TFIFO"]
      /\ k.locked = [p \in MPF |-> FALSE] /\ k.frbcnt = [p \in MPF |-> 0]
      /\ k.unused = [p \in MPF |-> 1] /\ k.freelist = [p \in MPF |-> <<>>]
      /\ k.given = [p \in MPF |-> {}] /\ k.wid = [t \in Task |-> NoMpf]
      /\ k.call = [t \in Task |-> Idle]
  <2>1. FreePools(k, k2)
    BY <1>1, WithFreePoolsFields
  <2> QED BY <2>1 DEF FreePools
<1>3. /\ k.state = k2.state /\ k.priority = k2.priority /\ k.ipriority = k2.ipriority
      /\ k.klocked = k2.klocked /\ k.klockwait = k2.klockwait /\ k.wspec = k2.wspec
      /\ k.wtmeb = k2.wtmeb /\ k.que = k2.que /\ k.bitmap = k2.bitmap
      /\ k.top_priority = k2.top_priority /\ k.klocktsk = k2.klocktsk
      /\ k.schedtsk = k2.schedtsk
  BY <1>2 DEF KernelField
<1>4. Steady(k, r)
  <2>1. Kernel(k)
    BY <1>1, <1>2, <1>3 DEF Kernel
  <2> QED BY <1>1, <1>3, <2>1, SteadySame
<1>5. PoolPlaces(k) = r
  <2>1. \A t \in Task : PlaceOfTask(k, t) = r[t]
    <3> TAKE t \in Task
    <3>1. CASE t = 1
      <4>1. k.state[t] = "READY" /\ ~k.klockwait[t] /\ r[t] = {k.priority[t]}
        BY <3>1, <1>1, <1>3
      <4>2. (IF k.klockwait[t] THEN LockQ[k.call[t].p] ELSE k.priority[t]) = k.priority[t]
        BY <4>1
      <4> QED BY <4>1, <4>2, ATaskWaits DEF PlaceOfTask
    <3>2. CASE t # 1
      BY <3>2, <1>1, <1>3, ATaskWaits DEF PlaceOfTask
    <3> QED BY <3>1, <3>2
  <2> QED BY <2>1, <1>1 DEF PoolPlaces, Places
<1>6. Pools(k)
  <2>1. 1 \in 1..MpfCnt+1 /\ <<>> \in Seq(Block)
    BY PoolHeads
  <2> QED BY <1>2, <2>1, IdleCall DEF Pools, MpfAtr
<1>7. \A t \in Task : k.call[t] = Idle /\ ~k.klocked[t] /\ ~k.klockwait[t] /\ ~k.wtmeb[t]
                      /\ k.state[t] \in {"READY", "NONEXIST"} /\ k.state[t] \notin WaitBit
  BY <1>1, <1>2, <1>3, ATaskWaits
<1>8. LockInv(k)
  BY <1>2, <1>7, IdleCall DEF LockInv
<1>9. WaitInv(k)
  BY <1>7, IdleCall DEF WaitInv
<1>10. Sorted(k)
  BY <1>1, <1>3 DEF Sorted, Ordered
<1>11. BlockInv(k)
  BY <1>2 DEF BlockInv, HasNone
<1>12. CallInv(k)
  BY <1>7, IdleCall DEF CallInv, Creates, Op
<1> QED BY <1>4, <1>5, <1>6, <1>8, <1>9, <1>10, <1>11, <1>12 DEF PoolState

LEMMA PoolInitInv == PoolInit => PoolInv
<1> SUFFICES ASSUME PoolInit PROVE PoolInv
  OBVIOUS
<1>1. PICK r : FirstTask(MakeReady(CreateTcb(InitKernel, 0), 1), r)
  BY FirstTaskReady
<1>2. PoolState(kn)
  BY <1>1, InitPoolState DEF PoolInit
<1> QED BY <1>2 DEF PoolInit, PoolInv, Control, InTask

(***************************************************************************)
(* The invariant holds in every state.                                     *)
(***************************************************************************)
LEMMA PoolCallStep == PoolInv /\ PoolCall => PoolInv'
<1> SUFFICES ASSUME PoolInv, PoolCall PROVE PoolInv'
  OBVIOUS
<1>1. ASSUME NEW p \in MPF, CreMpf(p) PROVE PoolInv'
  BY <1>1, CreMpfStep
<1>2. ASSUME NEW p \in MPF, GetMpf(p) PROVE PoolInv'
  <2>1. Begin("get", p, NoBlock)
    BY <1>2 DEF GetMpf
  <2> QED BY <2>1, BeginStep
<1>3. ASSUME NEW p \in MPF, DelMpf(p) PROVE PoolInv'
  <2>1. Begin("del", p, NoBlock) /\ InProgress("rel", p) = {}
    BY <1>3 DEF DelMpf
  <2> QED BY <2>1, BeginStep
<1>4. ASSUME NEW p \in MPF, NEW b \in Block, RelMpf(p, b) PROVE PoolInv'
  BY <1>4, RelMpfStep
<1>5. ASSUME NEW atr \in MpfAtr, CreBody(atr) PROVE PoolInv'
  BY <1>5, CreBodyStep
<1>6. ASSUME NEW tmout \in TMO, GetBody(tmout) PROVE PoolInv'
  BY <1>6, GetBodyStep
<1> QED BY <1>1, <1>2, <1>3, <1>4, <1>5, <1>6, LockRetryStep, UnlockStep, DelBodyStep,
           RelBodyStep, RelPutStep DEF PoolCall

LEMMA OtherCallStep == PoolInv /\ OtherCall => PoolInv'
<1> SUFFICES ASSUME PoolInv, OtherCall PROVE PoolInv'
  OBVIOUS
<1>1. ASSUME NEW p \in Pri, CreTsk(p) PROVE PoolInv'
  <2>1. 1 \in Task
    BY FirstTaskReady
  <2> QED BY <1>1, <2>1, OtherSteps
<1>2. ASSUME NEW t \in Task, NEW p \in Pri, ChgPriPool(t, p) PROVE PoolInv'
  BY <1>2, ChgPriPoolStep
<1> QED BY <1>1, <1>2, TerTskPoolStep, OtherSteps, RelWaiPoolStep, TimerEventPoolStep
        DEF OtherCall

\* Whatever the tasks and the interrupt handlers do, the fixed-size memory
\* pools, their locks, their blocks and the tasks in calls on them are as
\* PoolInv says.
THEOREM PoolInvariance == PoolSpec => []PoolInv
<1>1. PoolInv /\ [PoolNext]_vars => PoolInv'
  <2> SUFFICES ASSUME PoolInv, [PoolNext]_vars PROVE PoolInv'
    OBVIOUS
  <2>1. CASE PoolCall
    BY <2>1, PoolCallStep
  <2>2. CASE OtherCall
    BY <2>2, OtherCallStep
  <2>3. CASE DispatchEntry
    BY <2>3, DispatchEntryStep
  <2>4. CASE DispatchSwitch
    BY <2>4, DispatchSwitchStep
  <2>5. CASE UNCHANGED vars
    <3>1. PoolState(kn) => PoolState(kn)'
      BY <2>5 DEF vars, PoolState, Steady, Ready
    <3>2. PoolPlaces(kn)' = PoolPlaces(kn)
      BY <2>5 DEF vars, PoolPlaces, PlaceOfTask
    <3> QED BY <2>5, <3>1, <3>2 DEF vars, PoolInv, Control, InTask, Runnable
  <2> QED BY <2>1, <2>2, <2>3, <2>4, <2>5 DEF PoolNext
<1> QED BY <1>1, PoolInitInv, PTL DEF PoolSpec

(***************************************************************************)
(* The properties.                                                         *)
(***************************************************************************)
\* A free list has no more blocks than were ever used.
LEMMA FreeBlocksBounded ==
    ASSUME NEW k, Pools(k), NEW p \in MPF, Partition(k, p)
    PROVE  k.frbcnt[p] \in 0..MpfCnt
<1> DEFINE s == k.freelist[p]
           u == k.unused[p]
           n == Len(s)
<1>1. /\ s \in Seq(Block) /\ u \in 1..MpfCnt+1 /\ MpfCnt \in Nat /\ k.frbcnt[p] \in Nat
      /\ IsInjective(s)
  BY PoolHeads DEF Pools, Partition
<1>2. \A b \in Block : Contains(s, b) => b < u
  BY DEF Partition
<1>3. k.frbcnt[p] = n + MpfCnt + 1 - u
  BY DEF Partition
<1> HIDE DEF s, u
<1>4. /\ n \in Nat /\ DOMAIN s = 1..n /\ s \in [1..n -> Block]
      /\ \A i \in 1..n : s[i] \in Block
  BY <1>1, LenProperties, ElementOfSeq
<1>5. \A i \in 1..n : s[i] \in 1..(u - 1)
  <2> SUFFICES ASSUME NEW i \in 1..n PROVE s[i] \in 1..(u - 1)
    OBVIOUS
  <2>1. s[i] \in Block /\ Contains(s, s[i])
    BY <1>4 DEF Contains
  <2>2. s[i] < u
    BY <1>2, <2>1
  <2>3. s[i] \in 1..MpfCnt
    BY <2>1 DEF Block
  <2> QED BY <1>1, <2>2, <2>3
<1>6. s \in Injection(1..n, 1..(u - 1))
  BY <1>1, <1>4, <1>5 DEF Injection, IsInjective
<1>7. IsFiniteSet(1..(u - 1)) /\ Cardinality(1..(u - 1)) = u - 1
  <2>1. u \in Int /\ 1 \in Int /\ u - 1 \in Int /\ (1 > u - 1 => u - 1 = 0)
    BY <1>1
  <2>2. (u - 1) - 1 + 1 = u - 1
    BY <2>1
  <2>3. /\ IsFiniteSet(1..(u - 1))
        /\ Cardinality(1..(u - 1)) = IF 1 > u - 1 THEN 0 ELSE (u - 1) - 1 + 1
    BY <2>1, FS_Interval
  <2> QED BY <2>1, <2>2, <2>3
<1>8. Cardinality(1..n) = n
  BY <1>4, FS_Interval
<1>9. n <= u - 1
  BY <1>6, <1>7, <1>8, FS_Injection
<1> HIDE DEF n
<1> QED BY <1>1, <1>3, <1>4, <1>9

LEMMA PoolTypes == PoolInv => PoolTypeOK
<1> SUFFICES ASSUME PoolInv PROVE PoolTypeOK
  OBVIOUS
<1>1. Pools(kn) /\ BlockInv(kn)
  BY DEF PoolInv, PoolState
<1>2. kn.frbcnt \in [MPF -> Nat]
  BY <1>1 DEF Pools
<1>3. \A p \in MPF : kn.frbcnt[p] \in 0..MpfCnt
  <2> SUFFICES ASSUME NEW p \in MPF PROVE kn.frbcnt[p] \in 0..MpfCnt
    OBVIOUS
  <2>1. CASE kn.mpf[p] = "exists"
    BY <1>1, <2>1, FreeBlocksBounded DEF BlockInv
  <2>2. CASE kn.mpf[p] # "exists"
    <3>1. kn.frbcnt[p] = 0
      BY <1>1, <2>2 DEF BlockInv, HasNone
    <3> QED BY <3>1, PoolHeads
  <2> QED BY <2>1, <2>2
<1>4. kn.frbcnt \in [MPF -> 0..MpfCnt]
  BY <1>2, <1>3
<1> QED BY <1>1, <1>4 DEF Pools, PoolTypeOK, CallRecord

\* Every task is linked in one ring and in its place there, and the selected
\* task can be executed, for any number of tasks, priorities, pools and blocks.
THEOREM PoolQueuesCorrect == PoolSpec => []PoolQueuesExact
<1>1. PoolInv => PoolQueuesExact
  <2> SUFFICES ASSUME PoolInv PROVE PoolQueuesExact
    OBVIOUS
  <2>1. /\ Linked(kn.que, PoolPlaces(kn)) /\ Selected(kn, PoolPlaces(kn)) /\ Sorted(kn)
        /\ Kernel(kn)
    BY DEF PoolInv, PoolState, Steady, Ready
  <2>2. PoolRingsMatchStates
    <3>1. \A t \in Task : PoolPlaces(kn)[t] = PoolRingOf(t)
      BY DEF PoolPlaces, PlaceOfTask, PoolRingOf
    <3> QED BY <2>1, <3>1 DEF Linked, PoolRingsMatchStates
  <2>3. PoolQueueSorted
    BY <2>1 DEF Sorted, Ordered, PoolQueueSorted
  <2>4. SchedIsRunnable
    <3>1. CASE kn.schedtsk = NoTask
      BY <2>1, <3>1 DEF Selected, SchedIsRunnable
    <3>2. CASE kn.schedtsk # NoTask
      <4>1. kn.schedtsk \in Task /\ kn.priority[kn.schedtsk] \in Pri
        BY <2>1, <3>2 DEF Kernel
      <4>2. kn.priority[kn.schedtsk] \in PoolPlaces(kn)[kn.schedtsk]
        BY <2>1, <3>2 DEF Selected, Runnable
      <4>3. kn.priority[kn.schedtsk] \in QueHead
        BY <4>1 DEF QueHead
      <4> QED BY <2>1, <3>2, <4>1, <4>2, <4>3 DEF Linked, SchedIsRunnable
    <3> QED BY <3>1, <3>2
  <2> QED BY <2>2, <2>3, <2>4, PoolTypes DEF PoolQueuesExact
<1> QED BY <1>1, PoolInvariance, PTL

\* The kernel lock excludes: whatever suspensions, priority changes and
\* terminations come between the steps of the calls, no two of any number of
\* tasks are in a pool at a time, and no task queues for a lock that is free.
THEOREM LockExclusion == PoolSpec => []LockExclusive
<1>1. PoolInv => LockExclusive
  <2> SUFFICES ASSUME PoolInv, NEW p \in MPF
               PROVE  LET holders == {t \in Task : kn.klocked[t] /\ kn.call[t].p = p}
                      IN  /\ Cardinality(holders) = IF kn.locked[p] THEN 1 ELSE 0
                          /\ \A t \in Task : InPool(p, t) => t \in holders
                          /\ kn.que[LockQ[p]] # <<>> => kn.locked[p]
    BY DEF LockExclusive
  <2> DEFINE holders == {t \in Task : kn.klocked[t] /\ kn.call[t].p = p}
  <2>1. LockInv(kn) /\ Linked(kn.que, PoolPlaces(kn)) /\ Kernel(kn) /\ Pools(kn)
    BY DEF PoolInv, PoolState, Steady, Ready
  <2>4. Cardinality(holders) = IF kn.locked[p] THEN 1 ELSE 0
    <3>1. CASE kn.locked[p]
      <4>1. PICK t \in Task : kn.klocked[t] /\ kn.call[t].p = p
        BY <2>1, <3>1 DEF LockInv
      <4>2. holders = {t}
        BY <2>1, <4>1 DEF LockInv
      <4> QED BY <3>1, <4>2, FS_Singleton
    <3>2. CASE ~kn.locked[p]
      <4>1. holders = {}
        BY <2>1, <3>2 DEF LockInv
      <4> QED BY <3>2, <4>1, FS_EmptySet
    <3> QED BY <3>1, <3>2
  <2>5. \A t \in Task : InPool(p, t) => t \in holders
    BY <2>1 DEF LockInv, InPool
  <2>6. ASSUME kn.que[LockQ[p]] # <<>> PROVE kn.locked[p]
    <3> DEFINE s == kn.que[LockQ[p]]
    <3>1. LockQ[p] \in QueHead /\ LockQ[p] \in OtherHead /\ s \in Seq(Task)
      BY <2>1, PoolHeads, OtherHeads DEF Kernel, Rings
    <3>2. 1 \in DOMAIN s /\ s[1] \in Task
      <4> HIDE DEF s
      <4>1. Len(s) \in Nat /\ DOMAIN s = 1..Len(s) /\ (s # <<>> => Len(s) # 0)
        BY <3>1, LenProperties, EmptySeq
      <4>2. s # <<>>
        BY <2>6 DEF s
      <4>3. 1 \in 1..Len(s)
        BY <4>1, <4>2
      <4> QED BY <3>1, <4>1, <4>3, ElementOfSeq
    <3>3. InRing(s, s[1])
      BY <3>2 DEF InRing
    <3>4. LockQ[p] \in PoolPlaces(kn)[s[1]]
      BY <2>1, <3>1, <3>2, <3>3 DEF Linked
    <3> DEFINE t == s[1]
    <3>5. t \in Task /\ LockQ[p] \in PoolPlaces(kn)[t]
      BY <3>2, <3>4
    <3> HIDE DEF s, t
    <3>6. PoolState(kn)
      BY DEF PoolInv
    <3>7. kn.priority[t] \in Pri /\ LockQ[p] \notin Pri /\ LockQ[p] \notin MPF /\ LockQ[p] # FreeTcb
      BY <2>1, <3>1, <3>5, PoolHeads, OtherHeads DEF Kernel
    <3>8. kn.klockwait[t] /\ LockQ[p] = LockQ[kn.call[t].p]
      <4>1. CASE kn.state[t] = "READY" /\ ~kn.klockwait[t]
        BY <3>5, <3>6, <3>7, <4>1, PlaceCases
      <4>2. CASE kn.state[t] = "READY" /\ kn.klockwait[t]
        BY <3>5, <3>6, <3>7, <4>2, PlaceCases
      <4>3. CASE kn.state[t] \in WaitBit
        BY <3>5, <3>6, <3>7, <4>3, PlaceCases
      <4>4. CASE kn.state[t] = "NONEXIST"
        BY <3>5, <3>6, <3>7, <4>4, PlaceCases
      <4>5. CASE kn.state[t] \notin WaitBit \cup {"READY", "NONEXIST"}
        BY <3>5, <3>6, <3>7, <4>5, PlaceCases
      <4> QED BY <4>1, <4>2, <4>3, <4>4, <4>5
    <3>9. kn.call[t].p \in MPF /\ kn.locked[kn.call[t].p]
      BY <2>1, <3>5, <3>8 DEF LockInv
    <3> QED BY <3>8, <3>9, PoolHeads
  <2> QED BY <2>4, <2>5, <2>6
<1> QED BY <1>1, PoolInvariance, PTL

\* The entries of the queue of a pool are tasks that wait for its blocks.
LEMMA QueueWaits ==
    ASSUME NEW k, PoolState(k), NEW p \in MPF, k.que[p] # <<>>
    PROVE  \E t \in Task : k.state[t] \in WaitBit /\ k.wid[t] = p
<1> DEFINE s == k.que[p]
<1>1. /\ Linked(k.que, PoolPlaces(k)) /\ Kernel(k) /\ s \in Seq(Task)
      /\ p \in QueHead /\ p \in OtherHead
  BY PoolHeads, OtherHeads DEF PoolState, Steady, Ready, Kernel, Rings
<1>2. 1 \in DOMAIN s /\ s[1] \in Task
  <2>1. s # <<>>
    OBVIOUS
  <2> HIDE DEF s
  <2>2. Len(s) \in Nat /\ DOMAIN s = 1..Len(s) /\ (s # <<>> => Len(s) # 0)
    BY <1>1, LenProperties, EmptySeq
  <2>3. 1 \in 1..Len(s)
    BY <2>1, <2>2
  <2> QED BY <1>1, <2>2, <2>3, ElementOfSeq
<1>3. InRing(s, s[1])
  BY <1>2 DEF InRing
<1> DEFINE t == s[1]
<1>4. t \in Task /\ p \in PoolPlaces(k)[t]
  BY <1>1, <1>2, <1>3 DEF Linked
<1> HIDE DEF s, t
<1>5. k.priority[t] \in Pri /\ p \notin Pri /\ p # FreeTcb
  BY <1>1, <1>4, PoolHeads, OtherHeads DEF Kernel
<1>6. k.klockwait[t] => k.call[t].p \in MPF
  BY <1>4 DEF PoolState, LockInv
<1>7. k.state[t] \in WaitBit /\ k.wid[t] = p
  <2>1. CASE k.state[t] = "READY" /\ ~k.klockwait[t]
    BY <1>4, <1>5, <2>1, PlaceCases
  <2>2. CASE k.state[t] = "READY" /\ k.klockwait[t]
    <3>1. LockQ[k.call[t].p] \notin MPF
      BY <1>6, <2>2, PoolHeads
    <3> QED BY <1>4, <2>2, <3>1, PlaceCases
  <2>3. CASE k.state[t] \in WaitBit
    BY <1>4, <2>3, PlaceCases
  <2>4. CASE k.state[t] = "NONEXIST"
    BY <1>4, <1>5, <2>4, PlaceCases
  <2>5. CASE k.state[t] \notin WaitBit \cup {"READY", "NONEXIST"}
    BY <1>4, <2>5, PlaceCases
  <2> QED BY <2>1, <2>2, <2>3, <2>4, <2>5
<1> QED BY <1>4, <1>7

\* No task waits for a block of a pool that has one, in any instance.
THEOREM NoIdleBlocks == PoolSpec => []NoIdleBlock
<1>1. PoolInv => NoIdleBlock
  <2> SUFFICES ASSUME PoolInv, NEW p \in MPF, kn.que[p] # <<>>
               PROVE  kn.mpf[p] = "exists" /\ kn.frbcnt[p] = 0
    BY DEF NoIdleBlock
  <2>1. PoolState(kn)
    BY DEF PoolInv
  <2>2. PICK t \in Task : kn.state[t] \in WaitBit /\ kn.wid[t] = p
    BY <2>1, QueueWaits
  <2> QED BY <2>1, <2>2 DEF PoolState, WaitInv
<1> QED BY <1>1, PoolInvariance, PTL

\* No block of a pool is lost, given twice or miscounted, whatever calls are
\* interrupted or abandoned between their steps, in any instance.
THEOREM BlocksCorrect == PoolSpec => []BlocksExact
<1>1. PoolInv => BlocksExact
  <2> SUFFICES ASSUME PoolInv, NEW p \in MPF, kn.mpf[p] = "exists"
               PROVE  LET back == {t \in Task : kn.call[t].p = p /\ kn.call[t].b # NoBlock}
                          parts == <<ToSet(kn.freelist[p]), kn.unused[p]..MpfCnt, kn.given[p],
                                     {kn.call[t].b : t \in back}>>
                      IN  /\ UNION {parts[i] : i \in 1..4} = Block
                          /\ \A i, j \in 1..4 : i # j => parts[i] \cap parts[j] = {}
                          /\ \A t, u \in back : kn.call[t].b = kn.call[u].b => t = u
                          /\ IsInjective(kn.freelist[p])
                          /\ kn.frbcnt[p] = Len(kn.freelist[p]) + MpfCnt + 1 - kn.unused[p]
    BY DEF BlocksExact
  <2> DEFINE back == {t \in Task : kn.call[t].p = p /\ kn.call[t].b # NoBlock}
             free == ToSet(kn.freelist[p])
             new == kn.unused[p]..MpfCnt
             given == kn.given[p]
             returned == {kn.call[t].b : t \in back}
             parts == <<free, new, given, returned>>
  <2>1. Pools(kn) /\ Partition(kn, p)
    BY DEF PoolInv, PoolState, BlockInv
  <2>2. /\ kn.freelist[p] \in Seq(Block) /\ kn.unused[p] \in 1..MpfCnt+1 /\ given \subseteq Block
        /\ kn.call \in [Task -> CallRecord] /\ MpfCnt \in Nat
    BY <2>1, PoolHeads DEF Pools
  <2>3. free \subseteq Block /\ \A b \in Block : b \in free <=> Contains(kn.freelist[p], b)
    <3> DEFINE s == kn.freelist[p]
    <3>1. s \in Seq(Block)
      BY <2>2
    <3> HIDE DEF s
    <3>2. DOMAIN s = 1..Len(s) /\ \A i \in 1..Len(s) : s[i] \in Block
      BY <3>1, ElementOfSeq, LenProperties
    <3>3. ToSet(s) \subseteq Block /\ \A b \in Block : b \in ToSet(s) <=> Contains(s, b)
      BY <3>2 DEF ToSet, Contains
    <3> QED BY <3>3 DEF s
  <2>4. new \subseteq Block /\ \A b \in Block : b \in new <=> b >= kn.unused[p]
    BY <2>2 DEF Block
  <2>5. returned \subseteq Block
        /\ \A b \in Block : b \in returned <=> \E t \in Task : Back(kn, t, p, b)
    <3>1. \A t \in back : kn.call[t].b \in Block
      BY <2>2 DEF CallRecord
    <3>2. NoBlock \notin Block
      BY PoolHeads
    <3> QED BY <3>1, <3>2 DEF Back
  <2>6. \A b \in Block :
           /\ b \in free => b < kn.unused[p] /\ b \notin given
           /\ b \in given => b < kn.unused[p]
           /\ b \in free \/ b >= kn.unused[p] \/ b \in given \/ b \in returned
           /\ b \in returned => b < kn.unused[p] /\ b \notin given /\ b \notin free
    BY <2>1, <2>3, <2>5 DEF Partition
  <2>7. \A t, u \in back : kn.call[t].b = kn.call[u].b => t = u
    <3> SUFFICES ASSUME NEW t \in back, NEW u \in back, kn.call[t].b = kn.call[u].b
                 PROVE  t = u
      OBVIOUS
    <3>1. kn.call[t].b \in Block
      BY <2>2 DEF CallRecord
    <3>2. Back(kn, t, p, kn.call[t].b) /\ Back(kn, u, p, kn.call[t].b)
      BY DEF Back
    <3> QED BY <2>1, <3>1, <3>2 DEF Partition
  <2>8. \A b \in Block : b \in Nat /\ kn.unused[p] \in Nat
    BY <2>2 DEF Block
  <2>9. IsInjective(kn.freelist[p])
        /\ kn.frbcnt[p] = Len(kn.freelist[p]) + MpfCnt + 1 - kn.unused[p]
    BY <2>1 DEF Partition
  <2> HIDE DEF free, new, given, returned, back
  <2>10. /\ parts[1] = free /\ parts[2] = new /\ parts[3] = given /\ parts[4] = returned
    OBVIOUS
  <2>11. /\ free \cap new = {} /\ free \cap given = {} /\ free \cap returned = {}
         /\ new \cap given = {} /\ new \cap returned = {} /\ given \cap returned = {}
    BY <2>2, <2>3, <2>4, <2>5, <2>6, <2>8
  <2>12. \A b \in Block : b \in free \/ b \in new \/ b \in given \/ b \in returned
    BY <2>4, <2>6
  <2> HIDE DEF parts
  <2>13. \A i \in 1..4 : i = 1 \/ i = 2 \/ i = 3 \/ i = 4
    OBVIOUS
  <2>14. \A i, j \in 1..4 : i # j => parts[i] \cap parts[j] = {}
    BY <2>10, <2>11, <2>13
  <2>15. UNION {parts[i] : i \in 1..4} = Block
    <3>1. \A i \in 1..4 : parts[i] \subseteq Block
      BY <2>2, <2>3, <2>4, <2>5, <2>10, <2>13
    <3>2. \A b \in Block : \E i \in 1..4 : b \in parts[i]
      <4>1. 1 \in 1..4 /\ 2 \in 1..4 /\ 3 \in 1..4 /\ 4 \in 1..4
        OBVIOUS
      <4> QED BY <2>10, <2>12, <4>1
    <3> QED BY <3>1, <3>2
  <2> QED BY <2>7, <2>9, <2>14, <2>15 DEF parts, free, new, given, returned, back
<1> QED BY <1>1, PoolInvariance, PTL
=============================================================================
