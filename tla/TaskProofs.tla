----------------------------- MODULE TaskProofs -----------------------------
(***************************************************************************)
(* Proofs about Task, for any number of tasks and priorities: type         *)
(* correctness and the safety invariants, from an inductive invariant, and *)
(* the implementation of Precedence.                                       *)
(***************************************************************************)
EXTENDS TaskPrecedence, TKernelProofs

(***************************************************************************)
(* Good(k): the tasks are linked in the rings their states say, and the    *)
(* ready queue and the selected task are consistent with that.             *)
(***************************************************************************)
Place(k) == [t \in Task |-> RingOf(k, t)]
Good(k) == Consistent(k, Place(k))

Unlinked == {"WAIT", "SUSPEND", "WAITSUS", "DORMANT"}

LEMMA PlaceByState ==
    ASSUME NEW k, NEW t \in Task
    PROVE  /\ k.state[t] = "READY" => Place(k)[t] = {k.priority[t]}
           /\ k.state[t] = "NONEXIST" => Place(k)[t] = {FreeTcb}
           /\ k.state[t] \in Unlinked => Place(k)[t] = {}
  BY DEF Place, RingOf, Unlinked

\* A step that moves task t only.
LEMMA PlaceChange ==
    ASSUME NEW k, NEW k1, NEW t \in Task,
           Consistent(k1, [Place(k) EXCEPT ![t] = RingOf(k1, t)]),
           \A u \in Task \ {t} : k1.state[u] = k.state[u] /\ k1.priority[u] = k.priority[u]
    PROVE  Good(k1)
<1>1. \A u \in Task \ {t} : RingOf(k1, u) = RingOf(k, u)
  BY DEF RingOf
<1>2. Place(k1) = [Place(k) EXCEPT ![t] = RingOf(k1, t)]
  BY <1>1 DEF Place
<1> QED BY <1>2 DEF Good

LEMMA GoodType ==
    ASSUME NEW k, Good(k)
    PROVE  /\ k \in KernelState /\ KLockFree(k) /\ Place(k) \in Places
           /\ k.state \in [Task -> TSTAT] /\ k.priority \in [Task -> Pri]
           /\ k.ipriority \in [Task -> Pri]
           /\ k.schedtsk = ReadyQueueTop(k)
  BY DEF Good, Consistent, Queued, KernelState

\* A change of data that no ring depends on.
SameRings(k1, k) ==
    /\ k1.que = k.que /\ k1.bitmap = k.bitmap /\ k1.top_priority = k.top_priority
    /\ k1.klocktsk = k.klocktsk /\ k1.schedtsk = k.schedtsk
    /\ k1.klocked = k.klocked /\ k1.klockwait = k.klockwait

LEMMA SameRingsConsistent ==
    ASSUME NEW k, NEW r, Consistent(k, r), NEW k1 \in KernelState, SameRings(k1, k)
    PROVE  Consistent(k1, r)
<1>1. r \in Places /\ Linked(k1.que, r) /\ KLockFree(k1)
  BY DEF Consistent, Queued, SameRings, KLockFree
<1> QED BY <1>1, OtherRings DEF SameRings

\* The selected task is READY.
LEMMA SelectedIsReady ==
    ASSUME NEW k, Good(k), k.schedtsk # NoTask
    PROVE  k.schedtsk \in Task /\ k.state[k.schedtsk] = "READY"
<1>1. Queued(k, Place(k)) /\ k.schedtsk = ReadyQueueTop(k)
  BY DEF Good, Consistent
<1>2. /\ k.top_priority \in Pri
      /\ k.schedtsk \in Task
      /\ k.top_priority \in Place(k)[k.schedtsk]
  BY <1>1, TopInRing
<1>3. k.top_priority # FreeTcb
  BY <1>2, PriIsNatural
<1> QED BY <1>2, <1>3 DEF Place, RingOf

(***************************************************************************)
(* The operators of TKernel from one good state to another.                *)
(***************************************************************************)
LEMMA MakeReadyGood ==
    ASSUME NEW k, Good(k), NEW t \in Task, k.state[t] \in Unlinked
    PROVE  /\ Good(MakeReady(k, t))
           /\ SameData(MakeReady(k, t), k)
           /\ MakeReady(k, t).state = [k.state EXCEPT ![t] = "READY"]
<1> DEFINE k1 == MakeReady(k, t)
           r == Place(k)
<1>1. Consistent(k, r) /\ r[t] = {}
  BY PlaceByState DEF Good
<1> HIDE DEF r
<1>2. /\ Consistent(k1, [r EXCEPT ![t] = {k.priority[t]}])
      /\ SameData(k1, k)
      /\ k1.state = [k.state EXCEPT ![t] = "READY"]
  BY <1>1, MakeReadyConsistent
<1> HIDE DEF k1
<1>3. RingOf(k1, t) = {k.priority[t]}
  BY <1>2, GoodType DEF RingOf, SameData
<1>4. Good(k1)
  BY <1>2, <1>3, GoodType, PlaceChange DEF SameData, r
<1> QED BY <1>2, <1>4 DEF k1

\* A READY task blocks: after knl_make_non_ready its state is set.
LEMMA BlockGood ==
    ASSUME NEW k, Good(k), NEW t \in Task, k.state[t] = "READY",
           NEW s \in Unlinked,
           NEW k1 \in KernelState, SameRings(k1, MakeNonReady(k, t)),
           k1.state = [k.state EXCEPT ![t] = s],
           k1.priority = k.priority
    PROVE  Good(k1)
<1> DEFINE r == Place(k)
           k0 == MakeNonReady(k, t)
<1>1. Consistent(k, r) /\ r[t] = {k.priority[t]}
  BY PlaceByState DEF Good
<1> HIDE DEF r
<1>2. Consistent(k0, [r EXCEPT ![t] = {}])
  BY <1>1, MakeNonReadyConsistent
<1> HIDE DEF k0
<1>3. Consistent(k1, [r EXCEPT ![t] = {}])
  BY <1>2, SameRingsConsistent DEF k0
<1>4. RingOf(k1, t) = {}
  BY GoodType DEF RingOf, Unlinked
<1> QED BY <1>3, <1>4, GoodType, PlaceChange DEF r

\* A change of data; the state of t may change between states without ring.
LEMMA DataGood ==
    ASSUME NEW k, Good(k), NEW t \in Task,
           NEW k1 \in KernelState, SameRings(k1, k),
           \/ k1.state[t] = k.state[t] /\ k1.priority[t] = k.priority[t]
           \/ k.state[t] \in Unlinked /\ k1.state[t] \in Unlinked,
           \A u \in Task \ {t} : k1.state[u] = k.state[u] /\ k1.priority[u] = k.priority[u]
    PROVE  Good(k1)
<1> DEFINE r == Place(k)
<1>1. Consistent(k1, r)
  <2>1. Consistent(k, r)
    BY DEF Good
  <2> HIDE DEF r
  <2> QED BY <2>1, SameRingsConsistent
<1>2. RingOf(k1, t) = RingOf(k, t)
  BY DEF RingOf, Unlinked
<1>3. [r EXCEPT ![t] = RingOf(k1, t)] = r
  BY <1>2 DEF Place
<1> QED BY <1>1, <1>3, PlaceChange

\* What the second group of invariants speaks of.
SameCounts(k1, k) == k1.wupcnt = k.wupcnt /\ k1.suscnt = k.suscnt

LEMMA WaitCancelGood ==
    ASSUME NEW k, Good(k), NEW t \in Task, k.state[t] \in Unlinked
    PROVE  LET k1 == WaitCancel(k, t)
           IN  /\ Good(k1) /\ k1.state = k.state /\ SameCounts(k1, k)
               /\ k1.wspec = k.wspec /\ k1.wtmeb = [k.wtmeb EXCEPT ![t] = FALSE]
<1> DEFINE r == Place(k)
           k1 == WaitCancel(k, t)
<1>1. Consistent(k, r) /\ r[t] = {}
  BY PlaceByState DEF Good
<1>2. [r EXCEPT ![t] = {}] = r
  BY <1>1 DEF Place
<1> HIDE DEF r
<1>3. /\ Consistent(k1, [r EXCEPT ![t] = {}])
      /\ k1.state = k.state /\ k1.wtmeb = [k.wtmeb EXCEPT ![t] = FALSE]
      /\ k1.priority = k.priority
      /\ k1.wupcnt = k.wupcnt /\ k1.suscnt = k.suscnt /\ k1.wspec = k.wspec
  BY <1>1, WaitCancelConsistent
<1> HIDE DEF k1
<1>4. Place(k1) = Place(k)
  BY <1>3 DEF Place, RingOf
<1> QED BY <1>2, <1>3, <1>4 DEF Good, SameCounts, k1, r

\* Releasing a wait makes the task READY, or leaves it suspended.
LEMMA WaitReleaseGood ==
    ASSUME NEW k, Good(k), NEW t \in Task, k.state[t] \in WaitBit, NEW ercd \in Ercd
    PROVE  LET k1 == WaitRelease(k, t, ercd)
           IN  /\ Good(k1) /\ SameCounts(k1, k)
               /\ k1.state = [k.state EXCEPT
                                ![t] = IF @ = "WAIT" THEN "READY" ELSE "SUSPEND"]
               /\ k1.wspec = [k.wspec EXCEPT ![t] = NoSpec]
               /\ k1.wtmeb = [k.wtmeb EXCEPT ![t] = FALSE]
<1> DEFINE k0 == WaitCancel(k, t)
           k1 == MakeNonWait(k0, t)
           k2 == WaitRelease(k, t, ercd)
           s == IF k.state[t] = "WAIT" THEN "READY" ELSE "SUSPEND"
<1>1. /\ Good(k0) /\ k0.state = k.state /\ SameCounts(k0, k)
      /\ k0.wspec = k.wspec /\ k0.wtmeb = [k.wtmeb EXCEPT ![t] = FALSE]
  BY WaitCancelGood DEF WaitBit, Unlinked
<1> HIDE DEF k0
<1>2. /\ Good(k1) /\ k1.state = [k0.state EXCEPT ![t] = s] /\ SameCounts(k1, k0)
      /\ k1.wspec = k0.wspec /\ k1.wtmeb = k0.wtmeb
  <2>1. CASE k.state[t] = "WAIT"
    BY <1>1, <2>1, MakeReadyGood DEF MakeNonWait, SameData, SameCounts, Unlinked
  <2>2. CASE k.state[t] # "WAIT"
    <3>1. k1 = [k0 EXCEPT !.state[t] = "SUSPEND"]
      BY <1>1, <2>2 DEF MakeNonWait
    <3>2. /\ k1 \in KernelState /\ SameRings(k1, k0) /\ k1.priority = k0.priority
          /\ k1.state = [k0.state EXCEPT ![t] = "SUSPEND"] /\ SameCounts(k1, k0)
          /\ k1.wspec = k0.wspec /\ k1.wtmeb = k0.wtmeb
      <4> HIDE DEF k1
      <4>1. k0 \in KernelState
        BY <1>1, GoodType
      <4> QED BY <3>1, <4>1 DEF KernelState, SameRings, SameCounts, TSTAT
    <3> HIDE DEF k1
    <3>3. Good(k1)
      BY <1>1, <3>2, GoodType, DataGood DEF Unlinked, WaitBit
    <3> QED BY <2>2, <3>2, <3>3
  <2> QED BY <2>1, <2>2
<1>3. k2 = [k1 EXCEPT !.wspec[t] = NoSpec, !.wercd[t] = ercd]
  BY DEF WaitRelease, k0
<1> HIDE DEF k1, k2
<1>4. /\ k2 \in KernelState /\ SameRings(k2, k1) /\ k2.priority = k1.priority
      /\ k2.state = k1.state /\ SameCounts(k2, k1)
      /\ k2.wspec = [k1.wspec EXCEPT ![t] = NoSpec] /\ k2.wtmeb = k1.wtmeb
  <2>1. /\ k1 \in KernelState
        /\ [k1.wspec EXCEPT ![t] = NoSpec] \in [Task -> WSpec]
        /\ [k1.wercd EXCEPT ![t] = ercd] \in [Task -> Ercd]
    BY <1>2, GoodType DEF KernelState, WSpec
  <2> QED BY <1>3, <2>1 DEF KernelState, SameRings, SameCounts
<1>5. Good(k2)
  BY <1>2, <1>4, DataGood
<1> QED BY <1>1, <1>2, <1>4, <1>5 DEF SameCounts, k2

\* Ending a task starts with taking it from its ring.
LEMMA DetachGood ==
    ASSUME NEW k, Good(k), NEW t \in Task, k.state[t] \in Alive
    PROVE  LET k1 == Detach(k, t)
           IN  /\ Consistent(k1, [Place(k) EXCEPT ![t] = {}])
               /\ k1.state = k.state /\ k1.priority = k.priority /\ SameCounts(k1, k)
               /\ k1.wspec = k.wspec
               /\ k1.wtmeb = IF k.state[t] \in WaitBit THEN [k.wtmeb EXCEPT ![t] = FALSE]
                             ELSE k.wtmeb
<1> DEFINE r == Place(k)
           k1 == Detach(k, t)
<1>0. Consistent(k, r)
  BY DEF Good
<1>1. CASE k.state[t] = "READY"
  <2>1. k1 = MakeNonReady(k, t) /\ r[t] = {k.priority[t]}
    BY <1>1, PlaceByState DEF Detach
  <2> HIDE DEF r, k1
  <2>2. /\ Consistent(k1, [r EXCEPT ![t] = {}])
        /\ SameData(k1, k) /\ k1.state = k.state
    BY <1>0, <2>1, MakeNonReadyConsistent
  <2> QED BY <1>1, <2>2 DEF SameData, SameCounts, WaitBit, k1, r
<1>2. CASE k.state[t] \in WaitBit
  <2>1. k1 = WaitCancel(k, t) /\ r[t] = {}
    BY <1>2, PlaceByState DEF Detach, WaitBit, Unlinked
  <2> HIDE DEF r, k1
  <2>2. /\ Consistent(k1, [r EXCEPT ![t] = {}])
        /\ k1.state = k.state /\ k1.wtmeb = [k.wtmeb EXCEPT ![t] = FALSE]
        /\ k1.priority = k.priority
        /\ k1.wupcnt = k.wupcnt /\ k1.suscnt = k.suscnt /\ k1.wspec = k.wspec
    BY <1>0, <2>1, WaitCancelConsistent
  <2> QED BY <1>2, <2>2 DEF SameCounts, k1, r
<1>3. CASE k.state[t] = "SUSPEND"
  <2>1. k1 = k /\ r[t] = {}
    BY <1>3, PlaceByState DEF Detach, WaitBit, Unlinked
  <2>2. [r EXCEPT ![t] = {}] = r
    BY <2>1 DEF Place
  <2> QED BY <1>0, <1>3, <2>1, <2>2 DEF SameCounts, WaitBit
<1> QED BY <1>1, <1>2, <1>3 DEF Alive, WaitBit

\* In k0, task t is in no ring and the others are where they are in k.
Unplaced(k0, k, t) ==
    /\ Consistent(k0, [Place(k) EXCEPT ![t] = {}])
    /\ \A u \in Task \ {t} : k0.state[u] = k.state[u] /\ k0.priority[u] = k.priority[u]

\* The state of t is s and its counts are reset.
Reset(k1, k, t, s) ==
    /\ k1.state = [k.state EXCEPT ![t] = s]
    /\ k1.wupcnt = [k.wupcnt EXCEPT ![t] = 0]
    /\ k1.suscnt = [k.suscnt EXCEPT ![t] = 0]
    /\ k1.wspec = [k.wspec EXCEPT ![t] = NoSpec]
    /\ k1.wtmeb = k.wtmeb

\* A task that is in no ring becomes dormant.
LEMMA DormantGood ==
    ASSUME NEW k, NEW k0, NEW t \in Task, Unplaced(k0, k, t)
    PROVE  Good(MakeDormant(k0, t)) /\ Reset(MakeDormant(k0, t), k0, t, "DORMANT")
<1> DEFINE r == [Place(k) EXCEPT ![t] = {}]
           k1 == MakeDormant(k0, t)
<1>0. /\ Consistent(k0, r)
      /\ \A u \in Task \ {t} : k0.state[u] = k.state[u] /\ k0.priority[u] = k.priority[u]
  BY DEF Unplaced
<1> HIDE DEF r
<1>1. /\ Consistent(k1, r)
      /\ k1.state = [k0.state EXCEPT ![t] = "DORMANT"]
      /\ k1.priority = [k0.priority EXCEPT ![t] = k0.ipriority[t]]
      /\ k1.wupcnt = [k0.wupcnt EXCEPT ![t] = 0]
      /\ k1.suscnt = [k0.suscnt EXCEPT ![t] = 0]
      /\ k1.wspec = [k0.wspec EXCEPT ![t] = NoSpec]
      /\ k1.wtmeb = k0.wtmeb
  BY <1>0, MakeDormantConsistent
<1>2. k0.state \in [Task -> TSTAT] /\ k0.priority \in [Task -> Pri]
  BY <1>0 DEF Consistent, Queued, KernelState
<1> HIDE DEF k1
<1>3. RingOf(k1, t) = {}
  BY <1>1, <1>2 DEF RingOf
<1>4. Good(k1)
  <2>1. Consistent(k1, [Place(k) EXCEPT ![t] = RingOf(k1, t)])
    BY <1>1, <1>3 DEF r
  <2>2. \A u \in Task \ {t} : k1.state[u] = k.state[u] /\ k1.priority[u] = k.priority[u]
    BY <1>0, <1>1, <1>2
  <2> QED BY <2>1, <2>2, PlaceChange
<1> QED BY <1>1, <1>4 DEF k1, Reset

\* tk_cre_tsk takes the first free TCB.
LEMMA CreateTcbGood ==
    ASSUME NEW k, Good(k), k.que[FreeTcb] # <<>>, NEW p \in Pri
    PROVE  LET t == Head(k.que[FreeTcb])
               k1 == CreateTcb(k, p)
           IN  /\ t \in Task /\ k.state[t] = "NONEXIST"
               /\ Good(k1) /\ Reset(k1, k, t, "DORMANT")
<1> DEFINE que == k.que
           t == Head(que[FreeTcb])
           new == [que EXCEPT ![FreeTcb] = Tail(que[FreeTcb])]
           k0 == [k EXCEPT !.que = new, !.ipriority = [k.ipriority EXCEPT ![t] = p]]
           r == Place(k)
<1>1. /\ k \in KernelState /\ que \in Rings /\ r \in Places /\ Linked(que, r)
      /\ que[FreeTcb] # <<>> /\ FreeTcb \in QueHead /\ KLockFree(k) /\ Consistent(k, r)
  BY GoodType, PriIsNatural DEF Good, Consistent, Queued, KernelState, Rings
<1>2. /\ t \in Task /\ InRing(que[FreeTcb], t)
  <2> DEFINE s == que[FreeTcb]
  <2>1. s \in Seq(Task) /\ s # <<>> /\ IsInjective(s)
    BY <1>1 DEF Rings, Linked
  <2> HIDE DEF s
  <2>2. Head(s) \in Task /\ InRing(s, Head(s))
    BY <2>1, TailRing
  <2> QED BY <2>2 DEF s
<1>3. r[t] = {FreeTcb} /\ k.state[t] = "NONEXIST"
  <2>1. FreeTcb \in RingOf(k, t)
    BY <1>1, <1>2 DEF Linked, Place
  <2>2. k.priority[t] # FreeTcb
    BY <1>1, <1>2, PriIsNatural DEF KernelState
  <2> HIDE DEF t, r
  <2>3. k.state[t] = "NONEXIST"
    BY <2>1, <2>2 DEF RingOf
  <2> QED BY <1>2, <2>3, PlaceByState DEF r
<1>4. /\ new \in Rings
      /\ Linked(new, [r EXCEPT ![t] = {}])
  <2> HIDE DEF r, que
  <2> QED BY <1>1, <1>3, TailLinked
<1>5. CreateTcb(k, p) = MakeDormant(k0, t)
  BY DEF CreateTcb
<1> HIDE DEF new, t
<1>6. /\ k0 \in KernelState /\ k0.que = new
      /\ k0.klocked = k.klocked /\ k0.klockwait = k.klockwait /\ k0.klocktsk = k.klocktsk
      /\ k0.bitmap = k.bitmap /\ k0.top_priority = k.top_priority /\ k0.schedtsk = k.schedtsk
      /\ k0.state = k.state /\ k0.wtmeb = k.wtmeb /\ k0.priority = k.priority
      /\ k0.wupcnt = k.wupcnt /\ k0.suscnt = k.suscnt /\ k0.wspec = k.wspec
  BY <1>1, <1>2, <1>4 DEF KernelState, Rings
<1> HIDE DEF k0
<1>7. Consistent(k0, [r EXCEPT ![t] = {}])
  <2>1. \A q \in Pri : k0.que[q] = k.que[q]
    BY <1>1, <1>6, PriIsNatural DEF new, Rings
  <2>2. KLockFree(k0) /\ [r EXCEPT ![t] = {}] \in Places
    BY <1>1, <1>6 DEF KLockFree, Places
  <2> HIDE DEF r
  <2> QED BY <1>1, <1>4, <1>6, <2>1, <2>2, OtherRings
<1>8. Unplaced(k0, k, t)
  BY <1>6, <1>7 DEF Unplaced
<1>9. /\ Good(MakeDormant(k0, t))
      /\ Reset(MakeDormant(k0, t), k0, t, "DORMANT")
  BY <1>2, <1>8, DormantGood
<1>10. Reset(MakeDormant(k0, t), k, t, "DORMANT")
  BY <1>6, <1>9 DEF Reset
<1> QED BY <1>2, <1>3, <1>5, <1>9, <1>10 DEF t

\* knl_del_tsk puts the TCB of a task that is in no ring last in the free
\* ring.
LEMMA ReturnTcbGood ==
    ASSUME NEW k, NEW k0, NEW t \in Task, Unplaced(k0, k, t)
    PROVE  Good(ReturnTcb(k0, t)) /\ Reset(ReturnTcb(k0, t), k0, t, "NONEXIST")
<1> DEFINE r == [Place(k) EXCEPT ![t] = {}]
           ka == [k0 EXCEPT !.ipriority[t] = 0]
           kb == MakeDormant(ka, t)
           que == kb.que
           new == QueInsert(que, t, FreeTcb)
           k1 == ReturnTcb(k0, t)
<1>0. /\ Consistent(k0, r)
      /\ \A u \in Task \ {t} : k0.state[u] = k.state[u] /\ k0.priority[u] = k.priority[u]
  BY DEF Unplaced
<1>1. k0 \in KernelState /\ r \in Places /\ r[t] = {} /\ 0 \in Pri
  <2>1. r[t] = {}
    BY DEF Place
  <2> HIDE DEF r
  <2> QED BY <1>0, <2>1, PriIsNatural DEF Consistent, Queued, Pri
<1> HIDE DEF r
<1>2. /\ ka \in KernelState /\ SameRings(ka, k0)
      /\ ka.state = k0.state /\ ka.priority = k0.priority
      /\ ka.wupcnt = k0.wupcnt /\ ka.suscnt = k0.suscnt
      /\ ka.wspec = k0.wspec /\ ka.wtmeb = k0.wtmeb
  BY <1>1 DEF KernelState, SameRings
<1>3. Consistent(ka, r)
  <2> HIDE DEF ka
  <2> QED BY <1>0, <1>2, SameRingsConsistent
<1> HIDE DEF ka
<1>4. /\ Consistent(kb, r)
      /\ kb.state = [ka.state EXCEPT ![t] = "DORMANT"]
      /\ kb.priority = [ka.priority EXCEPT ![t] = ka.ipriority[t]]
      /\ kb.wupcnt = [ka.wupcnt EXCEPT ![t] = 0]
      /\ kb.suscnt = [ka.suscnt EXCEPT ![t] = 0]
      /\ kb.wspec = [ka.wspec EXCEPT ![t] = NoSpec]
      /\ kb.wtmeb = ka.wtmeb
  BY <1>3, MakeDormantConsistent
<1> HIDE DEF kb
<1>5. /\ kb \in KernelState /\ KLockFree(kb)
      /\ que \in Rings /\ r \in Places /\ Linked(que, r)
      /\ r[t] = {} /\ FreeTcb \in QueHead
  BY <1>1, <1>4, PriIsNatural DEF Consistent, Queued, KernelState, Rings
<1>6. /\ new \in Rings
      /\ Linked(new, [r EXCEPT ![t] = {FreeTcb}])
      /\ \A g \in QueHead \ {FreeTcb} : new[g] = que[g]
  <2> HIDE DEF que
  <2> QED BY <1>5, QueInsertLinked
<1>7. k1 = [kb EXCEPT !.que = new, !.state[t] = "NONEXIST"]
  BY DEF ReturnTcb, ka, kb
<1> HIDE DEF new, k1
<1>8. /\ k1 \in KernelState /\ k1.que = new
      /\ k1.klocked = kb.klocked /\ k1.klockwait = kb.klockwait /\ k1.klocktsk = kb.klocktsk
      /\ k1.bitmap = kb.bitmap /\ k1.top_priority = kb.top_priority /\ k1.schedtsk = kb.schedtsk
      /\ k1.state = [kb.state EXCEPT ![t] = "NONEXIST"]
      /\ k1.wtmeb = kb.wtmeb /\ k1.priority = kb.priority
      /\ k1.wupcnt = kb.wupcnt /\ k1.suscnt = kb.suscnt /\ k1.wspec = kb.wspec
  BY <1>5, <1>6, <1>7 DEF KernelState, Rings, TSTAT
<1>9. Consistent(k1, [r EXCEPT ![t] = {FreeTcb}])
  <2>1. \A q \in Pri : k1.que[q] = kb.que[q]
    BY <1>6, <1>8, PriIsNatural
  <2>2. KLockFree(k1) /\ [r EXCEPT ![t] = {FreeTcb}] \in Places
    BY <1>5, <1>8 DEF KLockFree, Places
  <2> QED BY <1>4, <1>6, <1>8, <2>1, <2>2, OtherRings
<1>10. k1.state = [k0.state EXCEPT ![t] = "NONEXIST"]
  BY <1>1, <1>2, <1>4, <1>8 DEF KernelState
<1>11. RingOf(k1, t) = {FreeTcb}
  BY <1>1, <1>10 DEF RingOf, KernelState
<1>12. Good(k1)
  <2>1. [r EXCEPT ![t] = {FreeTcb}] = [Place(k) EXCEPT ![t] = RingOf(k1, t)]
    BY <1>11 DEF Place, r
  <2>2. \A u \in Task \ {t} : k1.state[u] = k.state[u] /\ k1.priority[u] = k.priority[u]
    BY <1>0, <1>1, <1>2, <1>4, <1>8, <1>10 DEF KernelState
  <2> QED BY <1>9, <2>1, <2>2, PlaceChange
<1> QED BY <1>2, <1>4, <1>8, <1>10, <1>12 DEF k1, Reset

LEMMA DetachUnplaced ==
    ASSUME NEW k, Good(k), NEW t \in Task, k.state[t] \in Alive
    PROVE  Unplaced(Detach(k, t), k, t)
  BY DetachGood DEF Unplaced

\* A READY task waits.
LEMMA MakeWaitGood ==
    ASSUME NEW k, Good(k), NEW t \in Task, k.state[t] = "READY", NEW tmout \in TMO
    PROVE  LET k1 == MakeWait(k, t, tmout)
           IN  /\ Good(k1) /\ SameCounts(k1, k) /\ k1.wspec = k.wspec
               /\ k1.state = [k.state EXCEPT ![t] = "WAIT"]
               /\ k1.wtmeb = [k.wtmeb EXCEPT ![t] = (tmout = "TIME")]
<1> DEFINE k0 == MakeNonReady(k, t)
           k1 == MakeWait(k, t, tmout)
           r == Place(k)
<1>0. k \in KernelState /\ Consistent(k, r) /\ r[t] = {k.priority[t]}
  BY GoodType, PlaceByState DEF Good
<1> HIDE DEF r
<1>1. /\ Consistent(k0, [r EXCEPT ![t] = {}]) /\ SameData(k0, k) /\ k0.state = k.state
  BY <1>0, MakeNonReadyConsistent
<1>2. k1 = [k0 EXCEPT !.state[t] = "WAIT", !.wtmeb[t] = (tmout = "TIME")]
  BY <1>1 DEF MakeWait
<1> HIDE DEF k0, k1
<1>3. k0 \in KernelState
  BY <1>1 DEF Consistent, Queued
<1>4. /\ k1 \in KernelState /\ SameRings(k1, k0)
      /\ k1.state = [k.state EXCEPT ![t] = "WAIT"] /\ k1.priority = k.priority
      /\ k1.wtmeb = [k.wtmeb EXCEPT ![t] = (tmout = "TIME")]
      /\ SameCounts(k1, k) /\ k1.wspec = k.wspec
  <2>1. (tmout = "TIME") \in BOOLEAN
    OBVIOUS
  <2>2. [k0.wtmeb EXCEPT ![t] = (tmout = "TIME")] \in [Task -> BOOLEAN]
    BY <1>3, <2>1 DEF KernelState
  <2>3. [k0.state EXCEPT ![t] = "WAIT"] \in [Task -> TSTAT]
    BY <1>3 DEF KernelState, TSTAT
  <2> DEFINE b == [k0.wtmeb EXCEPT ![t] = (tmout = "TIME")]
             s == [k0.state EXCEPT ![t] = "WAIT"]
  <2>4. k1 = [k0 EXCEPT !.state = s, !.wtmeb = b]
    BY <1>2, <1>3 DEF KernelState
  <2>5. b = [k.wtmeb EXCEPT ![t] = (tmout = "TIME")] /\ s = [k.state EXCEPT ![t] = "WAIT"]
    BY <1>1 DEF SameData
  <2> HIDE DEF b, s
  <2>6. /\ k1 \in KernelState /\ SameRings(k1, k0)
        /\ k1.state = s /\ k1.priority = k0.priority /\ k1.wtmeb = b
        /\ SameCounts(k1, k0) /\ k1.wspec = k0.wspec
    BY <1>3, <2>2, <2>3, <2>4 DEF KernelState, SameRings, SameCounts, b, s
  <2> QED BY <1>1, <2>5, <2>6 DEF SameData, SameCounts
<1>5. Good(k1)
  BY <1>4, BlockGood DEF k0, Unlinked
<1> QED BY <1>4, <1>5 DEF k1

\* tk_sus_tsk
LEMMA SuspendGood ==
    ASSUME NEW k, Good(k), NEW t \in Task, k.state[t] \in Alive
    PROVE  LET k1 == Suspend(k, t)
           IN  /\ Good(k1)
               /\ k1.state = [k.state EXCEPT
                    ![t] = IF @ \in {"READY", "SUSPEND"} THEN "SUSPEND" ELSE "WAITSUS"]
               /\ k1.suscnt = [k.suscnt EXCEPT ![t] = @ + 1]
               /\ k1.wupcnt = k.wupcnt /\ k1.wspec = k.wspec /\ k1.wtmeb = k.wtmeb
<1> DEFINE ka == [k EXCEPT !.suscnt[t] = @ + 1]
           k1 == Suspend(k, t)
<1>0. k \in KernelState
  BY GoodType
<1>1. /\ ka \in KernelState /\ SameRings(ka, k) /\ ka.priority = k.priority
      /\ ka.state = k.state /\ ka.suscnt = [k.suscnt EXCEPT ![t] = @ + 1]
      /\ ka.wupcnt = k.wupcnt /\ ka.wspec = k.wspec /\ ka.wtmeb = k.wtmeb
  <2> DEFINE n == [k.suscnt EXCEPT ![t] = @ + 1]
  <2>1. k.suscnt \in [Task -> Nat]
    BY <1>0 DEF KernelState
  <2>2. k.suscnt[t] + 1 \in Nat
    BY <2>1
  <2>3. n \in [Task -> Nat]
    BY <2>1, <2>2
  <2>4. ka = [k EXCEPT !.suscnt = n]
    BY <1>0 DEF KernelState
  <2>5. n = [k.suscnt EXCEPT ![t] = @ + 1]
    OBVIOUS
  <2> HIDE DEF n, ka
  <2>6. /\ ka \in KernelState /\ SameRings(ka, k) /\ ka.priority = k.priority
        /\ ka.state = k.state /\ ka.suscnt = n
        /\ ka.wupcnt = k.wupcnt /\ ka.wspec = k.wspec /\ ka.wtmeb = k.wtmeb
    BY <1>0, <2>3, <2>4 DEF KernelState, SameRings
  <2> QED BY <2>5, <2>6
<1>2. k1 = CASE k.state[t] = "READY" -> [MakeNonReady(ka, t) EXCEPT !.state[t] = "SUSPEND"]
             [] k.state[t] = "WAIT" -> [ka EXCEPT !.state[t] = "WAITSUS"]
             [] OTHER -> ka
  BY DEF Suspend
<1> HIDE DEF ka, k1
<1>3. Good(ka)
  BY <1>1, DataGood
<1>4. CASE k.state[t] = "READY"
  <2> DEFINE k0 == MakeNonReady(ka, t)
             r == Place(ka)
  <2>1. Consistent(ka, r) /\ r[t] = {ka.priority[t]}
    BY <1>1, <1>3, <1>4, PlaceByState DEF Good
  <2> HIDE DEF r
  <2>2. Consistent(k0, [r EXCEPT ![t] = {}]) /\ SameData(k0, ka) /\ k0.state = ka.state
    BY <2>1, MakeNonReadyConsistent
  <2>3. k1 = [k0 EXCEPT !.state[t] = "SUSPEND"]
    BY <1>2, <1>4
  <2> HIDE DEF k0
  <2>4. k0 \in KernelState
    BY <2>2 DEF Consistent, Queued
  <2>5. /\ k1 \in KernelState /\ SameRings(k1, k0)
        /\ k1.state = [k0.state EXCEPT ![t] = "SUSPEND"] /\ k1.priority = k0.priority
        /\ k1.suscnt = k0.suscnt
        /\ k1.wupcnt = k0.wupcnt /\ k1.wspec = k0.wspec /\ k1.wtmeb = k0.wtmeb
    BY <2>3, <2>4 DEF KernelState, SameRings, TSTAT
  <2>6. Good(k1)
    BY <1>1, <1>3, <1>4, <2>2, <2>5, BlockGood DEF k0, Unlinked, SameData
  <2> QED BY <1>0, <1>1, <1>4, <2>2, <2>5, <2>6 DEF SameData, k1
<1>5. CASE k.state[t] = "WAIT"
  <2>1. k1 = [ka EXCEPT !.state[t] = "WAITSUS"]
    BY <1>2, <1>5
  <2>2. /\ k1 \in KernelState /\ SameRings(k1, ka)
        /\ k1.state = [ka.state EXCEPT ![t] = "WAITSUS"] /\ k1.priority = ka.priority
        /\ k1.suscnt = ka.suscnt
        /\ k1.wupcnt = ka.wupcnt /\ k1.wspec = ka.wspec /\ k1.wtmeb = ka.wtmeb
    BY <1>1, <2>1 DEF KernelState, SameRings, TSTAT
  <2>3. ka.state[t] \in Unlinked /\ k1.state[t] \in Unlinked
    BY <1>0, <1>1, <1>5, <2>2 DEF Unlinked, KernelState
  <2>4. \A u \in Task \ {t} : k1.state[u] = ka.state[u] /\ k1.priority[u] = ka.priority[u]
    BY <1>0, <1>1, <2>2 DEF KernelState
  <2>5. Good(k1)
    BY <1>3, <2>2, <2>3, <2>4, DataGood
  <2> QED BY <1>1, <1>5, <2>2, <2>5 DEF k1
<1>6. CASE k.state[t] \in {"SUSPEND", "WAITSUS"}
  <2>1. k1 = ka
    BY <1>2, <1>6
  <2>2. [k.state EXCEPT ![t] = IF @ \in {"READY", "SUSPEND"} THEN "SUSPEND" ELSE "WAITSUS"]
          = k.state
    BY <1>0, <1>6 DEF KernelState
  <2> QED BY <1>1, <1>3, <2>1, <2>2 DEF k1
<1> QED BY <1>4, <1>5, <1>6 DEF Alive

\* tk_rsm_tsk, tk_frsm_tsk
ResumeState(k, t, count) ==
    [k.state EXCEPT ![t] = IF count > 0 THEN @ ELSE IF @ = "SUSPEND" THEN "READY" ELSE "WAIT"]

Resumed(k1, k, t, count) ==
    /\ k1.state = ResumeState(k, t, count)
    /\ k1.suscnt = [k.suscnt EXCEPT ![t] = count]
    /\ k1.wupcnt = k.wupcnt /\ k1.wspec = k.wspec /\ k1.wtmeb = k.wtmeb

LEMMA ResumeGood ==
    ASSUME NEW k, Good(k), NEW t \in Task, k.state[t] \in {"SUSPEND", "WAITSUS"},
           NEW count \in Nat
    PROVE  Good(Resume(k, t, count)) /\ Resumed(Resume(k, t, count), k, t, count)
<1> DEFINE ka == [k EXCEPT !.suscnt[t] = count]
           k1 == Resume(k, t, count)
<1>0. k \in KernelState
  BY GoodType
<1>1. /\ ka \in KernelState /\ SameRings(ka, k) /\ ka.priority = k.priority
      /\ ka.state = k.state /\ ka.suscnt = [k.suscnt EXCEPT ![t] = count]
      /\ ka.wupcnt = k.wupcnt /\ ka.wspec = k.wspec /\ ka.wtmeb = k.wtmeb
  BY <1>0 DEF KernelState, SameRings
<1>2. /\ count > 0 => k1 = ka
      /\ count = 0 /\ k.state[t] = "SUSPEND" => k1 = MakeReady(ka, t)
      /\ count = 0 /\ k.state[t] = "WAITSUS" => k1 = [ka EXCEPT !.state[t] = "WAIT"]
  <2>1. k1 = IF count > 0 THEN ka
             ELSE IF k.state[t] = "SUSPEND" THEN MakeReady(ka, t)
             ELSE [ka EXCEPT !.state[t] = "WAIT"]
    BY DEF Resume
  <2> HIDE DEF ka, k1
  <2>2. ASSUME count > 0 PROVE k1 = ka
    BY <2>1, <2>2
  <2>3. ASSUME count = 0, k.state[t] = "SUSPEND" PROVE k1 = MakeReady(ka, t)
    BY <2>1, <2>3
  <2>4. ASSUME count = 0, k.state[t] = "WAITSUS" PROVE k1 = [ka EXCEPT !.state[t] = "WAIT"]
    BY <2>1, <2>4
  <2> QED BY <2>2, <2>3, <2>4
<1> HIDE DEF ka, k1
<1>3. Good(ka)
  BY <1>1, DataGood
<1>4. CASE count > 0
  <2>1. k1 = ka
    BY <1>2, <1>4
  <2>2. ResumeState(k, t, count) = k.state
    BY <1>0, <1>4 DEF KernelState, ResumeState
  <2> QED BY <1>1, <1>3, <2>1, <2>2 DEF k1, Resumed
<1>5. CASE count = 0 /\ k.state[t] = "SUSPEND"
  <2>1. k1 = MakeReady(ka, t)
    BY <1>2, <1>5
  <2>2. /\ Good(k1) /\ SameData(k1, ka) /\ k1.state = [ka.state EXCEPT ![t] = "READY"]
    BY <1>1, <1>3, <1>5, <2>1, MakeReadyGood DEF Unlinked
  <2> QED BY <1>1, <1>5, <2>2 DEF SameData, ResumeState, Resumed, k1
<1>6. CASE count = 0 /\ k.state[t] = "WAITSUS"
  <2>1. k1 = [ka EXCEPT !.state[t] = "WAIT"]
    BY <1>2, <1>6
  <2>2. /\ k1 \in KernelState /\ SameRings(k1, ka)
        /\ k1.state = [ka.state EXCEPT ![t] = "WAIT"] /\ k1.priority = ka.priority
        /\ k1.suscnt = ka.suscnt
        /\ k1.wupcnt = ka.wupcnt /\ k1.wspec = ka.wspec /\ k1.wtmeb = ka.wtmeb
    BY <1>1, <2>1 DEF KernelState, SameRings, TSTAT
  <2>3. ka.state[t] \in Unlinked /\ k1.state[t] \in Unlinked
    BY <1>0, <1>1, <1>6, <2>2 DEF Unlinked, KernelState
  <2>4. \A u \in Task \ {t} : k1.state[u] = ka.state[u] /\ k1.priority[u] = ka.priority[u]
    BY <1>0, <1>1, <2>2 DEF KernelState
  <2>5. Good(k1)
    BY <1>3, <2>2, <2>3, <2>4, DataGood
  <2> QED BY <1>1, <1>6, <2>2, <2>5 DEF k1, ResumeState, Resumed
<1> QED BY <1>4, <1>5, <1>6

\* tk_chg_pri
LEMMA ChangePriorityGood ==
    ASSUME NEW k, Good(k), NEW t \in Task, k.state[t] # "NONEXIST", NEW p \in Pri
    PROVE  LET kb == [k EXCEPT !.bpriority[t] = p]
               k1 == IF kb.state[t] = "READY" THEN MoveReady(kb, t, p)
                     ELSE [kb EXCEPT !.priority[t] = p]
           IN  /\ Good(k1) /\ SameCounts(k1, k)
               /\ k1.state = k.state /\ k1.wspec = k.wspec /\ k1.wtmeb = k.wtmeb
<1> DEFINE kb == [k EXCEPT !.bpriority[t] = p]
           k1 == IF kb.state[t] = "READY" THEN MoveReady(kb, t, p)
                 ELSE [kb EXCEPT !.priority[t] = p]
<1>0. k \in KernelState
  BY GoodType
<1>1. /\ kb \in KernelState /\ SameRings(kb, k) /\ kb.priority = k.priority
      /\ kb.state = k.state /\ SameCounts(kb, k)
      /\ kb.wspec = k.wspec /\ kb.wtmeb = k.wtmeb
  BY <1>0 DEF KernelState, SameRings, SameCounts
<1>2. k1 = IF kb.state[t] = "READY" THEN MoveReady(kb, t, p)
           ELSE [kb EXCEPT !.priority[t] = p]
  OBVIOUS
<1> HIDE DEF kb, k1
<1>3. Good(kb)
  BY <1>1, DataGood
<1>4. CASE k.state[t] = "READY"
  <2> DEFINE r == Place(kb)
  <2>1. Consistent(kb, r) /\ r[t] = {kb.priority[t]} /\ k1 = MoveReady(kb, t, p)
    BY <1>1, <1>2, <1>3, <1>4, PlaceByState DEF Good
  <2> HIDE DEF r
  <2>2. /\ Consistent(k1, [r EXCEPT ![t] = {p}])
        /\ k1.state = kb.state /\ k1.priority = [kb.priority EXCEPT ![t] = p]
        /\ k1.wupcnt = kb.wupcnt /\ k1.suscnt = kb.suscnt
        /\ k1.wspec = kb.wspec /\ k1.wtmeb = kb.wtmeb
    BY <2>1, MoveReadyConsistent
  <2>3. RingOf(k1, t) = {p}
    BY <1>0, <1>1, <1>4, <2>2 DEF RingOf, KernelState
  <2>4. \A u \in Task \ {t} : k1.state[u] = kb.state[u] /\ k1.priority[u] = kb.priority[u]
    BY <1>1, <2>2 DEF KernelState
  <2>5. Good(k1)
    BY <2>2, <2>3, <2>4, PlaceChange DEF r
  <2> QED BY <1>1, <2>2, <2>5 DEF SameCounts, kb, k1
<1>5. CASE k.state[t] # "READY"
  <2>1. k1 = [kb EXCEPT !.priority[t] = p]
    BY <1>1, <1>2, <1>5
  <2>2. /\ k1 \in KernelState /\ SameRings(k1, kb) /\ k1.state = kb.state
        /\ k1.priority = [kb.priority EXCEPT ![t] = p] /\ SameCounts(k1, kb)
        /\ k1.wspec = kb.wspec /\ k1.wtmeb = kb.wtmeb
    BY <1>1, <2>1 DEF KernelState, SameRings, SameCounts
  <2>3. kb.state[t] \in Unlinked /\ k1.state[t] \in Unlinked
    BY <1>0, <1>1, <1>5, <2>2 DEF KernelState, TSTAT, Unlinked
  <2>4. \A u \in Task \ {t} : k1.state[u] = kb.state[u] /\ k1.priority[u] = kb.priority[u]
    BY <1>1, <2>2 DEF KernelState
  <2>5. Good(k1)
    BY <1>3, <2>2, <2>3, <2>4, DataGood
  <2> QED BY <1>1, <2>2, <2>5 DEF SameCounts, kb, k1
<1> QED BY <1>4, <1>5

\* tk_rot_rdq
LEMMA RotateGood ==
    ASSUME NEW k, Good(k), NEW p \in Pri
    PROVE  LET k1 == RotateReadyQueue(k, p)
           IN  /\ Good(k1) /\ SameCounts(k1, k)
               /\ k1.state = k.state /\ k1.wspec = k.wspec /\ k1.wtmeb = k.wtmeb
<1> DEFINE r == Place(k)
           k1 == RotateReadyQueue(k, p)
<1>1. Consistent(k, r)
  BY DEF Good
<1> HIDE DEF r
<1>2. Consistent(k1, r) /\ SameData(k1, k) /\ k1.state = k.state
  BY <1>1, RotateConsistent
<1> HIDE DEF k1
<1>3. Place(k1) = Place(k)
  BY <1>2 DEF Place, RingOf, SameData
<1> QED BY <1>2, <1>3 DEF Good, SameData, SameCounts, r, k1

LEMMA RotateRunGood ==
    ASSUME NEW k, Good(k)
    PROVE  LET k1 == RotateReadyQueueRun(k)
           IN  /\ Good(k1) /\ SameCounts(k1, k)
               /\ k1.state = k.state /\ k1.wspec = k.wspec /\ k1.wtmeb = k.wtmeb
<1>1. CASE k.schedtsk = NoTask
  BY <1>1 DEF RotateReadyQueueRun, SameCounts
<1>2. CASE k.schedtsk # NoTask
  <2>1. k.top_priority \in Pri
    BY <1>2, TopInRing DEF Good, Consistent
  <2> QED BY <1>2, <2>1, RotateGood DEF RotateReadyQueueRun
<1> QED BY <1>1, <1>2

(***************************************************************************)
(* Counts(k): the request counts, wait factors and timers fit the states.  *)
(***************************************************************************)
CountsOf(k, t) ==
    /\ k.state[t] # "NONEXIST" =>
          (k.suscnt[t] > 0 <=> k.state[t] \in {"SUSPEND", "WAITSUS"})
    /\ k.state[t] \in WaitBit /\ k.wspec[t] = "slp" => k.wupcnt[t] = 0
    /\ k.wtmeb[t] => k.state[t] \in WaitBit
Counts(k) == \A t \in Task : CountsOf(k, t)

\* What Counts says of a task is left alone.
SameOf(k1, k, t) ==
    /\ k1.state[t] = k.state[t] /\ k1.wupcnt[t] = k.wupcnt[t] /\ k1.suscnt[t] = k.suscnt[t]
    /\ k1.wspec[t] = k.wspec[t] /\ k1.wtmeb[t] = k.wtmeb[t]

LEMMA CountsChange ==
    ASSUME NEW k, NEW k1, NEW t \in Task, Counts(k), CountsOf(k1, t),
           \A u \in Task \ {t} : SameOf(k1, k, u)
    PROVE  Counts(k1)
<1> SUFFICES ASSUME NEW u \in Task, u # t PROVE CountsOf(k1, u)
  BY DEF Counts
<1>1. CountsOf(k, u) /\ SameOf(k1, k, u)
  BY DEF Counts
<1> QED BY <1>1 DEF CountsOf, SameOf

\* The fields Counts speaks of are functions on the tasks.
LEMMA CountFields ==
    ASSUME NEW k, Good(k)
    PROVE  /\ k.state \in [Task -> TSTAT] /\ k.wspec \in [Task -> WSpec]
           /\ k.wupcnt \in [Task -> Nat] /\ k.suscnt \in [Task -> Nat]
           /\ k.wtmeb \in [Task -> BOOLEAN]
  BY GoodType DEF KernelState

LEMMA SameCountsKeeps ==
    ASSUME NEW k, NEW k1, Counts(k), SameCounts(k1, k), k1.state = k.state,
           k1.wspec = k.wspec, k1.wtmeb = k.wtmeb
    PROVE  Counts(k1)
  BY DEF Counts, CountsOf, SameCounts

\* A task that becomes dormant or leaves has no request and no timer.
LEMMA ResetKeeps ==
    ASSUME NEW k, Good(k), Counts(k), NEW t \in Task, NEW k0, NEW k1,
           NEW s \in {"DORMANT", "NONEXIST"}, Reset(k1, k0, t, s),
           k0.state = k.state, SameCounts(k0, k), k0.wspec = k.wspec,
           k0.wtmeb = IF k.state[t] \in WaitBit THEN [k.wtmeb EXCEPT ![t] = FALSE]
                      ELSE k.wtmeb
    PROVE  Counts(k1)
<1>1. k1.suscnt[t] = 0 /\ k1.wspec[t] = NoSpec /\ k1.state[t] = s
  BY CountFields DEF Reset, SameCounts
<1>2. ~k1.wtmeb[t]
  <2>1. CountsOf(k, t)
    BY DEF Counts
  <2> QED BY <2>1, CountFields DEF Reset, CountsOf
<1>3. CountsOf(k1, t)
  BY <1>1, <1>2 DEF CountsOf, WaitBit
<1>4. \A u \in Task \ {t} : SameOf(k1, k, u)
  BY CountFields DEF Reset, SameCounts, SameOf
<1> QED BY <1>3, <1>4, CountsChange

LEMMA ReleaseKeeps ==
    ASSUME NEW k, Good(k), Counts(k), NEW t \in Task, k.state[t] \in WaitBit,
           NEW ercd \in Ercd
    PROVE  Counts(WaitRelease(k, t, ercd))
<1> DEFINE k1 == WaitRelease(k, t, ercd)
<1>1. /\ SameCounts(k1, k)
      /\ k1.state = [k.state EXCEPT ![t] = IF @ = "WAIT" THEN "READY" ELSE "SUSPEND"]
      /\ k1.wspec = [k.wspec EXCEPT ![t] = NoSpec]
      /\ k1.wtmeb = [k.wtmeb EXCEPT ![t] = FALSE]
  BY WaitReleaseGood
<1> HIDE DEF k1
<1>2. CountsOf(k, t)
  BY DEF Counts
<1>3. CountsOf(k1, t)
  BY <1>1, <1>2, CountFields DEF CountsOf, SameCounts, WaitBit
<1>4. \A u \in Task \ {t} : SameOf(k1, k, u)
  BY <1>1, CountFields DEF SameCounts, SameOf
<1>5. Counts(k1)
  BY <1>3, <1>4, CountsChange
<1> QED BY <1>5 DEF k1

LEMMA ReadyKeeps ==
    ASSUME NEW k, Good(k), Counts(k), NEW t \in Task, k.state[t] = "DORMANT"
    PROVE  Counts(MakeReady(k, t))
<1> DEFINE k1 == MakeReady(k, t)
<1>1. SameData(k1, k) /\ k1.state = [k.state EXCEPT ![t] = "READY"]
  BY MakeReadyGood DEF Unlinked
<1> HIDE DEF k1
<1>2. CountsOf(k, t)
  BY DEF Counts
<1>3. CountsOf(k1, t)
  BY <1>1, <1>2, CountFields DEF CountsOf, SameData, WaitBit
<1>4. \A u \in Task \ {t} : SameOf(k1, k, u)
  BY <1>1, CountFields DEF SameData, SameOf
<1>5. Counts(k1)
  BY <1>3, <1>4, CountsChange
<1> QED BY <1>5 DEF k1

LEMMA SuspendKeeps ==
    ASSUME NEW k, Good(k), Counts(k), NEW t \in Task, k.state[t] \in Alive
    PROVE  Counts(Suspend(k, t))
<1> DEFINE k1 == Suspend(k, t)
<1>1. /\ k1.state = [k.state EXCEPT
                      ![t] = IF @ \in {"READY", "SUSPEND"} THEN "SUSPEND" ELSE "WAITSUS"]
      /\ k1.suscnt = [k.suscnt EXCEPT ![t] = @ + 1]
      /\ k1.wupcnt = k.wupcnt /\ k1.wspec = k.wspec /\ k1.wtmeb = k.wtmeb
  BY SuspendGood
<1> HIDE DEF k1
<1>2. CountsOf(k, t)
  BY DEF Counts
<1>3. k1.suscnt[t] > 0
  BY <1>1, CountFields
<1>4. CountsOf(k1, t)
  BY <1>1, <1>2, <1>3, CountFields DEF CountsOf, WaitBit, Alive
<1>5. \A u \in Task \ {t} : SameOf(k1, k, u)
  BY <1>1, CountFields DEF SameOf
<1>6. Counts(k1)
  BY <1>4, <1>5, CountsChange
<1> QED BY <1>6 DEF k1

LEMMA ResumeKeeps ==
    ASSUME NEW k, Good(k), Counts(k), NEW t \in Task,
           k.state[t] \in {"SUSPEND", "WAITSUS"}, NEW count \in Nat
    PROVE  Counts(Resume(k, t, count))
<1> DEFINE k1 == Resume(k, t, count)
<1>1. Resumed(k1, k, t, count)
  BY ResumeGood
<1> HIDE DEF k1
<1>2. CountsOf(k, t)
  BY DEF Counts
<1>3. CountsOf(k1, t)
  BY <1>1, <1>2, CountFields DEF CountsOf, WaitBit, Resumed, ResumeState
<1>4. \A u \in Task \ {t} : SameOf(k1, k, u)
  BY <1>1, CountFields DEF SameOf, Resumed, ResumeState
<1>5. Counts(k1)
  BY <1>3, <1>4, CountsChange
<1> QED BY <1>5 DEF k1

\* A data change of task t that no ring and no count speaks of, or that
\* counts wakeups.
LEMMA WupcntGood ==
    ASSUME NEW k, Good(k), Counts(k), NEW t \in Task, NEW n \in Nat,
           k.state[t] \in WaitBit /\ k.wspec[t] = "slp" => n = 0
    PROVE  LET k1 == [k EXCEPT !.wupcnt[t] = n]
           IN  Good(k1) /\ Counts(k1) /\ k1.state = k.state
<1> DEFINE k1 == [k EXCEPT !.wupcnt[t] = n]
<1>1. k \in KernelState
  BY GoodType
<1>2. /\ k1 \in KernelState /\ SameRings(k1, k) /\ k1.priority = k.priority
      /\ k1.state = k.state /\ k1.suscnt = k.suscnt
      /\ k1.wupcnt = [k.wupcnt EXCEPT ![t] = n]
      /\ k1.wspec = k.wspec /\ k1.wtmeb = k.wtmeb
  BY <1>1 DEF KernelState, SameRings
<1> HIDE DEF k1
<1>3. Good(k1)
  BY <1>2, DataGood
<1>4. CountsOf(k1, t)
  <2>1. CountsOf(k, t)
    BY DEF Counts
  <2> QED BY <1>2, <2>1, CountFields DEF CountsOf
<1>5. \A u \in Task \ {t} : SameOf(k1, k, u)
  BY <1>2, CountFields DEF SameOf
<1>6. Counts(k1)
  BY <1>4, <1>5, CountsChange
<1> QED BY <1>2, <1>3, <1>6 DEF k1

\* tk_slp_tsk and tk_dly_tsk set wspec and ercd, then wait.
LEMMA BeginWaitGood ==
    ASSUME NEW k, Good(k), Counts(k), NEW t \in Task, k.state[t] = "READY",
           NEW w \in {"slp", "dly"}, NEW ercd \in Ercd, NEW tmout \in TMO,
           w = "slp" => k.wupcnt[t] = 0
    PROVE  LET k1 == MakeWait([k EXCEPT !.wspec[t] = w, !.wercd[t] = ercd], t, tmout)
           IN  Good(k1) /\ Counts(k1)
<1> DEFINE k0 == [k EXCEPT !.wspec[t] = w, !.wercd[t] = ercd]
           k1 == MakeWait(k0, t, tmout)
<1>1. /\ k0 \in KernelState /\ SameRings(k0, k) /\ k0.priority = k.priority
      /\ k0.state = k.state /\ SameCounts(k0, k)
      /\ k0.wspec = [k.wspec EXCEPT ![t] = w] /\ k0.wtmeb = k.wtmeb
  <2>1. /\ k \in KernelState
        /\ [k.wspec EXCEPT ![t] = w] \in [Task -> WSpec]
        /\ [k.wercd EXCEPT ![t] = ercd] \in [Task -> Ercd]
    BY GoodType DEF KernelState, WSpec
  <2> QED BY <2>1 DEF KernelState, SameRings, SameCounts
<1> HIDE DEF k0
<1>2. Good(k0)
  BY <1>1, DataGood
<1>3. /\ Good(k1) /\ SameCounts(k1, k0) /\ k1.wspec = k0.wspec
      /\ k1.state = [k0.state EXCEPT ![t] = "WAIT"]
      /\ k1.wtmeb = [k0.wtmeb EXCEPT ![t] = (tmout = "TIME")]
  BY <1>1, <1>2, MakeWaitGood
<1> HIDE DEF k1
<1>4. CountsOf(k1, t)
  <2>1. k1.state[t] = "WAIT" /\ k1.wspec[t] = w /\ k1.wupcnt[t] = k.wupcnt[t]
    BY <1>1, <1>3, CountFields DEF SameCounts
  <2>2. k1.suscnt[t] = 0
    <3>1. CountsOf(k, t) /\ k.suscnt[t] \in Nat
      BY CountFields DEF Counts
    <3> QED BY <1>1, <1>3, <3>1 DEF CountsOf, SameCounts
  <2> QED BY <2>1, <2>2 DEF CountsOf, WaitBit
<1>5. \A u \in Task \ {t} : SameOf(k1, k, u)
  BY <1>1, <1>3, CountFields DEF SameOf, SameCounts
<1>6. Counts(k1)
  BY <1>4, <1>5, CountsChange
<1> QED BY <1>3, <1>6 DEF k0, k1

(***************************************************************************)
(* The inductive invariant.  RunningIsReady is not inductive without the   *)
(* last conjunct of Control: while dispatching is disabled implicitly no   *)
(* task executes.                                                          *)
(***************************************************************************)
Control ==
    /\ ctxtsk \in Task \cup {NoTask}
    /\ dispatch_disabled \in DDS
    /\ pendsv \in BOOLEAN /\ basepri \in BOOLEAN
    /\ ctxtsk # NoTask => dispatch_disabled # "DISABLE_IMPLICIT"

IInv == Good(kn) /\ Counts(kn) /\ Control /\ RunningIsReady

\* The task in execution.
LEMMA CallerIsReady ==
    ASSUME IInv, InTask
    PROVE  ctxtsk \in Task /\ kn.state[ctxtsk] = "READY"
  BY DEF IInv, Control, RunningIsReady, InTask

\* A system call keeps IInv if it leaves the task in execution READY, or may
\* request a dispatch.
LEMMA CallPreserves ==
    ASSUME IInv, NEW c \in Caller, CanCall(c), NEW k, Good(k), Counts(k), SystemCall(c, k),
           InTask => \/ k.state[ctxtsk] = "READY"
                     \/ dispatch_disabled = "ENABLE" /\ ~basepri
    PROVE  IInv'
<1>1. kn' = k /\ UNCHANGED <<ctxtsk, dispatch_disabled, basepri>>
  BY DEF SystemCall
<1>2. pendsv' = (pendsv \/ (/\ c = "hdr" \/ ~basepri
                            /\ ctxtsk # k.schedtsk
                            /\ dispatch_disabled = "ENABLE"))
  BY DEF SystemCall, EndCritical
<1>3. Control'
  <2>1. pendsv \in BOOLEAN /\ pendsv' \in BOOLEAN
    BY <1>2 DEF IInv, Control
  <2> QED BY <1>1, <2>1 DEF IInv, Control
<1>4. RunningIsReady'
  <2> SUFFICES ASSUME InTask' PROVE k.state[ctxtsk] = "READY"
    BY <1>1 DEF RunningIsReady
  <2>1. InTask /\ ctxtsk # NoTask /\ ~pendsv'
    BY <1>1, <1>2 DEF InTask
  <2>2. CASE dispatch_disabled = "ENABLE" /\ ~basepri
    <3>1. ctxtsk = k.schedtsk
      BY <1>2, <2>1, <2>2
    <3> QED BY <2>1, <3>1, SelectedIsReady
  <2> QED BY <2>1, <2>2
<1>5. Good(kn') /\ Counts(kn')
  BY <1>1
<1> QED BY <1>3, <1>4, <1>5 DEF IInv, Good, Counts, Consistent, Place, CountsOf

(***************************************************************************)
(* The initial states.                                                     *)
(***************************************************************************)
LEMMA InitKernelGood == Good(InitKernel) /\ Counts(InitKernel)
<1> DEFINE k == InitKernel
           free == [i \in Task |-> i]
           que == [h \in QueHead |-> IF h = FreeTcb THEN free ELSE <<>>]
<1>1. /\ k.state = [t \in Task |-> "NONEXIST"]
      /\ k.priority = [t \in Task |-> 0] /\ k.bpriority = [t \in Task |-> 0]
      /\ k.ipriority = [t \in Task |-> 0]
      /\ k.wupcnt = [t \in Task |-> 0] /\ k.suscnt = [t \in Task |-> 0]
      /\ k.klocked = [t \in Task |-> FALSE] /\ k.klockwait = [t \in Task |-> FALSE]
      /\ k.wspec = [t \in Task |-> NoSpec] /\ k.wercd = [t \in Task |-> "none"]
      /\ k.wtmeb = [t \in Task |-> FALSE]
      /\ k.que = que /\ k.bitmap = {} /\ k.top_priority = NumPri
      /\ k.klocktsk = NoTask /\ k.schedtsk = NoTask
  BY DEF InitKernel
<1>2. free \in Seq(Task) /\ DOMAIN free = Task /\ \A i \in Task : free[i] = i
  BY NumTaskAssumption, SeqDef DEF Task
<1>3. /\ que \in [QueHead -> Seq(Task)]
      /\ \A h \in QueHead : que[h] = IF h = FreeTcb THEN free ELSE <<>>
  <2> HIDE DEF free
  <2> QED BY <1>2
<1> HIDE DEF free, que
<1>4. k \in KernelState
  <2>1. 0 \in Pri /\ NumPri \in 0..NumPri
    BY PriIsNatural DEF Pri
  <2>2. /\ [t \in Task |-> 0] \in [Task -> Pri] /\ [t \in Task |-> 0] \in [Task -> Nat]
        /\ [t \in Task |-> FALSE] \in [Task -> BOOLEAN]
        /\ [t \in Task |-> NoSpec] \in [Task -> WSpec]
        /\ [t \in Task |-> "none"] \in [Task -> Ercd]
        /\ [t \in Task |-> "NONEXIST"] \in [Task -> TSTAT]
    BY <2>1 DEF WSpec, Ercd, TSTAT
  <2> QED BY <1>3, <2>1, <2>2 DEF KernelState, InitKernel, que, free
<1> HIDE DEF k
<1>5. Place(k) = [t \in Task |-> {FreeTcb}]
  BY <1>1 DEF Place, RingOf
<1>6. Linked(k.que, Place(k))
  <2>1. \A t \in Task : InRing(free, t)
    BY <1>2 DEF InRing
  <2>2. IsInjective(free) /\ IsInjective(<<>>)
    BY <1>2 DEF IsInjective
  <2>3. \A t \in Task : ~InRing(<<>>, t)
    BY DEF InRing
  <2> QED BY <1>1, <1>3, <1>5, <2>1, <2>2, <2>3 DEF Linked
<1>7. Place(k) \in Places
  BY <1>5, PriIsNatural DEF Places
<1>8. KLockFree(k) /\ ReadyExact(k)
  <2>1. \A p \in Pri : k.que[p] = <<>>
    BY <1>1, <1>3, PriIsNatural
  <2> QED BY <1>1, <2>1 DEF KLockFree, ReadyExact
<1>9. k.schedtsk = ReadyQueueTop(k)
  BY <1>1, PriIsNatural DEF ReadyQueueTop
<1>10. Good(k)
  BY <1>4, <1>6, <1>7, <1>8, <1>9 DEF Good, Consistent, Queued
<1>11. Counts(k)
  BY <1>1 DEF Counts, CountsOf, WaitBit
<1> QED BY <1>10, <1>11 DEF k

\* tk_cre_tsk takes the TCBs in the order of their numbers.
LEMMA FirstTcb ==
    /\ InitKernel.que[FreeTcb] # <<>>
    /\ Head(InitKernel.que[FreeTcb]) = 1
    /\ 1 \in Task
<1> DEFINE free == [i \in Task |-> i]
<1>1. InitKernel.que[FreeTcb] = free
  BY PriIsNatural DEF InitKernel
<1>2. 1 \in Task /\ free \in Seq(Task) /\ DOMAIN free = Task
  BY NumTaskAssumption, SeqDef DEF Task
<1>3. free[1] = 1
  BY <1>2
<1>4. free # <<>>
  BY <1>2
<1> HIDE DEF free
<1>5. Head(free) = free[1]
  BY <1>2, <1>4
<1> QED BY <1>1, <1>2, <1>3, <1>4, <1>5

LEMMA InitInvariant == Init => IInv
<1> SUFFICES ASSUME Init PROVE IInv
  OBVIOUS
<1> DEFINE k == InitKernel
           k1 == CreateTcb(k, 0)
<1>1. Good(k) /\ Counts(k)
  BY InitKernelGood
<1>2. k.que[FreeTcb] # <<>> /\ Head(k.que[FreeTcb]) = 1 /\ 1 \in Task
  BY FirstTcb
<1>3. 0 \in Pri
  BY PriIsNatural DEF Pri
<1> HIDE DEF k
<1>4. Good(k1) /\ Reset(k1, k, 1, "DORMANT") /\ k.state[1] = "NONEXIST"
  BY <1>1, <1>2, <1>3, CreateTcbGood
<1>5. Counts(k1)
  <2>1. k.state[1] \notin WaitBit
    BY <1>4 DEF WaitBit
  <2> QED BY <1>1, <1>2, <1>4, <2>1, ResetKeeps DEF SameCounts
<1> HIDE DEF k1
<1>6. k1.state[1] = "DORMANT"
  BY <1>1, <1>2, <1>4, CountFields DEF Reset
<1>7. Good(MakeReady(k1, 1)) /\ Counts(MakeReady(k1, 1))
  BY <1>2, <1>4, <1>5, <1>6, MakeReadyGood, ReadyKeeps DEF Unlinked
<1>8. Good(kn) /\ Counts(kn)
  BY <1>7 DEF Init, k, k1
<1> QED BY <1>8 DEF Init, IInv, Control, DDS, RunningIsReady, InTask

(***************************************************************************)
(* Each call keeps IInv.                                                   *)
(***************************************************************************)
LEMMA TaskCanCall == ASSUME InTask PROVE CanCall("task") /\ "task" \in Caller
  BY DEF CanCall, Caller

LEMMA CreTskStep == ASSUME IInv, NEW p \in Pri, CreTsk(p) PROVE IInv'
<1> DEFINE t == Head(kn.que[FreeTcb])
           k == CreateTcb(kn, p)
<1>1. InTask /\ SystemCall("task", k) /\ Good(kn) /\ Counts(kn)
  BY DEF CreTsk, IInv
<1>2. /\ t \in Task /\ kn.state[t] = "NONEXIST"
      /\ Good(k) /\ Reset(k, kn, t, "DORMANT")
  BY <1>1, CreateTcbGood DEF CreTsk
<1> HIDE DEF t, k
<1>3. Counts(k)
  <2>1. kn.state[t] \notin WaitBit
    BY <1>2 DEF WaitBit
  <2> QED BY <1>1, <1>2, <2>1, ResetKeeps DEF SameCounts
<1>4. k.state[ctxtsk] = "READY"
  BY <1>1, <1>2, CallerIsReady, CountFields DEF Reset
<1> QED BY <1>1, <1>2, <1>3, <1>4, CallPreserves, TaskCanCall

LEMMA DelTskStep == ASSUME IInv, NEW t \in Task, DelTsk(t) PROVE IInv'
<1> DEFINE k == ReturnTcb(kn, t)
<1>1. /\ InTask /\ t # ctxtsk /\ kn.state[t] = "DORMANT" /\ SystemCall("task", k)
      /\ Good(kn) /\ Counts(kn)
  BY DEF DelTsk, IInv
<1>2. Unplaced(kn, kn, t)
  <2>1. Place(kn)[t] = {}
    BY <1>1, PlaceByState DEF Unlinked
  <2>2. [Place(kn) EXCEPT ![t] = {}] = Place(kn)
    BY <2>1 DEF Place
  <2> QED BY <1>1, <2>2 DEF Unplaced, Good
<1>3. Good(k) /\ Reset(k, kn, t, "NONEXIST")
  BY <1>2, ReturnTcbGood
<1> HIDE DEF k
<1>4. Counts(k)
  <2>1. kn.state[t] \notin WaitBit
    BY <1>1 DEF WaitBit
  <2> QED BY <1>1, <1>3, <2>1, ResetKeeps DEF SameCounts
<1>5. k.state[ctxtsk] = "READY"
  BY <1>1, <1>3, CallerIsReady, CountFields DEF Reset
<1> QED BY <1>1, <1>3, <1>4, <1>5, CallPreserves, TaskCanCall

\* Ending task t, for tk_ter_tsk, tk_ext_tsk and tk_exd_tsk.
LEMMA EndTaskGood ==
    ASSUME NEW k, Good(k), Counts(k), NEW t \in Task, k.state[t] \in Alive
    PROVE  LET k1 == MakeDormant(Detach(k, t), t)
               k2 == ReturnTcb(Detach(k, t), t)
           IN  /\ Good(k1) /\ Counts(k1) /\ k1.state = [k.state EXCEPT ![t] = "DORMANT"]
               /\ Good(k2) /\ Counts(k2)
<1> DEFINE k0 == Detach(k, t)
           k1 == MakeDormant(k0, t)
           k2 == ReturnTcb(k0, t)
<1>1. /\ k0.state = k.state /\ SameCounts(k0, k) /\ k0.wspec = k.wspec
      /\ k0.wtmeb = IF k.state[t] \in WaitBit THEN [k.wtmeb EXCEPT ![t] = FALSE]
                    ELSE k.wtmeb
  BY DetachGood
<1>2. Unplaced(k0, k, t)
  BY DetachUnplaced
<1> HIDE DEF k0
<1>3. Good(k1) /\ Reset(k1, k0, t, "DORMANT")
  BY <1>2, DormantGood
<1>4. Good(k2) /\ Reset(k2, k0, t, "NONEXIST")
  BY <1>2, ReturnTcbGood
<1> HIDE DEF k1, k2
<1>5. Counts(k1) /\ Counts(k2)
  BY <1>1, <1>3, <1>4, ResetKeeps
<1> QED BY <1>1, <1>3, <1>4, <1>5 DEF Reset, k0, k1, k2

LEMMA TerTskStep == ASSUME IInv, NEW t \in Task, TerTsk(t) PROVE IInv'
<1> DEFINE k == MakeDormant(Detach(kn, t), t)
<1>1. /\ InTask /\ t # ctxtsk /\ kn.state[t] \in Alive /\ SystemCall("task", k)
      /\ Good(kn) /\ Counts(kn)
  BY DEF TerTsk, IInv
<1>2. Good(k) /\ Counts(k) /\ k.state = [kn.state EXCEPT ![t] = "DORMANT"]
  BY <1>1, EndTaskGood
<1> HIDE DEF k
<1>3. k.state[ctxtsk] = "READY"
  BY <1>1, <1>2, CallerIsReady, CountFields
<1> QED BY <1>1, <1>2, <1>3, CallPreserves, TaskCanCall

\* The context of the caller is gone: no task executes.
LEMMA ForceDispatchKeeps ==
    ASSUME IInv, Good(kn'), Counts(kn'), ForceDispatch
    PROVE  IInv'
  BY DEF IInv, Good, Counts, Consistent, Place, CountsOf, ForceDispatch, Control, DDS,
         RunningIsReady, InTask

LEMMA ExtTskStep == ASSUME IInv, ExtTsk PROVE IInv'
<1>1. ctxtsk \in Task /\ kn.state[ctxtsk] \in Alive /\ Good(kn) /\ Counts(kn)
  BY CallerIsReady DEF ExtTsk, IInv, Alive
<1>2. Good(kn') /\ Counts(kn')
  BY <1>1, EndTaskGood DEF ExtTsk
<1> QED BY <1>2, ForceDispatchKeeps DEF ExtTsk

LEMMA ExdTskStep == ASSUME IInv, ExdTsk PROVE IInv'
<1>1. ctxtsk \in Task /\ kn.state[ctxtsk] \in Alive /\ Good(kn) /\ Counts(kn)
  BY CallerIsReady DEF ExdTsk, IInv, Alive
<1>2. Good(kn') /\ Counts(kn')
  BY <1>1, EndTaskGood DEF ExdTsk
<1> QED BY <1>2, ForceDispatchKeeps DEF ExdTsk

LEMMA StaTskStep == ASSUME IInv, NEW c \in Caller, NEW t \in Task, StaTsk(c, t) PROVE IInv'
<1> DEFINE k == MakeReady(kn, t)
<1>1. /\ CanCall(c) /\ kn.state[t] = "DORMANT" /\ SystemCall(c, k) /\ Good(kn) /\ Counts(kn)
  BY DEF StaTsk, IInv
<1>2. Good(k) /\ Counts(k) /\ k.state = [kn.state EXCEPT ![t] = "READY"]
  BY <1>1, MakeReadyGood, ReadyKeeps DEF Unlinked
<1> HIDE DEF k
<1>3. InTask => k.state[ctxtsk] = "READY"
  BY <1>1, <1>2, CallerIsReady, CountFields
<1> QED BY <1>1, <1>2, <1>3, CallPreserves

LEMMA ChgPriStep ==
    ASSUME IInv, NEW c \in Caller, NEW t \in Task, NEW p \in Pri, ChgPri(c, t, p)
    PROVE  IInv'
<1> DEFINE kb == [kn EXCEPT !.bpriority[t] = p]
           k == IF kb.state[t] = "READY" THEN MoveReady(kb, t, p)
                ELSE [kb EXCEPT !.priority[t] = p]
<1>1. /\ CanCall(c) /\ kn.state[t] # "NONEXIST" /\ SystemCall(c, k)
      /\ Good(kn) /\ Counts(kn)
  BY DEF ChgPri, IInv
<1>2. /\ Good(k) /\ SameCounts(k, kn)
      /\ k.state = kn.state /\ k.wspec = kn.wspec /\ k.wtmeb = kn.wtmeb
  BY <1>1, ChangePriorityGood
<1> HIDE DEF k
<1>3. Counts(k) /\ (InTask => k.state[ctxtsk] = "READY")
  BY <1>1, <1>2, SameCountsKeeps, CallerIsReady
<1> QED BY <1>1, <1>2, <1>3, CallPreserves

LEMMA RotRdqStep == ASSUME IInv, NEW c \in Caller, NEW p \in Pri, RotRdq(c, p) PROVE IInv'
<1> DEFINE k == RotateReadyQueue(kn, p)
<1>1. CanCall(c) /\ SystemCall(c, k) /\ Good(kn) /\ Counts(kn)
  BY DEF RotRdq, IInv
<1>2. /\ Good(k) /\ SameCounts(k, kn)
      /\ k.state = kn.state /\ k.wspec = kn.wspec /\ k.wtmeb = kn.wtmeb
  BY <1>1, RotateGood
<1> HIDE DEF k
<1>3. Counts(k) /\ (InTask => k.state[ctxtsk] = "READY")
  BY <1>1, <1>2, SameCountsKeeps, CallerIsReady
<1> QED BY <1>1, <1>2, <1>3, CallPreserves

LEMMA RotRdqRunStep == ASSUME IInv, NEW c \in Caller, RotRdqRun(c) PROVE IInv'
<1> DEFINE k == IF c = "hdr" THEN RotateReadyQueueRun(kn)
                ELSE RotateReadyQueue(kn, kn.priority[ctxtsk])
<1>1. CanCall(c) /\ SystemCall(c, k) /\ Good(kn) /\ Counts(kn)
  BY DEF RotRdqRun, IInv
<1>2. /\ Good(k) /\ SameCounts(k, kn)
      /\ k.state = kn.state /\ k.wspec = kn.wspec /\ k.wtmeb = kn.wtmeb
  <2>1. CASE c = "hdr"
    BY <1>1, <2>1, RotateRunGood
  <2>2. CASE c = "task"
    <3>1. kn.priority[ctxtsk] \in Pri
      BY <1>1, <2>2, CallerIsReady, GoodType DEF CanCall
    <3> QED BY <1>1, <2>2, <3>1, RotateGood
  <2> QED BY <2>1, <2>2 DEF Caller
<1> HIDE DEF k
<1>3. Counts(k) /\ (InTask => k.state[ctxtsk] = "READY")
  BY <1>1, <1>2, SameCountsKeeps, CallerIsReady
<1> QED BY <1>1, <1>2, <1>3, CallPreserves

\* A wait of t is released, by a call or by the timer.
LEMMA ReleaseStep ==
    ASSUME IInv, NEW c \in Caller, CanCall(c), NEW t \in Task, kn.state[t] \in WaitBit,
           NEW ercd \in Ercd, SystemCall(c, WaitRelease(kn, t, ercd))
    PROVE  IInv'
<1> DEFINE k == WaitRelease(kn, t, ercd)
<1>1. SystemCall(c, k) /\ Good(kn) /\ Counts(kn)
  BY DEF IInv
<1>2. /\ Good(k) /\ Counts(k)
      /\ k.state = [kn.state EXCEPT ![t] = IF @ = "WAIT" THEN "READY" ELSE "SUSPEND"]
  BY <1>1, WaitReleaseGood, ReleaseKeeps
<1> HIDE DEF k
<1>3. ASSUME InTask PROVE k.state[ctxtsk] = "READY"
  <2>1. ctxtsk \in Task /\ kn.state[ctxtsk] = "READY"
    BY <1>3, CallerIsReady
  <2>2. ctxtsk # t
    BY <2>1 DEF WaitBit
  <2> QED BY <1>1, <1>2, <2>1, <2>2, CountFields
<1> QED BY <1>1, <1>2, <1>3, CallPreserves

LEMMA RelWaiStep == ASSUME IInv, NEW c \in Caller, NEW t \in Task, RelWai(c, t) PROVE IInv'
  BY ReleaseStep DEF RelWai, Ercd

LEMMA TimerEventStep == ASSUME IInv, NEW t \in Task, TimerEvent(t) PROVE IInv'
<1>1. CanCall("hdr") /\ "hdr" \in Caller
  BY DEF TimerEvent, CanCall, Caller
<1>2. kn.state[t] \in WaitBit
  BY DEF TimerEvent, IInv, Counts, CountsOf
<1>3. kn.wercd[t] \in Ercd
  BY GoodType DEF IInv, KernelState
<1> QED BY <1>1, <1>2, <1>3, ReleaseStep DEF TimerEvent

LEMMA SusTskStep == ASSUME IInv, NEW c \in Caller, NEW t \in Task, SusTsk(c, t) PROVE IInv'
<1> DEFINE k == Suspend(kn, t)
<1>1. /\ CanCall(c) /\ NonSelf(c, t) /\ kn.state[t] \in Alive /\ SystemCall(c, k)
      /\ ~(t = ctxtsk /\ dispatch_disabled = "DISABLE") /\ Good(kn) /\ Counts(kn)
  BY DEF SusTsk, IInv
<1>2. /\ Good(k) /\ Counts(k)
      /\ k.state = [kn.state EXCEPT
            ![t] = IF @ \in {"READY", "SUSPEND"} THEN "SUSPEND" ELSE "WAITSUS"]
  BY <1>1, SuspendGood, SuspendKeeps
<1> HIDE DEF k
<1>3. ASSUME InTask
      PROVE  \/ k.state[ctxtsk] = "READY"
             \/ dispatch_disabled = "ENABLE" /\ ~basepri
  <2>1. ctxtsk \in Task /\ kn.state[ctxtsk] = "READY"
    BY <1>3, CallerIsReady
  <2>2. CASE t # ctxtsk
    BY <1>1, <1>2, <2>1, <2>2, CountFields
  <2>3. CASE t = ctxtsk
    <3>1. ~basepri
      BY <1>1, <2>3 DEF NonSelf, CanCall, Caller
    <3>2. ctxtsk # NoTask
      BY <1>3 DEF InTask
    <3>3. dispatch_disabled = "ENABLE"
      BY <1>1, <2>3, <3>2 DEF IInv, Control, DDS
    <3> QED BY <3>1, <3>3
  <2> QED BY <2>2, <2>3
<1> QED BY <1>1, <1>2, <1>3, CallPreserves

LEMMA ResumeOthers ==
    ASSUME NEW k, Good(k), Counts(k), NEW t \in Task,
           k.state[t] \in {"SUSPEND", "WAITSUS"}, NEW count \in Nat
    PROVE  /\ Good(Resume(k, t, count)) /\ Counts(Resume(k, t, count))
           /\ \A u \in Task \ {t} : Resume(k, t, count).state[u] = k.state[u]
<1> DEFINE k1 == Resume(k, t, count)
<1>1. Good(k1) /\ Resumed(k1, k, t, count)
  BY ResumeGood
<1>2. Counts(k1)
  BY ResumeKeeps
<1> HIDE DEF k1
<1>3. \A u \in Task \ {t} : k1.state[u] = k.state[u]
  BY <1>1, CountFields DEF Resumed, ResumeState
<1> QED BY <1>1, <1>2, <1>3 DEF k1

LEMMA ResumeStep ==
    ASSUME IInv, NEW c \in Caller, CanCall(c), NEW t \in Task, NEW count \in Nat,
           kn.state[t] \in {"SUSPEND", "WAITSUS"}, SystemCall(c, Resume(kn, t, count))
    PROVE  IInv'
<1> DEFINE k == Resume(kn, t, count)
<1>1. SystemCall(c, k) /\ Good(kn) /\ Counts(kn)
  BY DEF IInv
<1>2. Good(k) /\ Counts(k) /\ \A u \in Task \ {t} : k.state[u] = kn.state[u]
  BY <1>1, ResumeOthers
<1> HIDE DEF k
<1>3. ASSUME InTask PROVE k.state[ctxtsk] = "READY"
  <2>1. ctxtsk \in Task /\ kn.state[ctxtsk] = "READY"
    BY <1>3, CallerIsReady
  <2>2. ctxtsk # t
    BY <2>1
  <2> QED BY <1>2, <2>1, <2>2
<1> QED BY <1>1, <1>2, <1>3, CallPreserves

\* A suspended task has a request to count down.
LEMMA RsmTskStep == ASSUME IInv, NEW c \in Caller, NEW t \in Task, RsmTsk(c, t) PROVE IInv'
<1>1. kn.suscnt[t] \in Nat /\ kn.suscnt[t] > 0
  BY CountFields DEF IInv, RsmTsk, Counts, CountsOf
<1> DEFINE n == kn.suscnt[t] - 1
<1>2. n \in Nat
  BY <1>1
<1>3. /\ CanCall(c) /\ kn.state[t] \in {"SUSPEND", "WAITSUS"}
      /\ SystemCall(c, Resume(kn, t, n))
  BY DEF RsmTsk
<1> HIDE DEF n
<1> QED BY <1>2, <1>3, ResumeStep

LEMMA FrsmTskStep == ASSUME IInv, NEW c \in Caller, NEW t \in Task, FrsmTsk(c, t) PROVE IInv'
<1>1. 0 \in Nat
  OBVIOUS
<1> QED BY <1>1, ResumeStep DEF FrsmTsk

LEMMA WupcntStep ==
    ASSUME IInv, NEW c \in Caller, CanCall(c), NEW t \in Task, NEW n \in Nat,
           kn.state[t] \in WaitBit /\ kn.wspec[t] = "slp" => n = 0,
           SystemCall(c, [kn EXCEPT !.wupcnt[t] = n])
    PROVE  IInv'
<1> DEFINE k == [kn EXCEPT !.wupcnt[t] = n]
<1>1. SystemCall(c, k) /\ Good(kn) /\ Counts(kn)
  BY DEF IInv
<1>2. Good(k) /\ Counts(k) /\ k.state = kn.state
  BY <1>1, WupcntGood
<1> HIDE DEF k
<1> QED BY <1>1, <1>2, CallerIsReady, CallPreserves

LEMMA WupTskStep == ASSUME IInv, NEW c \in Caller, NEW t \in Task, WupTsk(c, t) PROVE IInv'
<1>1. CanCall(c) /\ kn.wupcnt[t] \in Nat
  BY CountFields DEF WupTsk, IInv
<1>2. CASE kn.state[t] \in WaitBit /\ kn.wspec[t] = "slp"
  <2>1. SystemCall(c, WaitRelease(kn, t, "E_OK"))
    BY <1>2 DEF WupTsk
  <2> QED BY <1>1, <1>2, <2>1, ReleaseStep DEF Ercd
<1>3. CASE ~(kn.state[t] \in WaitBit /\ kn.wspec[t] = "slp")
  <2> DEFINE n == kn.wupcnt[t] + 1
  <2>1. SystemCall(c, [kn EXCEPT !.wupcnt[t] = n])
    BY <1>3 DEF WupTsk
  <2>2. n \in Nat
    BY <1>1
  <2> HIDE DEF n
  <2> QED BY <1>1, <1>3, <2>1, <2>2, WupcntStep
<1> QED BY <1>2, <1>3

LEMMA CanWupStep == ASSUME IInv, NEW c \in Caller, NEW t \in Task, CanWup(c, t) PROVE IInv'
<1>1. 0 \in Nat
  OBVIOUS
<1> QED BY <1>1, WupcntStep DEF CanWup

\* The caller waits: it may, for dispatching is enabled.
LEMMA BeginWaitStep ==
    ASSUME IInv, CanWait, NEW w \in {"slp", "dly"}, NEW ercd \in Ercd, NEW tmout \in TMO,
           w = "slp" => kn.wupcnt[ctxtsk] = 0,
           SystemCall("task", MakeWait([kn EXCEPT !.wspec[ctxtsk] = w, !.wercd[ctxtsk] = ercd],
                                       ctxtsk, tmout))
    PROVE  IInv'
<1> DEFINE k == MakeWait([kn EXCEPT !.wspec[ctxtsk] = w, !.wercd[ctxtsk] = ercd], ctxtsk, tmout)
<1>1. /\ SystemCall("task", k) /\ Good(kn) /\ Counts(kn)
      /\ ctxtsk \in Task /\ kn.state[ctxtsk] = "READY"
      /\ InTask /\ dispatch_disabled = "ENABLE" /\ ~basepri
  BY CallerIsReady DEF IInv, CanWait
<1>2. Good(k) /\ Counts(k)
  BY <1>1, BeginWaitGood
<1> HIDE DEF k
<1> QED BY <1>1, <1>2, CallPreserves, TaskCanCall

LEMMA SlpTskStep == ASSUME IInv, NEW tmout \in TMO, SlpTsk(tmout) PROVE IInv'
<1>1. /\ CanWait /\ InTask /\ Good(kn) /\ ctxtsk \in Task /\ kn.state[ctxtsk] = "READY"
      /\ kn.wupcnt[ctxtsk] \in Nat
  BY CallerIsReady, CountFields DEF SlpTsk, CanWait, IInv
<1>2. CASE kn.wupcnt[ctxtsk] > 0
  <2> DEFINE n == kn.wupcnt[ctxtsk] - 1
  <2>1. SystemCall("task", [kn EXCEPT !.wupcnt[ctxtsk] = n])
    BY <1>2 DEF SlpTsk
  <2>2. n \in Nat
    BY <1>1, <1>2
  <2> HIDE DEF n
  <2>3. kn.state[ctxtsk] \notin WaitBit
    BY <1>1 DEF WaitBit
  <2> QED BY <1>1, <2>1, <2>2, <2>3, WupcntStep, TaskCanCall
<1>3. CASE ~(kn.wupcnt[ctxtsk] > 0)
  <2>1. kn.wupcnt[ctxtsk] = 0
    BY <1>1, <1>3
  <2> QED BY <1>1, <1>3, <2>1, BeginWaitStep DEF SlpTsk, Ercd
<1> QED BY <1>2, <1>3

LEMMA DlyTskStep == ASSUME IInv, DlyTsk PROVE IInv'
  BY BeginWaitStep DEF DlyTsk, Ercd, TMO

LEMMA TimerTickStep == ASSUME IInv, TimerTick PROVE IInv'
<1>1. CanCall("hdr") /\ "hdr" \in Caller /\ SystemCall("hdr", kn)
  BY DEF TimerTick, CanCall, Caller
<1> QED BY <1>1, CallerIsReady, CallPreserves DEF IInv

\* Steps that leave the kernel state as it is.
LEMMA SameKernel ==
    ASSUME IInv, UNCHANGED kn, Control', RunningIsReady'
    PROVE  IInv'
  BY DEF IInv, Good, Counts, Consistent, Place, CountsOf

LEMMA ControlStep ==
    ASSUME IInv, DisDsp \/ EnaDsp \/ CpuLock \/ CpuUnlock \/ DispatchEntry \/ UNCHANGED vars
    PROVE  IInv'
<1>1. UNCHANGED kn
  BY DEF DisDsp, EnaDsp, CpuLock, CpuUnlock, DispatchEntry, vars
<1>2. Control'
  BY DEF IInv, Control, DDS, DisDsp, EnaDsp, CpuLock, CpuUnlock, DispatchEntry, vars, InTask
<1>3. RunningIsReady'
  BY DEF IInv, RunningIsReady, InTask, DisDsp, EnaDsp, CpuLock, CpuUnlock, DispatchEntry, vars
<1> QED BY <1>1, <1>2, <1>3, SameKernel

LEMMA DispatchSwitchStep == ASSUME IInv, DispatchSwitch PROVE IInv'
<1> DEFINE t == kn.schedtsk
           k == [kn EXCEPT !.wercd[t] = "none"]
<1>1. /\ Good(kn) /\ Counts(kn) /\ kn' = k /\ ctxtsk' = t
      /\ t \in Task /\ kn.state[t] = "READY" /\ kn \in KernelState
      /\ dispatch_disabled' = "ENABLE" /\ UNCHANGED <<pendsv, basepri>>
  BY SelectedIsReady, GoodType DEF IInv, DispatchSwitch
<1> HIDE DEF t
<1>2. /\ k \in KernelState /\ SameRings(k, kn) /\ k.priority = kn.priority
      /\ k.state = kn.state /\ SameCounts(k, kn)
      /\ k.wspec = kn.wspec /\ k.wtmeb = kn.wtmeb
  BY <1>1 DEF KernelState, SameRings, SameCounts, Ercd
<1> HIDE DEF k
<1>3. Good(k)
  BY <1>1, <1>2, DataGood
<1>4. Counts(k)
  BY <1>1, <1>2, SameCountsKeeps
<1>5. Good(kn') /\ Counts(kn')
  BY <1>1, <1>3, <1>4
<1>6. Control' /\ RunningIsReady'
  BY <1>1, <1>2 DEF IInv, Control, DDS, RunningIsReady
<1> QED BY <1>5, <1>6 DEF IInv, Good, Counts, Consistent, Place, CountsOf

LEMMA NextKeeps == ASSUME IInv, [Next]_vars PROVE IInv'
<1>1. CASE TaskOp
  BY <1>1, CreTskStep, DelTskStep, TerTskStep, ExtTskStep, ExdTskStep, SlpTskStep, DlyTskStep,
     ControlStep DEF TaskOp
<1>2. CASE AnyOp
  <2> SUFFICES ASSUME NEW c \in Caller,
                      \/ \E t \in Task :
                          \/ StaTsk(c, t) \/ RelWai(c, t)
                          \/ SusTsk(c, t) \/ RsmTsk(c, t) \/ FrsmTsk(c, t)
                          \/ WupTsk(c, t) \/ CanWup(c, t)
                          \/ \E p \in Pri : ChgPri(c, t, p)
                      \/ \E p \in Pri : RotRdq(c, p)
                      \/ RotRdqRun(c)
               PROVE  IInv'
    BY <1>2 DEF AnyOp
  <2> QED BY StaTskStep, RelWaiStep, SusTskStep, RsmTskStep, FrsmTskStep, WupTskStep,
             CanWupStep, ChgPriStep, RotRdqStep, RotRdqRunStep
<1>3. CASE TimerTick \/ \E t \in Task : TimerEvent(t)
  BY <1>3, TimerTickStep, TimerEventStep
<1>4. CASE DispatchEntry \/ UNCHANGED vars
  BY <1>4, ControlStep
<1>5. CASE DispatchSwitch
  BY <1>5, DispatchSwitchStep
<1> QED BY <1>1, <1>2, <1>3, <1>4, <1>5 DEF Next

\* IInv holds in every state that the kernel reaches.
THEOREM Invariance == Spec => []IInv
<1>1. Init => IInv
  BY InitInvariant
<1>2. IInv /\ [Next]_vars => IInv'
  BY NextKeeps
<1> QED BY <1>1, <1>2, PTL DEF Spec

\* Every variable keeps the type its C declaration gives it.
THEOREM TypeCorrect == Spec => []TypeOK
<1>1. IInv => TypeOK
  BY GoodType DEF IInv, Control, TypeOK
<1> QED BY <1>1, Invariance, PTL

\* A TCB is linked exactly where its state says, and nowhere twice, whatever
\* calls are made by tasks and handlers.
THEOREM RingsCorrect == Spec => []RingsMatchStates
<1>1. IInv => RingsMatchStates
  BY DEF IInv, Good, Consistent, Queued, Linked, Place, RingsMatchStates
<1> QED BY <1>1, Invariance, PTL

\* The bitmap and top_priority describe the ready rings exactly.
THEOREM ReadyQueueCorrect == Spec => []ReadyQueueExact
<1>1. IInv => ReadyQueueExact
  BY DEF IInv, Good, Consistent, Queued, ReadyExact, ReadyQueueExact
<1> QED BY <1>1, Invariance, PTL

\* The selected task is the first of the highest priority.
THEOREM SchedulingCorrect == Spec => []SchedIsTop
<1>1. IInv => SchedIsTop
  BY DEF IInv, Good, Consistent, SchedIsTop
<1> QED BY <1>1, Invariance, PTL

\* The task that goes on executing after a call or an interrupt is READY.
THEOREM RunningCorrect == Spec => []RunningIsReady
<1>1. IInv => RunningIsReady
  BY DEF IInv
<1> QED BY <1>1, Invariance, PTL

\* Suspended means that suspend requests are outstanding.
THEOREM SuspendCorrect == Spec => []SuspendedIffRequested
<1>1. IInv => SuspendedIffRequested
  BY DEF IInv, Counts, CountsOf, SuspendedIffRequested
<1> QED BY <1>1, Invariance, PTL

\* No task sleeps over a counted wakeup.
THEOREM WakeupCorrect == Spec => []NoLostWakeup
<1>1. IInv => NoLostWakeup
  BY DEF IInv, Counts, CountsOf, NoLostWakeup
<1> QED BY <1>1, Invariance, PTL

\* No timer event outlives its wait.
THEOREM TimerCorrect == Spec => []NoStaleTimer
<1>1. IInv => NoStaleTimer
  BY DEF IInv, Counts, CountsOf, NoStaleTimer
<1> QED BY <1>1, Invariance, PTL

\* The state of the kernel is consistent in every part.
THEOREM StateCorrect == Spec => []KernelStateExact
<1>1. TypeOK /\ RingsMatchStates /\ ReadyQueueExact /\ SuspendedIffRequested
        => KernelStateExact
  BY DEF KernelStateExact
<1> QED BY <1>1, TypeCorrect, RingsCorrect, ReadyQueueCorrect, SuspendCorrect, PTL

\* The right task is selected, and the one that executes may.
THEOREM RightTaskCorrect == Spec => []RightTaskRuns
<1>1. SchedIsTop /\ RunningIsReady => RightTaskRuns
  BY DEF RightTaskRuns
<1> QED BY <1>1, SchedulingCorrect, RunningCorrect, PTL

(***************************************************************************)
(* The tasks and the dispatcher (Task) implement one line of tasks ordered *)
(* by precedence (Precedence), for any number of tasks and priorities, and *)
(* no task is told of a timeout it did not wait for.                       *)
(*                                                                         *)
(* Each operator on the ready rings has one of five effects on the line:   *)
(* none, a task enters, leaves, moves to the end of its priority, or       *)
(* changes its priority while it is not in the line.  Each of them is an   *)
(* action of Precedence.                                                   *)
(***************************************************************************)

(***************************************************************************)
(* The order of the entries of a ring.                                     *)
(***************************************************************************)
LEMMA UnlinkOrder ==
    ASSUME NEW s \in Seq(Task), IsInjective(s), NEW t \in Task, NEW u \in Task, NEW v \in Task
    PROVE  InOrder(Unlink(s, t), u, v) <=> InOrder(s, u, v) /\ u # t /\ v # t
<1> DEFINE n == Len(s)
           r == Unlink(s, t)
<1>1. n \in Nat /\ DOMAIN s = 1..n
  BY LenProperties
<1>2. CASE ~InRing(s, t)
  <2>1. r = s
    BY <1>2 DEF Unlink
  <2>2. InOrder(s, u, v) => u # t /\ v # t
    BY <1>2 DEF InOrder, InRing
  <2> QED BY <2>1, <2>2
<1>3. CASE InRing(s, t)
  <2>1. PICK i \in 1..n : s[i] = t /\ r = RemoveAt(s, i)
    <3>1. \E i \in DOMAIN s : s[i] = t
      BY <1>3 DEF InRing
    <3> QED BY <1>1, <1>3, <3>1 DEF Unlink
  <2>2. /\ r \in Seq(Task) /\ Len(r) = n - 1
        /\ \A j \in 1..n-1 : r[j] = IF j < i THEN s[j] ELSE s[j+1]
    BY <2>1, RemoveAtIndex
  <2>3. DOMAIN r = 1..n-1
    BY <2>2, LenProperties
  <2>4. \A j \in 1..n : j # i => s[j] # t
    BY <1>1, <2>1 DEF IsInjective
  <2> HIDE DEF r
  <2>5. ASSUME InOrder(r, u, v) PROVE InOrder(s, u, v) /\ u # t /\ v # t
    <3>1. PICK a \in 1..n-1, b \in 1..n-1 : a < b /\ r[a] = u /\ r[b] = v
      BY <2>3, <2>5 DEF InOrder
    <3> DEFINE g(j) == IF j < i THEN j ELSE j + 1
    <3>2. /\ g(a) \in 1..n /\ g(b) \in 1..n /\ g(a) < g(b) /\ g(a) # i /\ g(b) # i
      BY <1>1, <3>1
    <3>3. s[g(a)] = u /\ s[g(b)] = v
      BY <2>2, <3>1
    <3> HIDE DEF g
    <3> QED BY <1>1, <2>4, <3>2, <3>3 DEF InOrder
  <2>6. ASSUME InOrder(s, u, v), u # t, v # t PROVE InOrder(r, u, v)
    <3>1. PICK a \in 1..n, b \in 1..n : a < b /\ s[a] = u /\ s[b] = v
      BY <1>1, <2>6 DEF InOrder
    <3> DEFINE g(j) == IF j < i THEN j ELSE j - 1
    <3>2. a # i /\ b # i
      BY <2>1, <2>6, <3>1
    <3>3. g(a) \in 1..n-1 /\ g(b) \in 1..n-1 /\ g(a) < g(b)
      BY <1>1, <3>1, <3>2
    <3>4. /\ (IF g(a) < i THEN g(a) ELSE g(a) + 1) = a
          /\ (IF g(b) < i THEN g(b) ELSE g(b) + 1) = b
      BY <1>1, <3>1, <3>2
    <3> HIDE DEF g
    <3>5. r[g(a)] = u /\ r[g(b)] = v
      BY <2>2, <3>1, <3>3, <3>4
    <3> QED BY <2>3, <3>3, <3>5 DEF InOrder
  <2> QED BY <2>5, <2>6 DEF r
<1> QED BY <1>2, <1>3

LEMMA AppendOrder ==
    ASSUME NEW s \in Seq(Task), NEW t \in Task, NEW u \in Task, NEW v \in Task
    PROVE  InOrder(Append(s, t), u, v) <=> InOrder(s, u, v) \/ (InRing(s, u) /\ v = t)
<1> DEFINE n == Len(s)
           r == Append(s, t)
<1>1. n \in Nat /\ DOMAIN s = 1..n
  BY LenProperties
<1>2. /\ DOMAIN r = 1..n+1 /\ r[n+1] = t
      /\ \A j \in 1..n : r[j] = s[j]
  <2>1. /\ r \in Seq(Task) /\ Len(r) = n + 1 /\ r[n+1] = t
        /\ \A j \in 1..n : r[j] = s[j]
    BY AppendProperties, <1>1
  <2> QED BY <2>1, LenProperties
<1> HIDE DEF r, n
<1>3. ASSUME InOrder(r, u, v) PROVE InOrder(s, u, v) \/ (InRing(s, u) /\ v = t)
  <2>1. PICK a \in 1..n+1, b \in 1..n+1 : a < b /\ r[a] = u /\ r[b] = v
    BY <1>2, <1>3 DEF InOrder
  <2>2. a \in 1..n
    BY <1>1, <2>1
  <2>3. CASE b = n + 1
    BY <1>1, <1>2, <2>1, <2>2, <2>3 DEF InRing
  <2>4. CASE b # n + 1
    <3>1. b \in 1..n
      BY <1>1, <2>1, <2>4
    <3> QED BY <1>1, <1>2, <2>1, <2>2, <3>1 DEF InOrder
  <2> QED BY <2>3, <2>4
<1>4. ASSUME InOrder(s, u, v) PROVE InOrder(r, u, v)
  <2>1. PICK a \in 1..n, b \in 1..n : a < b /\ s[a] = u /\ s[b] = v
    BY <1>1, <1>4 DEF InOrder
  <2>2. a \in 1..n+1 /\ b \in 1..n+1
    BY <1>1
  <2> QED BY <1>2, <2>1, <2>2 DEF InOrder
<1>5. ASSUME InRing(s, u), v = t PROVE InOrder(r, u, v)
  <2>1. PICK a \in 1..n : s[a] = u
    BY <1>1, <1>5 DEF InRing
  <2>2. a \in 1..n+1 /\ n+1 \in 1..n+1 /\ a < n + 1
    BY <1>1
  <2> QED BY <1>2, <1>5, <2>1, <2>2 DEF InOrder
<1> QED BY <1>3, <1>4, <1>5 DEF r

\* A ring without its first entry.
LEMMA TailUnlink ==
    ASSUME NEW s \in Seq(Task), s # <<>>, IsInjective(s)
    PROVE  Tail(s) = Unlink(s, Head(s))
<1> DEFINE n == Len(s)
<1>1. n \in Nat \ {0} /\ DOMAIN s = 1..n
  BY LenProperties, EmptySeq
<1>2. /\ Tail(s) \in Seq(Task) /\ Len(Tail(s)) = n - 1
      /\ \A j \in 1..n-1 : Tail(s)[j] = s[j+1]
      /\ Head(s) = s[1]
  BY HeadTailProperties, <1>1
<1>3. 1 \in 1..n /\ 1 \in DOMAIN s
  BY <1>1
<1>4. (CHOOSE i \in DOMAIN s : s[i] = Head(s)) = 1
  <2>1. \A i \in DOMAIN s : s[i] = Head(s) => i = 1
    BY <1>2, <1>3 DEF IsInjective
  <2> QED BY <1>2, <1>3, <2>1
<1>5. Unlink(s, Head(s)) = RemoveAt(s, 1)
  BY <1>2, <1>3, <1>4 DEF Unlink, InRing
<1>6. /\ RemoveAt(s, 1) \in Seq(Task) /\ Len(RemoveAt(s, 1)) = n - 1
      /\ \A j \in 1..n-1 : RemoveAt(s, 1)[j] = IF j < 1 THEN s[j] ELSE s[j+1]
  BY <1>3, RemoveAtIndex
<1> DEFINE a == Tail(s)
           b == RemoveAt(s, 1)
<1> HIDE DEF n
<1>7. \A j \in 1..n-1 : a[j] = b[j]
  BY <1>1, <1>2, <1>6
<1>8. a \in Seq(Task) /\ b \in Seq(Task) /\ Len(a) = Len(b) /\ Len(a) = n - 1
  BY <1>2, <1>6
<1> HIDE DEF a, b
<1>9. a = b
  BY <1>7, <1>8, SeqEqual
<1> QED BY <1>5, <1>9 DEF a, b

(***************************************************************************)
(* The line of a good kernel state.                                        *)
(***************************************************************************)
\* A READY task is in the ring of its priority, and no other task is in one.
LEMMA RingOfTask ==
    ASSUME NEW k, Good(k), NEW p \in Pri, NEW t \in Task
    PROVE  /\ k.que[p] \in Seq(Task) /\ IsInjective(k.que[p])
           /\ InRing(k.que[p], t) <=> k.state[t] = "READY" /\ p = k.priority[t]
<1>1. /\ k \in KernelState /\ Linked(k.que, Place(k))
  BY DEF Good, Consistent, Queued
<1>2. p \in QueHead /\ p # FreeTcb
  BY PriIsNatural
<1>3. k.que[p] \in Seq(Task) /\ IsInjective(k.que[p]) /\ (InRing(k.que[p], t) <=> p \in Place(k)[t])
  BY <1>1, <1>2 DEF KernelState, Linked
<1>4. p \in Place(k)[t] <=> k.state[t] = "READY" /\ p = k.priority[t]
  BY <1>2 DEF Place, RingOf
<1> QED BY <1>3, <1>4

LEMMA LineIsReady ==
    ASSUME NEW k, Good(k)
    PROVE  Line(k) = {t \in Task : k.state[t] = "READY"} /\ k.priority \in [Task -> Pri]
  BY RingOfTask, GoodType DEF Line

\* A task is not ahead of itself or of one that is ahead of it.
LEMMA AheadAsymmetric ==
    ASSUME NEW k, Good(k), NEW t \in Task, NEW u \in Task, <<t, u>> \in Ahead(k)
    PROVE  t # u /\ <<u, t>> \notin Ahead(k)
<1>1. \A p \in Pri, v \in Task : InRing(k.que[p], v) => p = k.priority[v]
  BY RingOfTask
<1>2. \A p \in Pri, v, w \in Task :
        InOrder(k.que[p], v, w) => /\ p = k.priority[v] /\ p = k.priority[w]
                                   /\ v # w /\ ~InOrder(k.que[p], w, v)
  <2> SUFFICES ASSUME NEW p \in Pri, NEW v \in Task, NEW w \in Task, InOrder(k.que[p], v, w)
               PROVE  /\ InRing(k.que[p], v) /\ InRing(k.que[p], w)
                      /\ v # w /\ ~InOrder(k.que[p], w, v)
    BY <1>1
  <2> DEFINE s == k.que[p]
  <2>1. s \in Seq(Task) /\ IsInjective(s)
    BY RingOfTask
  <2> HIDE DEF s
  <2>2. DOMAIN s = 1..Len(s) /\ Len(s) \in Nat
    BY <2>1, LenProperties
  <2>3. PICK i \in 1..Len(s), j \in 1..Len(s) : i < j /\ s[i] = v /\ s[j] = w
    BY <2>2 DEF InOrder, s
  <2>4. InRing(s, v) /\ InRing(s, w)
    BY <2>2, <2>3 DEF InRing
  <2>5. v # w
    BY <2>1, <2>2, <2>3 DEF IsInjective
  <2>6. \A a, b \in 1..Len(s) : s[a] = w /\ s[b] = v => a = j /\ b = i
    BY <2>1, <2>2, <2>3 DEF IsInjective
  <2>7. ~InOrder(s, w, v)
    BY <2>2, <2>3, <2>6 DEF InOrder
  <2> QED BY <2>4, <2>5, <2>7 DEF s
<1>3. Pri \subseteq Nat /\ k.priority[t] \in Pri /\ k.priority[u] \in Pri
  BY PriIsNatural, GoodType
<1>4. \A v, w \in Task : <<v, w>> \in Ahead(k) <=>
        \/ \E p, q \in Pri : p < q /\ InRing(k.que[p], v) /\ InRing(k.que[q], w)
        \/ \E p \in Pri : InOrder(k.que[p], v, w)
  BY DEF Ahead
<1>5. CASE \E p, q \in Pri : p < q /\ InRing(k.que[p], t) /\ InRing(k.que[q], u)
  <2>1. k.priority[t] < k.priority[u]
    BY <1>1, <1>5
  <2> QED BY <1>1, <1>2, <1>3, <1>4, <2>1
<1>6. CASE \E p \in Pri : InOrder(k.que[p], t, u)
  <2>1. k.priority[t] = k.priority[u] /\ t # u
        /\ \A p \in Pri : ~InOrder(k.que[p], u, t)
    BY <1>2, <1>6
  <2> QED BY <1>1, <1>3, <1>4, <2>1
<1> QED BY <1>4, <1>5, <1>6

\* The selected task is the first in line.
LEMMA SelectedIsFirst ==
    ASSUME NEW k, Good(k)
    PROVE  k.schedtsk = Precedence!First(Line(k), Ahead(k))
<1>1. Queued(k, Place(k)) /\ k.schedtsk = ReadyQueueTop(k) /\ ReadyExact(k)
  BY DEF Good, Consistent, Queued
<1>2. \A p \in Pri, t \in Task : InRing(k.que[p], t) => k.que[p] # <<>>
  BY DEF InRing
<1>3. CASE k.top_priority \notin Pri
  <2>1. k.schedtsk = NoTask
    BY <1>1, <1>3, TopInRing
  <2>2. \A p \in Pri : k.que[p] = <<>>
    BY <1>1, <1>3, PriIsNatural DEF ReadyExact
  <2>3. Line(k) = {}
    BY <1>2, <2>2 DEF Line
  <2> QED BY <2>1, <2>3 DEF Precedence!First
<1>4. CASE k.top_priority \in Pri
  <2> DEFINE p == k.top_priority
             s == k.que[p]
             h == k.schedtsk
  <2>1. p \in Pri /\ h \in Task /\ h = Head(s) /\ s # <<>> /\ p \in Place(k)[h]
    BY <1>1, <1>4, TopInRing
  <2>2. \A q \in Pri : k.que[q] # <<>> => p <= q
    BY <1>1 DEF ReadyExact
  <2>3. s \in Seq(Task) /\ IsInjective(s)
    BY <2>1, RingOfTask
  <2> HIDE DEF p, s, h
  <2>4. /\ Len(s) \in Nat \ {0} /\ DOMAIN s = 1..Len(s) /\ s[1] = h
    BY <2>1, <2>3, LenProperties, EmptySeq, HeadTailProperties
  <2>5. InRing(s, h)
    <3>1. 1 \in DOMAIN s
      BY <2>4
    <3> QED BY <2>4, <3>1 DEF InRing
  <2>6. h \in Line(k)
    BY <2>1, <2>5 DEF Line, s
  <2>7. \A u \in Line(k) \ {h} : <<h, u>> \in Ahead(k)
    <3> SUFFICES ASSUME NEW u \in Line(k), u # h PROVE <<h, u>> \in Ahead(k)
      OBVIOUS
    <3>1. u \in Task /\ \E q \in Pri : InRing(k.que[q], u)
      BY DEF Line
    <3>2. PICK q \in Pri : InRing(k.que[q], u)
      BY <3>1
    <3>3. p \in Nat /\ q \in Nat /\ p <= q
      BY <1>2, <2>1, <2>2, <3>1, <3>2, PriIsNatural
    <3>4. CASE p # q
      <4>1. p < q
        BY <3>3, <3>4
      <4> QED BY <2>1, <2>5, <3>1, <3>2, <4>1 DEF Ahead, s
    <3>5. CASE p = q
      <4>1. PICK j \in 1..Len(s) : s[j] = u
        BY <2>4, <3>2, <3>5 DEF InRing, s
      <4>2. j # 1 /\ 1 < j /\ 1 \in 1..Len(s)
        BY <2>4, <4>1
      <4>3. InOrder(s, h, u)
        BY <2>4, <4>1, <4>2 DEF InOrder
      <4> QED BY <2>1, <3>1, <4>3 DEF Ahead, s
    <3> QED BY <3>4, <3>5
  <2>8. \A t \in Line(k) : (\A u \in Line(k) \ {t} : <<t, u>> \in Ahead(k)) => t = h
    <3>1. \A t \in Line(k) : t \in Task
      BY DEF Line
    <3> QED BY <2>1, <2>6, <2>7, <3>1, AheadAsymmetric
  <2>9. h = CHOOSE t \in Line(k) : \A u \in Line(k) \ {t} : <<t, u>> \in Ahead(k)
    <3> HIDE DEF h
    <3> QED BY <2>6, <2>7, <2>8
  <2> QED BY <2>6, <2>9 DEF Precedence!First, h
<1> QED BY <1>3, <1>4

(***************************************************************************)
(* The effects on the line.                                                *)
(***************************************************************************)
SameReady(k1, k) == \A p \in Pri : k1.que[p] = k.que[p]
OutOfLine(k1, k, t) == \A p \in Pri : k1.que[p] = Unlink(k.que[p], t)
ToEnd(k1, k, t, q) ==
    \A p \in Pri : k1.que[p] = IF p = q THEN Append(Unlink(k.que[p], t), t)
                               ELSE Unlink(k.que[p], t)

WithPriority(k1, k, t, q) == k1.priority = [k.priority EXCEPT ![t] = q]

\* What is left of the order when t leaves its place, and what becomes of it
\* when t joins behind the tasks of priority p.
Behind(k, t) == {e \in Ahead(k) : e[1] # t /\ e[2] # t}
Joined(k, t, p) ==
    Behind(k, t) \cup {<<u, t>> : u \in {v \in Line(k) \ {t} : k.priority[v] <= p}}
                 \cup {<<t, u>> : u \in {v \in Line(k) \ {t} : k.priority[v] > p}}

LEMMA SameLine ==
    ASSUME NEW k, NEW k1, SameReady(k1, k)
    PROVE  Line(k1) = Line(k) /\ Ahead(k1) = Ahead(k)
  BY DEF SameReady, Line, Ahead

LEMMA LeftLine ==
    ASSUME NEW k, Good(k), NEW k1, NEW t \in Task, OutOfLine(k1, k, t)
    PROVE  Line(k1) = Line(k) \ {t} /\ Ahead(k1) = Behind(k, t)
<1>1. ASSUME NEW p \in Pri, NEW u \in Task, NEW v \in Task
      PROVE  /\ InRing(k1.que[p], u) <=> InRing(k.que[p], u) /\ u # t
             /\ InOrder(k1.que[p], u, v) <=> InOrder(k.que[p], u, v) /\ u # t /\ v # t
  <2> DEFINE s == k.que[p]
  <2>1. s \in Seq(Task) /\ IsInjective(s) /\ k1.que[p] = Unlink(s, t)
    BY RingOfTask DEF OutOfLine
  <2> HIDE DEF s
  <2> QED BY <2>1, UnlinkRing, UnlinkOrder DEF s
<1>2. Line(k1) = Line(k) \ {t}
  BY <1>1 DEF Line
<1>3. \A e \in Task \X Task : e[1] \in Task /\ e[2] \in Task
  OBVIOUS
<1>4. \A e \in Task \X Task : e \in Ahead(k1) <=> e \in Ahead(k) /\ e[1] # t /\ e[2] # t
  <2> SUFFICES ASSUME NEW e \in Task \X Task
               PROVE  e \in Ahead(k1) <=> e \in Ahead(k) /\ e[1] # t /\ e[2] # t
    OBVIOUS
  <2>1. e[1] \in Task /\ e[2] \in Task
    OBVIOUS
  <2>2. /\ (\E p, q \in Pri : p < q /\ InRing(k1.que[p], e[1]) /\ InRing(k1.que[q], e[2]))
             <=> /\ \E p, q \in Pri : p < q /\ InRing(k.que[p], e[1]) /\ InRing(k.que[q], e[2])
                 /\ e[1] # t /\ e[2] # t
        /\ (\E p \in Pri : InOrder(k1.que[p], e[1], e[2]))
             <=> (\E p \in Pri : InOrder(k.que[p], e[1], e[2])) /\ e[1] # t /\ e[2] # t
    BY <1>1, <2>1
  <2> QED BY <2>2 DEF Ahead
<1>5. Ahead(k1) \subseteq Task \X Task /\ Behind(k, t) \subseteq Task \X Task
  BY DEF Ahead, Behind
<1> QED BY <1>2, <1>4, <1>5 DEF Behind

LEMMA JoinedLine ==
    ASSUME NEW k, Good(k), NEW k1, NEW t \in Task, NEW q \in Pri, ToEnd(k1, k, t, q)
    PROVE  Line(k1) = Line(k) \cup {t} /\ Ahead(k1) = Joined(k, t, q)
<1>1. ASSUME NEW p \in Pri, NEW u \in Task, NEW v \in Task
      PROVE  /\ InRing(k1.que[p], u) <=> (InRing(k.que[p], u) /\ u # t) \/ (u = t /\ p = q)
             /\ InOrder(k1.que[p], u, v) <=>
                  \/ InOrder(k.que[p], u, v) /\ u # t /\ v # t
                  \/ p = q /\ v = t /\ u # t /\ InRing(k.que[p], u)
  <2> DEFINE s == k.que[p]
             r == Unlink(s, t)
  <2>1. s \in Seq(Task) /\ IsInjective(s)
        /\ k1.que[p] = IF p = q THEN Append(r, t) ELSE r
    BY RingOfTask DEF ToEnd
  <2> HIDE DEF s
  <2>2. /\ r \in Seq(Task) /\ IsInjective(r)
        /\ \A w \in Task : InRing(r, w) <=> InRing(s, w) /\ w # t
        /\ InOrder(r, u, v) <=> InOrder(s, u, v) /\ u # t /\ v # t
    BY <2>1, UnlinkRing, UnlinkOrder
  <2> HIDE DEF r
  <2>3. ~InRing(r, t)
    BY <2>2
  <2>4. /\ \A w \in Task : InRing(Append(r, t), w) <=> InRing(r, w) \/ w = t
        /\ InOrder(Append(r, t), u, v) <=> InOrder(r, u, v) \/ (InRing(r, u) /\ v = t)
    BY <2>2, <2>3, AppendRing, AppendOrder
  <2> QED BY <2>1, <2>2, <2>4 DEF s
<1>2. Line(k1) = Line(k) \cup {t}
  BY <1>1 DEF Line
<1>3. \A p \in Pri, u \in Task : InRing(k.que[p], u) => p = k.priority[u] /\ u \in Line(k)
  BY RingOfTask DEF Line
<1>4. \A u \in Line(k) : u \in Task /\ k.priority[u] \in Pri /\ InRing(k.que[k.priority[u]], u)
  BY RingOfTask, LineIsReady, GoodType
<1>5. Pri \subseteq Nat
  BY PriIsNatural
<1>6. ASSUME NEW u \in Task, NEW v \in Task
      PROVE  <<u, v>> \in Ahead(k1) <=>
               \/ <<u, v>> \in Ahead(k) /\ u # t /\ v # t
               \/ u \in Line(k) \ {t} /\ v = t /\ k.priority[u] <= q
               \/ v \in Line(k) \ {t} /\ u = t /\ k.priority[v] > q
  <2>1. <<u, v>> \in Ahead(k1) <=>
          \/ \E a, b \in Pri : a < b /\ InRing(k1.que[a], u) /\ InRing(k1.que[b], v)
          \/ \E p \in Pri : InOrder(k1.que[p], u, v)
    BY DEF Ahead
  <2>2. <<u, v>> \in Ahead(k) <=>
          \/ \E a, b \in Pri : a < b /\ InRing(k.que[a], u) /\ InRing(k.que[b], v)
          \/ \E p \in Pri : InOrder(k.que[p], u, v)
    BY DEF Ahead
  <2>3. CASE u # t /\ v # t
    <3>1. /\ \A p \in Pri : InRing(k1.que[p], u) <=> InRing(k.que[p], u)
          /\ \A p \in Pri : InRing(k1.que[p], v) <=> InRing(k.que[p], v)
          /\ \A p \in Pri : InOrder(k1.que[p], u, v) <=> InOrder(k.que[p], u, v)
      BY <1>1, <2>3
    <3> QED BY <2>1, <2>2, <2>3, <3>1
  <2>4. CASE u # t /\ v = t
    <3>1. /\ \A p \in Pri : InRing(k1.que[p], u) <=> InRing(k.que[p], u)
          /\ \A p \in Pri : InRing(k1.que[p], v) <=> p = q
          /\ \A p \in Pri : InOrder(k1.que[p], u, v) <=> p = q /\ InRing(k.que[p], u)
      BY <1>1, <2>4
    <3>2. <<u, v>> \in Ahead(k1) <=>
             (\E a \in Pri : a < q /\ InRing(k.que[a], u)) \/ InRing(k.que[q], u)
      BY <2>1, <3>1
    <3>3. ASSUME <<u, v>> \in Ahead(k1) PROVE u \in Line(k) /\ k.priority[u] <= q
      BY <1>3, <1>5, <3>2, <3>3
    <3>4. ASSUME u \in Line(k), k.priority[u] <= q PROVE <<u, v>> \in Ahead(k1)
      <4> DEFINE n == k.priority[u]
      <4>1. n \in Nat /\ q \in Nat /\ n <= q
        BY <1>4, <1>5, <3>4
      <4>2. n < q \/ n = q
        <5> HIDE DEF n
        <5> QED BY <4>1
      <4> QED BY <1>4, <3>2, <3>4, <4>2
    <3> QED BY <2>4, <3>3, <3>4
  <2>5. CASE u = t /\ v # t
    <3>1. /\ \A p \in Pri : InRing(k1.que[p], u) <=> p = q
          /\ \A p \in Pri : InRing(k1.que[p], v) <=> InRing(k.que[p], v)
          /\ \A p \in Pri : ~InOrder(k1.que[p], u, v)
      BY <1>1, <2>5
    <3>2. <<u, v>> \in Ahead(k1) <=> \E b \in Pri : q < b /\ InRing(k.que[b], v)
      BY <2>1, <3>1
    <3>3. ASSUME <<u, v>> \in Ahead(k1) PROVE v \in Line(k) /\ k.priority[v] > q
      BY <1>3, <1>5, <3>2, <3>3
    <3>4. ASSUME v \in Line(k), k.priority[v] > q PROVE <<u, v>> \in Ahead(k1)
      BY <1>4, <1>5, <3>2, <3>4
    <3> QED BY <2>5, <3>3, <3>4
  <2>6. CASE u = t /\ v = t
    <3>1. /\ \A p \in Pri : InRing(k1.que[p], t) <=> p = q
          /\ \A p \in Pri : ~InOrder(k1.que[p], u, v)
      BY <1>1, <2>6
    <3> QED BY <1>5, <2>1, <2>6, <3>1
  <2> QED BY <2>3, <2>4, <2>5, <2>6
<1>7. Ahead(k1) \subseteq Task \X Task /\ Joined(k, t, q) \subseteq Task \X Task
  BY <1>4 DEF Ahead, Joined, Behind
<1>8. \A u, v \in Task : <<u, v>> \in Joined(k, t, q) <=>
               \/ <<u, v>> \in Ahead(k) /\ u # t /\ v # t
               \/ u \in Line(k) \ {t} /\ v = t /\ k.priority[u] <= q
               \/ v \in Line(k) \ {t} /\ u = t /\ k.priority[v] > q
  BY DEF Joined, Behind
<1>9. Ahead(k1) = Joined(k, t, q)
  <2>1. \A u, v \in Task : <<u, v>> \in Ahead(k1) <=> <<u, v>> \in Joined(k, t, q)
    BY <1>6, <1>8
  <2> HIDE DEF Joined
  <2> QED BY <1>7, <2>1
<1> QED BY <1>2, <1>9

\* A task that enters was in no ring of a priority.
LEMMA EnteredRings ==
    ASSUME NEW k, Good(k), NEW t \in Task, k.state[t] # "READY", NEW p \in Pri
    PROVE  Unlink(k.que[p], t) = k.que[p]
  BY RingOfTask, UnlinkRing

(***************************************************************************)
(* The effects as actions of Precedence.                                   *)
(***************************************************************************)
\* The state of a step from kn to kn', both good.
Step(k1) == Good(kn) /\ kn' = k1 /\ Good(k1)

LEMMA StepFacts ==
    ASSUME NEW k1, Step(k1)
    PROVE  /\ Line(kn)' = Line(k1) /\ Ahead(kn)' = Ahead(k1)
           /\ kn.priority' = k1.priority /\ kn.schedtsk' = k1.schedtsk
           /\ Precedence!First(Line(kn)', Ahead(kn)') = kn.schedtsk'
           /\ kn.schedtsk = Precedence!First(Line(kn), Ahead(kn))
           /\ kn.priority \in [Task -> Pri] /\ k1.priority \in [Task -> Pri]
           /\ Line(kn) = {t \in Task : kn.state[t] = "READY"}
<1>1. kn' = k1 /\ Good(kn) /\ Good(k1)
  BY DEF Step
<1>2. Line(kn)' = Line(k1) /\ Ahead(kn)' = Ahead(k1)
  BY <1>1 DEF Line, Ahead
<1>3. k1.schedtsk = Precedence!First(Line(k1), Ahead(k1))
      /\ kn.schedtsk = Precedence!First(Line(kn), Ahead(kn))
  BY <1>1, SelectedIsFirst
<1> QED BY <1>1, <1>2, <1>3, LineIsReady

LEMMA Unchanged ==
    ASSUME NEW k1, Step(k1), SameReady(k1, kn), k1.priority = kn.priority, UNCHANGED ctxtsk
    PROVE  UNCHANGED Precedence!vars
<1>1. Line(k1) = Line(kn) /\ Ahead(k1) = Ahead(kn)
  BY SameLine
<1>2. Line(kn)' = Line(kn) /\ Ahead(kn)' = Ahead(kn) /\ kn.priority' = kn.priority
  BY <1>1, StepFacts
<1>3. kn.schedtsk' = kn.schedtsk
  BY <1>2, StepFacts
<1> QED BY <1>2, <1>3 DEF Precedence!vars

LEMMA Enters ==
    ASSUME NEW k1, Step(k1), NEW t \in Task, kn.state[t] # "READY",
           ToEnd(k1, kn, t, kn.priority[t]), k1.priority = kn.priority, UNCHANGED ctxtsk
    PROVE  Precedence!Next
<1>1. Good(kn) /\ kn.priority[t] \in Pri
  BY StepFacts DEF Step
<1>2. Line(k1) = Line(kn) \cup {t} /\ Ahead(k1) = Joined(kn, t, kn.priority[t])
  BY <1>1, JoinedLine
<1>3. t \notin Line(kn)
  BY StepFacts
<1>4. Precedence!Enter(t)
  BY <1>2, <1>3, StepFacts DEF Precedence!Enter, Precedence!Join, Precedence!Without, Joined, Behind
<1>5. kn.schedtsk' = Precedence!First(Line(kn)', Ahead(kn)')
  BY StepFacts
<1> QED BY <1>4, <1>5 DEF Precedence!Next, Precedence!Change

LEMMA Leaves ==
    ASSUME NEW k1, Step(k1), NEW t \in Task, kn.state[t] = "READY",
           OutOfLine(k1, kn, t), NEW p \in Pri, WithPriority(k1, kn, t, p),
           UNCHANGED ctxtsk \/ (t = ctxtsk /\ ctxtsk' = NoTask)
    PROVE  Precedence!Next
<1>1. Line(k1) = Line(kn) \ {t} /\ Ahead(k1) = Behind(kn, t)
  BY LeftLine DEF Step
<1>2. t \in Line(kn)
  BY StepFacts
<1>3. Precedence!Leave(t)
  BY <1>1, <1>2, StepFacts DEF Precedence!Leave, Precedence!Without, Behind, WithPriority
<1>4. kn.schedtsk' = Precedence!First(Line(kn)', Ahead(kn)')
  BY StepFacts
<1> QED BY <1>3, <1>4 DEF Precedence!Next, Precedence!Change

LEMMA Moves ==
    ASSUME NEW k1, Step(k1), NEW t \in Task, kn.state[t] = "READY", NEW p \in Pri,
           ToEnd(k1, kn, t, p), WithPriority(k1, kn, t, p), UNCHANGED ctxtsk
    PROVE  Precedence!Next
<1>1. Line(k1) = Line(kn) \cup {t} /\ Ahead(k1) = Joined(kn, t, p)
  BY JoinedLine DEF Step
<1>2. t \in Line(kn)
  BY StepFacts
<1>3. Precedence!Reposition(t, p)
  BY <1>1, <1>2, StepFacts DEF Precedence!Reposition, Precedence!Join, Precedence!Without,
                              Joined, Behind, WithPriority
<1>4. kn.schedtsk' = Precedence!First(Line(kn)', Ahead(kn)')
  BY StepFacts
<1> QED BY <1>3, <1>4 DEF Precedence!Next, Precedence!Change

LEMMA Idles ==
    ASSUME NEW k1, Step(k1), NEW t \in Task, kn.state[t] # "READY", NEW p \in Pri,
           SameReady(k1, kn), WithPriority(k1, kn, t, p), UNCHANGED ctxtsk
    PROVE  Precedence!Next
<1>1. Line(k1) = Line(kn) /\ Ahead(k1) = Ahead(kn)
  BY SameLine
<1>2. t \notin Line(kn)
  BY StepFacts
<1>3. Precedence!ChangeIdle(t, p)
  BY <1>1, <1>2, StepFacts DEF Precedence!ChangeIdle, WithPriority
<1>4. kn.schedtsk' = Precedence!First(Line(kn)', Ahead(kn)')
  BY StepFacts
<1> QED BY <1>3, <1>4 DEF Precedence!Next, Precedence!Change

LEMMA Rotates ==
    ASSUME NEW k1, Step(k1), NEW p \in Pri, kn.que[p] # <<>>,
           ToEnd(k1, kn, Head(kn.que[p]), p), k1.priority = kn.priority, UNCHANGED ctxtsk
    PROVE  Precedence!Next
<1> DEFINE s == kn.que[p]
           t == Head(s)
<1>1. s \in Seq(Task) /\ IsInjective(s) /\ s # <<>> /\ Good(kn)
  <2>1. 1 \in Task
    BY NumTaskAssumption DEF Task
  <2> QED BY <2>1, RingOfTask DEF Step
<1>2. ToEnd(k1, kn, t, p)
  OBVIOUS
<1> HIDE DEF s, t
<1>3. t \in Task /\ InRing(s, t) /\ Len(s) \in Nat \ {0} /\ DOMAIN s = 1..Len(s) /\ s[1] = t
  BY <1>1, TailRing, LenProperties, EmptySeq, HeadTailProperties DEF t
<1>4. kn.state[t] = "READY" /\ p = kn.priority[t] /\ t \in Line(kn)
  <2>1. kn.state[t] = "READY" /\ p = kn.priority[t]
    BY <1>1, <1>3, RingOfTask DEF s
  <2> QED BY <1>3, <2>1, StepFacts
<1>5. \A u \in Line(kn) \ {t} : kn.priority[u] = kn.priority[t] => <<t, u>> \in Ahead(kn)
  <2> SUFFICES ASSUME NEW u \in Task, u # t, kn.state[u] = "READY", kn.priority[u] = p
               PROVE  <<t, u>> \in Ahead(kn)
    BY <1>4, StepFacts
  <2>1. InRing(s, u)
    BY <1>1, RingOfTask DEF s
  <2>2. PICK j \in 1..Len(s) : s[j] = u
    BY <1>3, <2>1 DEF InRing
  <2>3. 1 < j /\ 1 \in DOMAIN s
    BY <1>3, <2>2
  <2>4. InOrder(s, t, u)
    BY <1>3, <2>2, <2>3 DEF InOrder
  <2> QED BY <1>3, <2>4 DEF Ahead, s
<1>6. Line(k1) = Line(kn) \cup {t} /\ Ahead(k1) = Joined(kn, t, p)
  BY <1>1, <1>2, <1>3, JoinedLine
<1>7. Precedence!Rotate(t)
  <2>1. Line(kn)' = Line(kn) /\ kn.priority' = kn.priority /\ Ahead(kn)' = Joined(kn, t, p)
    BY <1>4, <1>6, StepFacts
  <2> QED BY <1>4, <1>5, <2>1 DEF Precedence!Rotate, Precedence!Join, Precedence!Without,
                                  Joined, Behind
<1>8. kn.schedtsk' = Precedence!First(Line(kn)', Ahead(kn)')
  BY StepFacts
<1> QED BY <1>3, <1>7, <1>8 DEF Precedence!Next, Precedence!Change

(***************************************************************************)
(* The operators: what they do to the ready rings, and to the state, the   *)
(* priority and the error code of tasks.                                   *)
(***************************************************************************)
LEMMA MakeReadyEffect ==
    ASSUME NEW k \in KernelState, NEW t \in Task,
           \A p \in Pri : Unlink(k.que[p], t) = k.que[p],
           NEW k1, k1 = MakeReady(k, t)
    PROVE  /\ ToEnd(k1, k, t, k.priority[t]) /\ k1.priority = k.priority
           /\ k1.state = [k.state EXCEPT ![t] = "READY"]
           /\ k1.wercd = k.wercd
<1>1. k1.que = QueInsert(k.que, t, k.priority[t]) /\ k1.priority = k.priority
      /\ k1.state = [k.state EXCEPT ![t] = "READY"] /\ k1.wercd = k.wercd
  BY DEF MakeReady, ReadyQueueInsert, KernelState
<1>2. k.que \in [QueHead -> Seq(Task)] /\ Pri \subseteq QueHead
  BY PriIsNatural DEF KernelState
<1>3. \A p \in Pri : k1.que[p] = IF p = k.priority[t] THEN Append(k.que[p], t) ELSE k.que[p]
  BY <1>1, <1>2 DEF QueInsert
<1> QED BY <1>1, <1>3 DEF ToEnd

LEMMA QueRemoveRings ==
    ASSUME NEW que \in [QueHead -> Seq(Task)], NEW t \in Task, NEW p \in Pri
    PROVE  QueRemove(que, t)[p] = Unlink(que[p], t)
  BY PriIsNatural DEF QueRemove

LEMMA MakeNonReadyEffect ==
    ASSUME NEW k \in KernelState, NEW t \in Task, NEW k1, k1 = MakeNonReady(k, t)
    PROVE  /\ OutOfLine(k1, k, t)
           /\ k1.priority = k.priority /\ k1.state = k.state /\ k1.wercd = k.wercd
<1>1. /\ k1.que = QueRemove(k.que, t) /\ k1.priority = k.priority
      /\ k1.state = k.state /\ k1.wercd = k.wercd
  BY DEF MakeNonReady, Reschedule, ReadyQueueDelete, KernelState
<1>2. k.que \in [QueHead -> Seq(Task)]
  BY DEF KernelState
<1> QED BY <1>1, <1>2, QueRemoveRings DEF OutOfLine

LEMMA MoveReadyEffect ==
    ASSUME NEW k \in KernelState, NEW t \in Task, NEW q \in Pri, NEW k1, k1 = MoveReady(k, t, q)
    PROVE  /\ ToEnd(k1, k, t, q) /\ WithPriority(k1, k, t, q)
           /\ k1.state = k.state /\ k1.wercd = k.wercd
<1>1. /\ k1.que = QueInsert(QueRemove(k.que, t), t, q)
      /\ k1.priority = [k.priority EXCEPT ![t] = q]
      /\ k1.state = k.state /\ k1.wercd = k.wercd
  BY DEF MoveReady, Reschedule, ReadyQueueInsert, ReadyQueueDelete, KernelState
<1>2. /\ k.que \in [QueHead -> Seq(Task)] /\ Pri \subseteq QueHead
      /\ QueRemove(k.que, t) = [h \in QueHead |-> Unlink(k.que[h], t)]
  BY PriIsNatural DEF KernelState, QueRemove
<1>3. \A p \in Pri : k1.que[p] = IF p = q THEN Append(Unlink(k.que[p], t), t)
                                 ELSE Unlink(k.que[p], t)
  BY <1>1, <1>2 DEF QueInsert
<1> QED BY <1>1, <1>3 DEF ToEnd, WithPriority

LEMMA RotateEffect ==
    ASSUME NEW k, Good(k), NEW q \in Pri, k.que[q] # <<>>, NEW k1, k1 = RotateReadyQueue(k, q)
    PROVE  /\ ToEnd(k1, k, Head(k.que[q]), q) /\ k1.priority = k.priority
           /\ k1.state = k.state /\ k1.wercd = k.wercd
<1> DEFINE s == k.que[q]
           t == Head(s)
<1>1. k \in KernelState /\ k.que \in [QueHead -> Seq(Task)] /\ Pri \subseteq QueHead
  <2> HIDE DEF s, t
  <2>1. k \in KernelState
    BY GoodType
  <2> QED BY <2>1, PriIsNatural DEF KernelState
<1>2. /\ k1.que = [k.que EXCEPT ![q] = Append(Tail(s), t)] /\ k1.priority = k.priority
      /\ k1.state = k.state /\ k1.wercd = k.wercd
  <2>1. k1 = Reschedule(ReadyQueueRotate(k, q))
    BY DEF RotateReadyQueue
  <2>2. ReadyQueueRotate(k, q) = [k EXCEPT !.que = [@ EXCEPT ![q] = Append(Tail(s), t)]]
    BY <1>1 DEF ReadyQueueRotate, KernelState
  <2> HIDE DEF s, t
  <2> QED BY <1>1, <2>1, <2>2 DEF Reschedule, KernelState
<1>3. s \in Seq(Task) /\ s # <<>> /\ IsInjective(s)
  <2>1. 1 \in Task
    BY NumTaskAssumption DEF Task
  <2> QED BY <2>1, RingOfTask
<1>4. t \in Task /\ InRing(s, t) /\ Tail(s) = Unlink(s, t)
  <2> HIDE DEF s
  <2> QED BY <1>3, TailRing, TailUnlink
<1>5. \A p \in Pri : p # q => Unlink(k.que[p], t) = k.que[p]
  <2> SUFFICES ASSUME NEW p \in Pri, p # q PROVE ~InRing(k.que[p], t)
    BY DEF Unlink
  <2> HIDE DEF s, t
  <2>1. q = k.priority[t]
    BY <1>4, RingOfTask DEF s
  <2> QED BY <1>4, <2>1, RingOfTask
<1> HIDE DEF s, t
<1>6. \A p \in Pri : k1.que[p] = IF p = q THEN Append(Unlink(k.que[p], t), t)
                                 ELSE Unlink(k.que[p], t)
  <2> SUFFICES ASSUME NEW p \in Pri
               PROVE  k1.que[p] = IF p = q THEN Append(Unlink(k.que[p], t), t)
                                  ELSE Unlink(k.que[p], t)
    OBVIOUS
  <2>1. CASE p = q
    BY <1>1, <1>2, <1>4, <2>1 DEF s
  <2>2. CASE p # q
    BY <1>1, <1>2, <1>5, <2>2
  <2> QED BY <2>1, <2>2
<1>7. ToEnd(k1, k, t, q)
  BY <1>6 DEF ToEnd
<1> QED BY <1>2, <1>7 DEF t, s

\* A task that is not READY can be taken out of its ring at will.
LEMMA CancelEffect ==
    ASSUME NEW k, Good(k), NEW t \in Task, k.state[t] # "READY", NEW k1, k1 = WaitCancel(k, t)
    PROVE  /\ k1 \in KernelState /\ SameReady(k1, k)
           /\ \A p \in Pri : Unlink(k1.que[p], t) = k1.que[p]
           /\ k1.priority = k.priority /\ k1.state = k.state /\ k1.wercd = k.wercd
<1>1. k \in KernelState /\ k.que \in [QueHead -> Seq(Task)] /\ Linked(k.que, Place(k))
  BY GoodType DEF KernelState, Good, Consistent, Queued
<1>2. /\ k1.que = QueRemove(k.que, t) /\ k1.priority = k.priority
      /\ k1.state = k.state /\ k1.wercd = k.wercd
  BY <1>1 DEF WaitCancel, KernelState
<1>3. k1.que \in [QueHead -> Seq(Task)]
  <2>1. \A h \in QueHead : Unlink(k.que[h], t) \in Seq(Task)
    BY <1>1, UnlinkRing DEF Linked
  <2> QED BY <1>1, <1>2, <2>1 DEF QueRemove
<1>4. k1 \in KernelState
  <2>1. k1 = [k EXCEPT !.wtmeb = [@ EXCEPT ![t] = FALSE], !.que = k1.que]
    BY <1>2 DEF WaitCancel
  <2>2. k.wtmeb \in [Task -> BOOLEAN]
    BY <1>1 DEF KernelState
  <2>3. [k.wtmeb EXCEPT ![t] = FALSE] \in [Task -> BOOLEAN]
    BY <2>2
  <2> QED BY <1>1, <1>3, <2>1, <2>3 DEF KernelState
<1>5. \A p \in Pri : k1.que[p] = k.que[p] /\ Unlink(k.que[p], t) = k.que[p]
  BY <1>1, <1>2, QueRemoveRings, EnteredRings
<1> QED BY <1>2, <1>4, <1>5 DEF SameReady

LEMMA WaitReleaseEffect ==
    ASSUME NEW k, Good(k), NEW t \in Task, k.state[t] \in WaitBit, NEW ercd \in Ercd,
           NEW k1, k1 = WaitRelease(k, t, ercd)
    PROVE  /\ k.state[t] = "WAIT" => ToEnd(k1, k, t, k.priority[t])
           /\ k.state[t] # "WAIT" => SameReady(k1, k)
           /\ k1.priority = k.priority
           /\ k1.state = [k.state EXCEPT ![t] = IF @ = "WAIT" THEN "READY" ELSE "SUSPEND"]
           /\ k1.wercd = [k.wercd EXCEPT ![t] = ercd]
<1> DEFINE k0 == WaitCancel(k, t)
           kb == MakeNonWait(k0, t)
<1>1. /\ k0 \in KernelState /\ SameReady(k0, k)
      /\ \A p \in Pri : Unlink(k0.que[p], t) = k0.que[p]
      /\ k0.priority = k.priority /\ k0.state = k.state /\ k0.wercd = k.wercd
  BY CancelEffect DEF WaitBit
<1>2. k1 = [kb EXCEPT !.wspec[t] = NoSpec, !.wercd[t] = ercd]
  BY DEF WaitRelease
<1> HIDE DEF k0
<1>3. CASE k.state[t] = "WAIT"
  <2>1. kb = MakeReady(k0, t)
    BY <1>1, <1>3 DEF MakeNonWait
  <2>2. /\ ToEnd(kb, k0, t, k0.priority[t]) /\ kb.priority = k0.priority
        /\ kb.state = [k0.state EXCEPT ![t] = "READY"]
        /\ kb.wercd = k0.wercd
    BY <1>1, <2>1, MakeReadyEffect
  <2>3. DOMAIN kb = DOMAIN k0 /\ DOMAIN k0 = DOMAIN k
    BY <1>1, <2>1, GoodType DEF MakeReady, ReadyQueueInsert, KernelState
  <2>4. k1.que = kb.que /\ k1.priority = kb.priority /\ k1.state = kb.state
        /\ k1.wercd = [kb.wercd EXCEPT ![t] = ercd]
    <3>1. k \in KernelState
      BY GoodType
    <3> HIDE DEF kb
    <3> QED BY <1>2, <2>3, <3>1 DEF KernelState
  <2> HIDE DEF kb
  <2>5. ToEnd(k1, k, t, k.priority[t])
    BY <1>1, <2>2, <2>4 DEF ToEnd, SameReady
  <2> QED BY <1>1, <1>3, <2>2, <2>4, <2>5
<1>4. CASE k.state[t] # "WAIT"
  <2>1. kb = [k0 EXCEPT !.state[t] = "SUSPEND"]
    BY <1>1, <1>4 DEF MakeNonWait
  <2>2. k1.que = k0.que /\ k1.priority = k0.priority
        /\ k1.state = [k0.state EXCEPT ![t] = "SUSPEND"]
        /\ k1.wercd = [k0.wercd EXCEPT ![t] = ercd]
    <3> HIDE DEF kb
    <3> QED BY <1>1, <1>2, <2>1 DEF KernelState
  <2> QED BY <1>1, <1>4, <2>2 DEF SameReady
<1> QED BY <1>3, <1>4

LEMMA DetachEffect ==
    ASSUME NEW k, Good(k), NEW t \in Task, k.state[t] \in Alive, NEW k1, k1 = Detach(k, t)
    PROVE  /\ k1 \in KernelState
           /\ k.state[t] = "READY" => OutOfLine(k1, k, t)
           /\ k.state[t] # "READY" => SameReady(k1, k)
           /\ k1.priority = k.priority /\ k1.state = k.state
<1>1. k \in KernelState /\ k1 \in KernelState
  BY GoodType, DetachGood DEF Consistent, Queued
<1>2. CASE k.state[t] = "READY"
  BY <1>1, <1>2, MakeNonReadyEffect DEF Detach
<1>3. CASE k.state[t] # "READY" /\ k.state[t] \in WaitBit
  BY <1>1, <1>3, CancelEffect DEF Detach
<1>4. CASE k.state[t] # "READY" /\ k.state[t] \notin WaitBit
  BY <1>1, <1>4 DEF Detach, SameReady
<1> QED BY <1>2, <1>3, <1>4

LEMMA DormantEffect ==
    ASSUME NEW k \in KernelState, NEW t \in Task, NEW k1, k1 = MakeDormant(k, t)
    PROVE  /\ k1.que = k.que /\ WithPriority(k1, k, t, k.ipriority[t]) /\ k.ipriority[t] \in Pri
           /\ k1.state = [k.state EXCEPT ![t] = "DORMANT"]
  BY DEF MakeDormant, WithPriority, KernelState

LEMMA ReturnEffect ==
    ASSUME NEW k \in KernelState, NEW t \in Task, NEW k1, k1 = ReturnTcb(k, t)
    PROVE  /\ SameReady(k1, k) /\ WithPriority(k1, k, t, 0) /\ 0 \in Pri
           /\ k1.state = [k.state EXCEPT ![t] = "NONEXIST"]
<1> DEFINE ka == [k EXCEPT !.ipriority[t] = 0]
           kb == MakeDormant(ka, t)
<1>1. 0 \in Pri
  BY PriIsNatural DEF Pri
<1>2. ka \in KernelState /\ ka.que = k.que /\ ka.priority = k.priority /\ ka.state = k.state
      /\ ka.ipriority[t] = 0
  BY <1>1 DEF KernelState
<1>3. k1 = [kb EXCEPT !.que = QueInsert(@, t, FreeTcb), !.state[t] = "NONEXIST"]
  BY DEF ReturnTcb
<1>4. DOMAIN kb = DOMAIN k
  BY DEF MakeDormant
<1> HIDE DEF ka
<1>5. kb.que = ka.que /\ WithPriority(kb, ka, t, 0)
      /\ kb.state = [ka.state EXCEPT ![t] = "DORMANT"]
  BY <1>2, DormantEffect
<1> HIDE DEF kb
<1>6. k1.que = QueInsert(k.que, t, FreeTcb) /\ k1.priority = kb.priority
      /\ k1.state = [kb.state EXCEPT ![t] = "NONEXIST"]
  BY <1>2, <1>3, <1>4, <1>5 DEF KernelState
<1>7. SameReady(k1, k)
  BY <1>6, PriIsNatural DEF QueInsert, SameReady, KernelState
<1>8. k1.state = [k.state EXCEPT ![t] = "NONEXIST"]
  BY <1>2, <1>5, <1>6 DEF KernelState
<1> QED BY <1>1, <1>2, <1>5, <1>6, <1>7, <1>8 DEF WithPriority

\* Ending a task, with or without giving back its TCB.
LEMMA EndEffect ==
    ASSUME NEW k, Good(k), NEW t \in Task, k.state[t] \in Alive, NEW k1,
           \/ k1 = MakeDormant(Detach(k, t), t)
           \/ k1 = ReturnTcb(Detach(k, t), t)
    PROVE  /\ k.state[t] = "READY" => OutOfLine(k1, k, t)
           /\ k.state[t] # "READY" => SameReady(k1, k)
           /\ \E p \in Pri : WithPriority(k1, k, t, p)
           /\ \E s \in {"DORMANT", "NONEXIST"} : k1.state = [k.state EXCEPT ![t] = s]
<1> DEFINE k0 == Detach(k, t)
<1>1. /\ k0 \in KernelState
      /\ k.state[t] = "READY" => OutOfLine(k0, k, t)
      /\ k.state[t] # "READY" => SameReady(k0, k)
      /\ k0.priority = k.priority /\ k0.state = k.state
  BY DetachEffect
<1> HIDE DEF k0
<1>2. /\ SameReady(k1, k0)
      /\ \E p \in Pri : WithPriority(k1, k0, t, p)
      /\ \E s \in {"DORMANT", "NONEXIST"} : k1.state = [k0.state EXCEPT ![t] = s]
  <2>1. CASE k1 = MakeDormant(k0, t)
    BY <1>1, <2>1, DormantEffect DEF SameReady
  <2>2. CASE k1 = ReturnTcb(k0, t)
    BY <1>1, <2>2, ReturnEffect
  <2> QED BY <2>1, <2>2 DEF k0
<1> QED BY <1>1, <1>2 DEF SameReady, OutOfLine, WithPriority

LEMMA CreateEffect ==
    ASSUME NEW k, Good(k), k.que[FreeTcb] # <<>>, NEW p \in Pri, NEW k1, k1 = CreateTcb(k, p)
    PROVE  SameReady(k1, k) /\ WithPriority(k1, k, Head(k.que[FreeTcb]), p)
<1> DEFINE t == Head(k.que[FreeTcb])
           k0 == [k EXCEPT !.que[FreeTcb] = Tail(@), !.ipriority[t] = p]
<1>1. k \in KernelState /\ t \in Task
  BY GoodType, CreateTcbGood
<1>2. k1 = MakeDormant(k0, t)
  BY DEF CreateTcb
<1> HIDE DEF t
<1>3. k0.que = [k.que EXCEPT ![FreeTcb] = Tail(@)] /\ k0.priority = k.priority
      /\ k0.ipriority[t] = p /\ k0 \in KernelState
  <2>1. k.que[FreeTcb] \in Seq(Task) /\ FreeTcb \in QueHead
    BY <1>1, PriIsNatural DEF KernelState
  <2>2. Tail(k.que[FreeTcb]) \in Seq(Task)
    BY <2>1, HeadTailProperties
  <2> QED BY <1>1, <2>1, <2>2 DEF KernelState
<1>4. k1.que = k0.que /\ k1.priority = [k0.priority EXCEPT ![t] = p]
  <2> HIDE DEF k0
  <2>1. t \in Task /\ k0 \in KernelState /\ k0.ipriority[t] = p
    BY <1>1, <1>3
  <2>2. k1.que = k0.que /\ WithPriority(k1, k0, t, k0.ipriority[t])
    BY ONLY <1>2, <2>1, DormantEffect
  <2> QED BY <2>1, <2>2 DEF WithPriority
<1>5. SameReady(k1, k)
  BY <1>1, <1>3, <1>4, PriIsNatural DEF SameReady, KernelState
<1> QED BY <1>3, <1>4, <1>5 DEF WithPriority, t

BeginsWait(k1, k, t, w, ercd, tmout) ==
    k1 = MakeWait([k EXCEPT !.wspec[t] = w, !.wercd[t] = ercd], t, tmout)

LEMMA BeginWaitEffect ==
    ASSUME NEW k, Good(k), NEW t \in Task, k.state[t] = "READY",
           NEW w \in WSpec, NEW ercd \in Ercd, NEW tmout,
           NEW k1, BeginsWait(k1, k, t, w, ercd, tmout)
    PROVE  /\ OutOfLine(k1, k, t) /\ k1.priority = k.priority
           /\ k1.state = [k.state EXCEPT ![t] = "WAIT"]
<1> DEFINE k0 == [k EXCEPT !.wspec[t] = w, !.wercd[t] = ercd]
           kb == MakeNonReady(k0, t)
<1>1. k0 \in KernelState /\ k0.que = k.que /\ k0.priority = k.priority /\ k0.state = k.state
  <2>1. /\ k \in KernelState
        /\ [k.wspec EXCEPT ![t] = w] \in [Task -> WSpec]
        /\ [k.wercd EXCEPT ![t] = ercd] \in [Task -> Ercd]
    BY GoodType DEF KernelState
  <2> QED BY <2>1 DEF KernelState
<1>2. k1 = [kb EXCEPT !.state[t] = "WAIT", !.wtmeb[t] = (tmout = "TIME")]
  <2>1. k0.state[t] = "READY"
    BY <1>1
  <2> HIDE DEF k0, kb
  <2>2. k1 = MakeWait(k0, t, tmout)
    BY DEF BeginsWait, k0
  <2> QED BY <2>1, <2>2 DEF MakeWait, kb
<1> HIDE DEF k0
<1>3. OutOfLine(kb, k0, t) /\ kb.priority = k0.priority /\ kb.state = k0.state
  BY <1>1, MakeNonReadyEffect
<1>4. DOMAIN kb = DOMAIN k0
  BY <1>1 DEF MakeNonReady, ReadyQueueDelete, Reschedule, KernelState
<1> HIDE DEF kb
<1>5. k1.que = kb.que /\ k1.priority = kb.priority /\ k1.state = [kb.state EXCEPT ![t] = "WAIT"]
  BY <1>1, <1>2, <1>4 DEF KernelState
<1> QED BY <1>1, <1>3, <1>5 DEF OutOfLine

LEMMA SuspendEffect ==
    ASSUME NEW k, Good(k), NEW t \in Task, k.state[t] \in Alive, NEW k1, k1 = Suspend(k, t)
    PROVE  /\ k.state[t] = "READY" => OutOfLine(k1, k, t)
           /\ k.state[t] # "READY" => SameReady(k1, k)
           /\ k1.priority = k.priority
<1> DEFINE k0 == [k EXCEPT !.suscnt[t] = @ + 1]
<1>1. k0 \in KernelState /\ k0.que = k.que /\ k0.priority = k.priority /\ k0.state = k.state
  <2>1. k \in KernelState
    BY GoodType
  <2>2. [k.suscnt EXCEPT ![t] = @ + 1] \in [Task -> Nat]
    BY <2>1 DEF KernelState
  <2> QED BY <2>1, <2>2 DEF KernelState
<1>2. CASE k.state[t] = "READY"
  <2> DEFINE kb == MakeNonReady(k0, t)
  <2>1. k1 = [kb EXCEPT !.state[t] = "SUSPEND"]
    BY <1>2 DEF Suspend
  <2> HIDE DEF k0
  <2>2. OutOfLine(kb, k0, t) /\ kb.priority = k0.priority
    BY <1>1, MakeNonReadyEffect
  <2>3. DOMAIN kb = DOMAIN k0
    BY <1>1 DEF MakeNonReady, ReadyQueueDelete, Reschedule, KernelState
  <2> HIDE DEF kb
  <2>4. k1.que = kb.que /\ k1.priority = kb.priority
    BY <1>1, <2>1, <2>3 DEF KernelState
  <2> QED BY <1>1, <1>2, <2>2, <2>4 DEF OutOfLine
<1>3. CASE k.state[t] # "READY"
  <2>1. k1 = k0 \/ k1 = [k0 EXCEPT !.state[t] = "WAITSUS"]
    BY <1>3 DEF Suspend
  <2> HIDE DEF k0
  <2>2. k1.que = k0.que /\ k1.priority = k0.priority
    BY <1>1, <2>1 DEF KernelState
  <2> QED BY <1>1, <1>3, <2>2 DEF SameReady
<1> QED BY <1>2, <1>3

\* The state of t is another and it waits no less than before.
WaitsOn(k1, k, t) ==
    \E s : /\ k1.state = [k.state EXCEPT ![t] = s]
           /\ k.state[t] \in WaitBit => s \in WaitBit

LEMMA ResumeEffect ==
    ASSUME NEW k, Good(k), NEW t \in Task, k.state[t] \in {"SUSPEND", "WAITSUS"},
           NEW count \in Nat, NEW k1, k1 = Resume(k, t, count)
    PROVE  /\ k1.priority = k.priority
           /\ \/ SameReady(k1, k)
              \/ ToEnd(k1, k, t, k.priority[t])
           /\ WaitsOn(k1, k, t)
<1> DEFINE k0 == [k EXCEPT !.suscnt[t] = count]
<1>1. k \in KernelState /\ k0 \in KernelState /\ k0.que = k.que /\ k0.priority = k.priority
      /\ k0.state = k.state
  <2>1. k \in KernelState
    BY GoodType
  <2> QED BY <2>1 DEF KernelState
<1>2. \A p \in Pri : Unlink(k0.que[p], t) = k0.que[p]
  BY <1>1, EnteredRings
<1>3. \/ k1 = k0
      \/ k.state[t] = "SUSPEND" /\ k1 = MakeReady(k0, t)
      \/ k1 = [k0 EXCEPT !.state[t] = "WAIT"]
  BY DEF Resume
<1> HIDE DEF k0
<1>4. CASE k1 = k0
  <2>1. k1.state = [k.state EXCEPT ![t] = k.state[t]]
    BY <1>1, <1>4 DEF KernelState
  <2> QED BY <1>1, <1>4, <2>1 DEF SameReady, WaitsOn
<1>5. CASE k.state[t] = "SUSPEND" /\ k1 = MakeReady(k0, t)
  <2>1. /\ ToEnd(k1, k0, t, k0.priority[t]) /\ k1.priority = k0.priority
        /\ k1.state = [k0.state EXCEPT ![t] = "READY"]
    BY <1>1, <1>2, <1>5, MakeReadyEffect
  <2> QED BY <1>1, <1>5, <2>1 DEF ToEnd, WaitBit, WaitsOn
<1>6. CASE k1 = [k0 EXCEPT !.state[t] = "WAIT"]
  <2>1. k1.que = k0.que /\ k1.priority = k0.priority
        /\ k1.state = [k0.state EXCEPT ![t] = "WAIT"]
    BY <1>1, <1>6 DEF KernelState
  <2> QED BY <1>1, <2>1 DEF SameReady, WaitBit, WaitsOn
<1> QED BY <1>3, <1>4, <1>5, <1>6

ChangesPriority(k1, k, t, p) ==
    LET k0 == [k EXCEPT !.bpriority[t] = p]
    IN  k1 = IF k0.state[t] = "READY" THEN MoveReady(k0, t, p)
             ELSE [k0 EXCEPT !.priority[t] = p]

LEMMA ChangePriorityEffect ==
    ASSUME NEW k, Good(k), NEW t \in Task, NEW p \in Pri, NEW k1, ChangesPriority(k1, k, t, p)
    PROVE  /\ k.state[t] = "READY" => ToEnd(k1, k, t, p)
           /\ k.state[t] # "READY" => SameReady(k1, k)
           /\ WithPriority(k1, k, t, p) /\ k1.state = k.state
<1> DEFINE k0 == [k EXCEPT !.bpriority[t] = p]
<1>1. k \in KernelState /\ k0 \in KernelState
      /\ k0.que = k.que /\ k0.priority = k.priority /\ k0.state = k.state
  <2>1. k \in KernelState
    BY GoodType
  <2> QED BY <2>1 DEF KernelState
<1>0. k1 = IF k0.state[t] = "READY" THEN MoveReady(k0, t, p) ELSE [k0 EXCEPT !.priority[t] = p]
  BY DEF ChangesPriority
<1> HIDE DEF k0
<1>2. CASE k.state[t] = "READY"
  <2>1. k1 = MoveReady(k0, t, p)
    BY <1>0, <1>1, <1>2
  <2>2. t \in Task /\ p \in Pri
    OBVIOUS
  <2>3. ToEnd(k1, k0, t, p) /\ WithPriority(k1, k0, t, p) /\ k1.state = k0.state
    BY ONLY <1>1, <2>1, <2>2, MoveReadyEffect
  <2> QED BY <1>1, <1>2, <2>3 DEF ToEnd, WithPriority
<1>3. CASE k.state[t] # "READY"
  <2>1. k1 = [k0 EXCEPT !.priority[t] = p]
    BY <1>0, <1>1, <1>3
  <2>2. k1.que = k0.que /\ k1.state = k0.state /\ k1.priority = [k0.priority EXCEPT ![t] = p]
    BY <1>1, <2>1 DEF KernelState
  <2> QED BY <1>1, <1>3, <2>2 DEF SameReady, WithPriority
<1> QED BY <1>2, <1>3

(***************************************************************************)
(* The steps of Task.                                                      *)
(***************************************************************************)
\* No task that waited without a timeout is told that it timed out.
Honest(k1, k) ==
    \A t \in Task : k.state[t] \in WaitBit /\ ~k.wtmeb[t] /\ k1.state[t] \in {"READY", "SUSPEND"}
                    => k1.wercd[t] # "E_TMOUT"

\* What every step keeps.
Kept(k1) == (Precedence!Next \/ UNCHANGED Precedence!vars) /\ Honest(k1, kn)

\* A step that releases no wait.
LEMMA NoneReleased ==
    ASSUME NEW k, Good(k), NEW t \in Task, NEW s, NEW k1, k1.state = [k.state EXCEPT ![t] = s],
           k.state[t] \in WaitBit => s \notin {"READY", "SUSPEND"}
    PROVE  Honest(k1, k)
<1>1. k.state \in [Task -> TSTAT]
  BY GoodType
<1> QED BY <1>1 DEF Honest, WaitBit

LEMMA SameStates ==
    ASSUME NEW k, NEW k1, k1.state = k.state
    PROVE  Honest(k1, k)
  BY DEF Honest, WaitBit

\* A step that releases the wait of t.
LEMMA OneReleased ==
    ASSUME NEW k, Good(k), NEW t \in Task, NEW s, NEW ercd,
           k.wtmeb[t] \/ ercd # "E_TMOUT",
           NEW k1, k1.state = [k.state EXCEPT ![t] = s], k1.wercd = [k.wercd EXCEPT ![t] = ercd]
    PROVE  Honest(k1, k)
<1>1. k.state \in [Task -> TSTAT] /\ k.wercd \in [Task -> Ercd]
  BY GoodType DEF KernelState
<1> QED BY <1>1 DEF Honest, WaitBit

\* The new state is as good as the old one.
LEMMA NewState ==
    ASSUME IInv, IInv', NEW k1, kn' = k1
    PROVE  Step(k1)
<1>1. Good(kn) /\ Good(kn)'
  BY DEF IInv
<1>2. Good(k1)
  BY <1>1 DEF Good, Consistent, Place, RingOf
<1> QED BY <1>1, <1>2 DEF Step

LEMMA CallStep ==
    ASSUME IInv, IInv', NEW c, NEW k1, SystemCall(c, k1)
    PROVE  Step(k1) /\ UNCHANGED ctxtsk /\ Good(kn)
  BY NewState DEF SystemCall, IInv

LEMMA CreTskKept ==
    ASSUME IInv, IInv', NEW p \in Pri, CreTsk(p) PROVE Kept(kn')
<1> DEFINE k1 == CreateTcb(kn, p)
           t == Head(kn.que[FreeTcb])
<1>1. SystemCall("task", k1) /\ kn.que[FreeTcb] # <<>>
  BY DEF CreTsk
<1>2. /\ Good(kn) /\ t \in Task /\ kn.state[t] = "NONEXIST"
      /\ k1.state = [kn.state EXCEPT ![t] = "DORMANT"]
  BY <1>1, CreateTcbGood DEF IInv, Reset
<1>3. SameReady(k1, kn) /\ WithPriority(k1, kn, t, p)
  BY <1>1, <1>2, CreateEffect
<1>4. kn' = k1
  BY <1>1 DEF SystemCall
<1> HIDE DEF k1, t
<1>5. Step(k1) /\ UNCHANGED ctxtsk
  BY <1>1, CallStep
<1>6. Precedence!Next
  BY <1>2, <1>3, <1>5, Idles
<1>7. Honest(k1, kn)
  BY <1>2, NoneReleased
<1> QED BY <1>4, <1>6, <1>7 DEF Kept

LEMMA DelTskKept ==
    ASSUME IInv, IInv', NEW t \in Task, DelTsk(t) PROVE Kept(kn')
<1> DEFINE k1 == ReturnTcb(kn, t)
<1>1. SystemCall("task", k1) /\ kn.state[t] = "DORMANT"
  BY DEF DelTsk
<1>2. Good(kn) /\ kn \in KernelState
  BY GoodType DEF IInv
<1>3. /\ SameReady(k1, kn) /\ WithPriority(k1, kn, t, 0) /\ 0 \in Pri
      /\ k1.state = [kn.state EXCEPT ![t] = "NONEXIST"]
  BY <1>2, ReturnEffect
<1>4. kn' = k1
  BY <1>1 DEF SystemCall
<1> HIDE DEF k1
<1>5. Step(k1) /\ UNCHANGED ctxtsk
  BY <1>1, CallStep
<1>6. Precedence!Next
  BY <1>1, <1>3, <1>5, Idles
<1>7. Honest(k1, kn)
  BY <1>2, <1>3, NoneReleased
<1> QED BY <1>4, <1>6, <1>7 DEF Kept

\* A task ends: by itself, when its execution ends, or terminated by another.
LEMMA EndKept ==
    ASSUME Good(kn), NEW t \in Task, kn.state[t] \in Alive, NEW k1, Step(k1), kn' = k1,
           \/ k1 = MakeDormant(Detach(kn, t), t)
           \/ k1 = ReturnTcb(Detach(kn, t), t),
           UNCHANGED ctxtsk \/ (t = ctxtsk /\ ctxtsk' = NoTask /\ kn.state[t] = "READY")
    PROVE  Kept(kn')
<1>1. /\ kn.state[t] = "READY" => OutOfLine(k1, kn, t)
      /\ kn.state[t] # "READY" => SameReady(k1, kn)
      /\ \E p \in Pri : WithPriority(k1, kn, t, p)
      /\ \E s \in {"DORMANT", "NONEXIST"} : k1.state = [kn.state EXCEPT ![t] = s]
  BY EndEffect
<1>2. PICK p \in Pri : WithPriority(k1, kn, t, p)
  BY <1>1
<1>3. Precedence!Next
  <2>1. CASE kn.state[t] = "READY"
    BY <1>1, <1>2, <2>1, Leaves
  <2>2. CASE kn.state[t] # "READY"
    BY <1>1, <1>2, <2>2, Idles
  <2> QED BY <2>1, <2>2
<1>4. Honest(k1, kn)
  <2>1. PICK s \in {"DORMANT", "NONEXIST"} : k1.state = [kn.state EXCEPT ![t] = s]
    BY <1>1
  <2> QED BY <2>1, NoneReleased
<1> QED BY <1>3, <1>4 DEF Kept

LEMMA TerTskKept ==
    ASSUME IInv, IInv', NEW t \in Task, TerTsk(t) PROVE Kept(kn')
<1> DEFINE k1 == MakeDormant(Detach(kn, t), t)
<1>1. SystemCall("task", k1) /\ kn.state[t] \in Alive
  BY DEF TerTsk
<1>2. kn' = k1
  BY <1>1 DEF SystemCall
<1>3. Step(k1) /\ UNCHANGED ctxtsk /\ Good(kn)
  BY <1>1, CallStep
<1> QED BY <1>1, <1>2, <1>3, EndKept

LEMMA ExitKept ==
    ASSUME IInv, IInv', ExtTsk \/ ExdTsk PROVE Kept(kn')
<1> DEFINE t == ctxtsk
<1>1. InTask /\ ctxtsk' = NoTask
      /\ \/ kn' = MakeDormant(Detach(kn, t), t)
         \/ kn' = ReturnTcb(Detach(kn, t), t)
  BY DEF ExtTsk, ExdTsk, ForceDispatch
<1>2. t \in Task /\ kn.state[t] = "READY" /\ kn.state[t] \in Alive /\ Good(kn)
  BY <1>1, CallerIsReady DEF Alive, IInv
<1> DEFINE ka == MakeDormant(Detach(kn, t), t)
           kb == ReturnTcb(Detach(kn, t), t)
<1>3. CASE kn' = ka
  <2>1. Step(ka)
    BY <1>3, NewState
  <2> QED BY <1>1, <1>2, <1>3, <2>1, EndKept
<1>4. CASE kn' = kb
  <2>1. Step(kb)
    BY <1>4, NewState
  <2> QED BY <1>1, <1>2, <1>4, <2>1, EndKept
<1> QED BY <1>1, <1>3, <1>4

LEMMA StaTskKept ==
    ASSUME IInv, IInv', NEW c \in Caller, NEW t \in Task, StaTsk(c, t) PROVE Kept(kn')
<1> DEFINE k1 == MakeReady(kn, t)
<1>1. SystemCall(c, k1) /\ kn.state[t] = "DORMANT"
  BY DEF StaTsk
<1>2. kn' = k1 /\ kn \in KernelState
  BY <1>1, GoodType DEF SystemCall, IInv
<1>3. Step(k1) /\ UNCHANGED ctxtsk /\ Good(kn)
  BY <1>1, CallStep
<1>4. /\ ToEnd(k1, kn, t, kn.priority[t]) /\ k1.priority = kn.priority
      /\ k1.state = [kn.state EXCEPT ![t] = "READY"]
  <2>1. \A p \in Pri : Unlink(kn.que[p], t) = kn.que[p]
    BY <1>1, <1>3, EnteredRings
  <2> QED BY <1>2, <2>1, MakeReadyEffect
<1> HIDE DEF k1
<1>5. Precedence!Next
  BY <1>1, <1>3, <1>4, Enters
<1>6. Honest(k1, kn)
  BY <1>1, <1>3, <1>4, NoneReleased DEF WaitBit
<1> QED BY <1>2, <1>5, <1>6 DEF Kept

LEMMA ChgPriKept ==
    ASSUME IInv, IInv', NEW c \in Caller, NEW t \in Task, NEW p \in Pri, ChgPri(c, t, p)
    PROVE  Kept(kn')
<1> DEFINE k0 == [kn EXCEPT !.bpriority[t] = p]
           k1 == IF k0.state[t] = "READY" THEN MoveReady(k0, t, p)
                 ELSE [k0 EXCEPT !.priority[t] = p]
<1>1. SystemCall(c, k1)
  BY DEF ChgPri
<1>2. kn' = k1
  BY <1>1 DEF SystemCall
<1>3. Step(k1) /\ UNCHANGED ctxtsk /\ Good(kn)
  BY <1>1, CallStep
<1>4. /\ kn.state[t] = "READY" => ToEnd(k1, kn, t, p)
      /\ kn.state[t] # "READY" => SameReady(k1, kn)
      /\ WithPriority(k1, kn, t, p) /\ k1.state = kn.state
  <2>1. ChangesPriority(k1, kn, t, p) /\ t \in Task /\ p \in Pri
    BY DEF ChangesPriority
  <2> HIDE DEF k1
  <2> QED BY ONLY <1>3, <2>1, ChangePriorityEffect
<1> HIDE DEF k1
<1>5. Precedence!Next
  <2>1. CASE kn.state[t] = "READY"
    BY <1>3, <1>4, <2>1, Moves
  <2>2. CASE kn.state[t] # "READY"
    BY <1>3, <1>4, <2>2, Idles
  <2> QED BY <2>1, <2>2
<1> QED BY <1>2, <1>4, <1>5, SameStates DEF Kept

\* The rotation of an empty ring changes nothing.
LEMMA RotateKept ==
    ASSUME IInv, IInv', NEW c \in Caller, NEW p \in Pri, SystemCall(c, RotateReadyQueue(kn, p))
    PROVE  Kept(kn')
<1> DEFINE k1 == RotateReadyQueue(kn, p)
<1>1. kn' = k1
  BY DEF SystemCall
<1>2. Step(k1) /\ UNCHANGED ctxtsk /\ Good(kn)
  BY CallStep
<1>3. CASE kn.que[p] # <<>>
  <2>1. /\ ToEnd(k1, kn, Head(kn.que[p]), p) /\ k1.priority = kn.priority
        /\ k1.state = kn.state
    BY <1>2, <1>3, RotateEffect
  <2> HIDE DEF k1
  <2>2. Precedence!Next
    BY <1>2, <1>3, <2>1, Rotates
  <2> QED BY <1>1, <2>1, <2>2, SameStates DEF Kept
<1>4. CASE kn.que[p] = <<>>
  <2>1. k1.que = kn.que /\ k1.priority = kn.priority /\ k1.state = kn.state
    <3>1. kn \in KernelState
      BY <1>2, GoodType
    <3>2. k1 = Reschedule(kn)
      BY <1>4 DEF RotateReadyQueue, ReadyQueueRotate
    <3> HIDE DEF k1
    <3> QED BY <3>1, <3>2 DEF Reschedule, KernelState
  <2> HIDE DEF k1
  <2>2. UNCHANGED Precedence!vars
    BY <1>2, <2>1, Unchanged DEF SameReady
  <2> QED BY <1>1, <2>1, <2>2, SameStates DEF Kept
<1> QED BY <1>3, <1>4

LEMMA RotRdqRunKept ==
    ASSUME IInv, IInv', NEW c \in Caller, RotRdqRun(c) PROVE Kept(kn')
<1>1. CASE c = "hdr" /\ kn.schedtsk # NoTask
  <2>1. kn.top_priority \in Pri
    BY <1>1, TopInRing DEF IInv, Good, Consistent
  <2>2. SystemCall(c, RotateReadyQueue(kn, kn.top_priority))
    BY <1>1 DEF RotRdqRun, RotateReadyQueueRun
  <2> QED BY <2>1, <2>2, RotateKept
<1>2. CASE c = "hdr" /\ kn.schedtsk = NoTask
  <2>1. SystemCall(c, kn)
    BY <1>2 DEF RotRdqRun, RotateReadyQueueRun
  <2>2. Step(kn) /\ UNCHANGED ctxtsk /\ kn' = kn
    BY <2>1, CallStep DEF SystemCall
  <2>3. UNCHANGED Precedence!vars
    BY <2>2, Unchanged DEF SameReady
  <2> QED BY <2>2, <2>3, SameStates DEF Kept
<1>3. CASE c = "task"
  <2>1. kn.priority[ctxtsk] \in Pri
    BY <1>3, CallerIsReady, GoodType DEF CanCall, RotRdqRun, IInv
  <2>2. SystemCall(c, RotateReadyQueue(kn, kn.priority[ctxtsk]))
    BY <1>3 DEF RotRdqRun
  <2> QED BY <2>1, <2>2, RotateKept
<1> QED BY <1>1, <1>2, <1>3 DEF Caller

\* The wait of t is released, by a call or by the timer.
LEMMA ReleaseKept ==
    ASSUME IInv, IInv', NEW c \in Caller, NEW t \in Task, kn.state[t] \in WaitBit,
           NEW ercd \in Ercd, kn.wtmeb[t] \/ ercd # "E_TMOUT",
           SystemCall(c, WaitRelease(kn, t, ercd))
    PROVE  Kept(kn')
<1> DEFINE k1 == WaitRelease(kn, t, ercd)
<1>1. kn' = k1
  BY DEF SystemCall
<1>2. Step(k1) /\ UNCHANGED ctxtsk /\ Good(kn)
  BY CallStep
<1>3. /\ kn.state[t] = "WAIT" => ToEnd(k1, kn, t, kn.priority[t])
      /\ kn.state[t] # "WAIT" => SameReady(k1, kn)
      /\ k1.priority = kn.priority
      /\ k1.state = [kn.state EXCEPT ![t] = IF @ = "WAIT" THEN "READY" ELSE "SUSPEND"]
      /\ k1.wercd = [kn.wercd EXCEPT ![t] = ercd]
  BY <1>2, WaitReleaseEffect
<1> HIDE DEF k1
<1>4. Precedence!Next \/ UNCHANGED Precedence!vars
  <2>1. CASE kn.state[t] = "WAIT"
    BY <1>2, <1>3, <2>1, Enters
  <2>2. CASE kn.state[t] # "WAIT"
    BY <1>2, <1>3, <2>2, Unchanged
  <2> QED BY <2>1, <2>2
<1>5. Honest(k1, kn)
  BY <1>2, <1>3, OneReleased
<1> QED BY <1>1, <1>4, <1>5 DEF Kept

LEMMA RelWaiKept ==
    ASSUME IInv, IInv', NEW c \in Caller, NEW t \in Task, RelWai(c, t) PROVE Kept(kn')
  BY ReleaseKept DEF RelWai, Ercd

LEMMA TimerEventKept ==
    ASSUME IInv, IInv', NEW t \in Task, TimerEvent(t) PROVE Kept(kn')
<1>1. "hdr" \in Caller
  BY DEF Caller
<1>2. kn.state[t] \in WaitBit /\ kn.wtmeb[t]
  BY DEF TimerEvent, IInv, Counts, CountsOf
<1>3. kn.wercd[t] \in Ercd
  BY GoodType DEF IInv, KernelState
<1> QED BY <1>1, <1>2, <1>3, ReleaseKept DEF TimerEvent

LEMMA SusTskKept ==
    ASSUME IInv, IInv', NEW c \in Caller, NEW t \in Task, SusTsk(c, t) PROVE Kept(kn')
<1> DEFINE k1 == Suspend(kn, t)
           s == IF kn.state[t] \in {"READY", "SUSPEND"} THEN "SUSPEND" ELSE "WAITSUS"
<1>1. SystemCall(c, k1) /\ kn.state[t] \in Alive
  BY DEF SusTsk
<1>2. kn' = k1
  BY <1>1 DEF SystemCall
<1>3. Step(k1) /\ UNCHANGED ctxtsk /\ Good(kn)
  BY <1>1, CallStep
<1>4. /\ kn.state[t] = "READY" => OutOfLine(k1, kn, t)
      /\ kn.state[t] # "READY" => SameReady(k1, kn)
      /\ k1.priority = kn.priority
  BY <1>1, <1>3, SuspendEffect
<1>5. k1.state = [kn.state EXCEPT ![t] = s]
  BY <1>1, <1>3, SuspendGood
<1>6. kn.state[t] \in WaitBit => s = "WAITSUS"
  BY DEF WaitBit
<1> HIDE DEF k1, s
<1>7. Precedence!Next \/ UNCHANGED Precedence!vars
  <2>1. CASE kn.state[t] = "READY"
    <3>1. kn.priority[t] \in Pri /\ WithPriority(k1, kn, t, kn.priority[t])
      BY <1>3, <1>4, GoodType DEF WithPriority
    <3> QED BY <1>3, <1>4, <2>1, <3>1, Leaves
  <2>2. CASE kn.state[t] # "READY"
    BY <1>3, <1>4, <2>2, Unchanged
  <2> QED BY <2>1, <2>2
<1>8. Honest(k1, kn)
  BY <1>3, <1>5, <1>6, NoneReleased
<1> QED BY <1>2, <1>7, <1>8 DEF Kept

LEMMA ResumeKept ==
    ASSUME IInv, IInv', NEW c \in Caller, NEW t \in Task,
           kn.state[t] \in {"SUSPEND", "WAITSUS"}, NEW count \in Nat,
           SystemCall(c, Resume(kn, t, count))
    PROVE  Kept(kn')
<1> DEFINE k1 == Resume(kn, t, count)
<1>1. kn' = k1
  BY DEF SystemCall
<1>2. Step(k1) /\ UNCHANGED ctxtsk /\ Good(kn)
  BY CallStep
<1>3. /\ k1.priority = kn.priority
      /\ \/ SameReady(k1, kn)
         \/ ToEnd(k1, kn, t, kn.priority[t])
      /\ WaitsOn(k1, kn, t)
  BY <1>2, ResumeEffect
<1> HIDE DEF k1
<1>4. Precedence!Next \/ UNCHANGED Precedence!vars
  <2>1. CASE SameReady(k1, kn)
    BY <1>2, <1>3, <2>1, Unchanged
  <2>2. CASE ToEnd(k1, kn, t, kn.priority[t])
    BY <1>2, <1>3, <2>2, Enters
  <2> QED BY <1>3, <2>1, <2>2
<1>5. Honest(k1, kn)
  <2>1. PICK s : /\ k1.state = [kn.state EXCEPT ![t] = s]
                 /\ kn.state[t] \in WaitBit => s \in WaitBit
    BY <1>3 DEF WaitsOn
  <2> QED BY <1>2, <2>1, NoneReleased DEF WaitBit
<1> QED BY <1>1, <1>4, <1>5 DEF Kept

LEMMA RsmTskKept ==
    ASSUME IInv, IInv', NEW c \in Caller, NEW t \in Task, RsmTsk(c, t) PROVE Kept(kn')
<1>1. kn.suscnt[t] \in Nat /\ kn.suscnt[t] > 0
  BY CountFields DEF IInv, RsmTsk, Counts, CountsOf
<1> DEFINE n == kn.suscnt[t] - 1
<1>2. n \in Nat
  BY <1>1
<1>3. kn.state[t] \in {"SUSPEND", "WAITSUS"} /\ SystemCall(c, Resume(kn, t, n))
  BY DEF RsmTsk
<1> HIDE DEF n
<1> QED BY <1>2, <1>3, ResumeKept

LEMMA FrsmTskKept ==
    ASSUME IInv, IInv', NEW c \in Caller, NEW t \in Task, FrsmTsk(c, t) PROVE Kept(kn')
<1>1. 0 \in Nat
  OBVIOUS
<1> QED BY <1>1, ResumeKept DEF FrsmTsk

\* A call that touches neither ring, priority nor state.
LEMMA DataKept ==
    ASSUME IInv, IInv', NEW c \in Caller, NEW k1, SystemCall(c, k1),
           k1.que = kn.que, k1.priority = kn.priority, k1.state = kn.state
    PROVE  Kept(kn')
<1>1. Step(k1) /\ UNCHANGED ctxtsk /\ kn' = k1
  BY CallStep DEF SystemCall
<1>2. UNCHANGED Precedence!vars
  BY <1>1, Unchanged DEF SameReady
<1> QED BY <1>1, <1>2, SameStates DEF Kept

LEMMA WupcntData ==
    ASSUME IInv, NEW t \in Task, NEW n
    PROVE  LET k1 == [kn EXCEPT !.wupcnt[t] = n]
           IN  k1.que = kn.que /\ k1.priority = kn.priority /\ k1.state = kn.state
<1>1. kn \in KernelState
  BY GoodType DEF IInv
<1> QED BY <1>1 DEF KernelState

LEMMA WupTskKept ==
    ASSUME IInv, IInv', NEW c \in Caller, NEW t \in Task, WupTsk(c, t) PROVE Kept(kn')
<1>1. CASE kn.state[t] \in WaitBit /\ SystemCall(c, WaitRelease(kn, t, "E_OK"))
  BY <1>1, ReleaseKept DEF Ercd
<1>2. CASE SystemCall(c, [kn EXCEPT !.wupcnt[t] = @ + 1])
  <2> DEFINE k1 == [kn EXCEPT !.wupcnt[t] = kn.wupcnt[t] + 1]
  <2>1. k1.que = kn.que /\ k1.priority = kn.priority /\ k1.state = kn.state
    BY WupcntData
  <2>2. SystemCall(c, k1)
    BY <1>2
  <2> HIDE DEF k1
  <2> QED BY <2>1, <2>2, DataKept
<1> QED BY <1>1, <1>2 DEF WupTsk

LEMMA CanWupKept ==
    ASSUME IInv, IInv', NEW c \in Caller, NEW t \in Task, CanWup(c, t) PROVE Kept(kn')
<1> DEFINE k1 == [kn EXCEPT !.wupcnt[t] = 0]
<1>1. k1.que = kn.que /\ k1.priority = kn.priority /\ k1.state = kn.state
  BY WupcntData
<1>2. SystemCall(c, k1)
  BY DEF CanWup
<1> HIDE DEF k1
<1> QED BY <1>1, <1>2, DataKept

LEMMA BeginWaitKept ==
    ASSUME IInv, IInv', CanWait, NEW w \in WSpec, NEW ercd \in Ercd, NEW tmout,
           SystemCall("task", MakeWait([kn EXCEPT !.wspec[ctxtsk] = w, !.wercd[ctxtsk] = ercd],
                                       ctxtsk, tmout))
    PROVE  Kept(kn')
<1> DEFINE t == ctxtsk
           k1 == MakeWait([kn EXCEPT !.wspec[t] = w, !.wercd[t] = ercd], t, tmout)
<1>1. SystemCall("task", k1) /\ kn' = k1
  BY DEF SystemCall
<1>2. Step(k1) /\ UNCHANGED ctxtsk /\ Good(kn)
  BY <1>1, CallStep
<1>3. t \in Task /\ kn.state[t] = "READY"
  BY CallerIsReady DEF CanWait
<1>4. /\ OutOfLine(k1, kn, t) /\ k1.priority = kn.priority
      /\ k1.state = [kn.state EXCEPT ![t] = "WAIT"]
  <2>1. BeginsWait(k1, kn, t, w, ercd, tmout) /\ w \in WSpec /\ ercd \in Ercd
    BY DEF BeginsWait
  <2> HIDE DEF k1, t
  <2> QED BY ONLY <1>2, <1>3, <2>1, BeginWaitEffect
<1> HIDE DEF k1
<1>5. Precedence!Next
  <2>1. kn.priority[t] \in Pri /\ WithPriority(k1, kn, t, kn.priority[t])
    BY <1>2, <1>3, <1>4, GoodType DEF WithPriority
  <2> QED BY <1>2, <1>3, <1>4, <2>1, Leaves
<1>6. Honest(k1, kn)
  BY <1>2, <1>3, <1>4, NoneReleased
<1> QED BY <1>1, <1>5, <1>6 DEF Kept

LEMMA SlpTskKept ==
    ASSUME IInv, IInv', NEW tmout \in TMO, SlpTsk(tmout) PROVE Kept(kn')
<1>1. ctxtsk \in Task /\ CanWait /\ "task" \in Caller
  BY CallerIsReady DEF SlpTsk, CanWait, Caller
<1>2. CASE kn.wupcnt[ctxtsk] > 0
  <2> DEFINE k1 == [kn EXCEPT !.wupcnt[ctxtsk] = kn.wupcnt[ctxtsk] - 1]
  <2>1. k1.que = kn.que /\ k1.priority = kn.priority /\ k1.state = kn.state
    BY <1>1, WupcntData
  <2>2. SystemCall("task", k1)
    BY <1>2 DEF SlpTsk
  <2> HIDE DEF k1
  <2> QED BY <1>1, <2>1, <2>2, DataKept
<1>3. CASE ~(kn.wupcnt[ctxtsk] > 0)
  BY <1>1, <1>3, BeginWaitKept DEF SlpTsk, WSpec, Ercd
<1> QED BY <1>2, <1>3

LEMMA DlyTskKept == ASSUME IInv, IInv', DlyTsk PROVE Kept(kn')
  BY BeginWaitKept DEF DlyTsk, WSpec, Ercd

LEMMA TimerTickKept == ASSUME IInv, IInv', TimerTick PROVE Kept(kn')
  BY DataKept DEF TimerTick, Caller

\* Steps that leave the kernel state and the task in execution as they are.
LEMMA ControlKept ==
    ASSUME IInv, DisDsp \/ EnaDsp \/ CpuLock \/ CpuUnlock \/ UNCHANGED vars
    PROVE  Kept(kn')
<1>1. kn' = kn /\ ctxtsk' = ctxtsk
  BY DEF DisDsp, EnaDsp, CpuLock, CpuUnlock, vars
<1>2. UNCHANGED Precedence!vars
  BY <1>1 DEF Precedence!vars, Line, Ahead
<1> QED BY <1>1, <1>2, SameStates DEF Kept

LEMMA DispatchEntryKept == ASSUME IInv, IInv', DispatchEntry PROVE Kept(kn')
<1>1. kn' = kn /\ ctxtsk' = NoTask
  BY DEF DispatchEntry
<1>2. Step(kn)
  BY <1>1, NewState
<1>3. Precedence!Stop
  BY <1>1 DEF Precedence!Stop, Line, Ahead
<1>4. kn.schedtsk' = Precedence!First(Line(kn)', Ahead(kn)')
  BY <1>2, StepFacts
<1>5. Precedence!Next
  BY <1>3, <1>4 DEF Precedence!Next, Precedence!Change
<1> QED BY <1>1, <1>5, SameStates DEF Kept

LEMMA DispatchSwitchKept == ASSUME IInv, IInv', DispatchSwitch PROVE Kept(kn')
<1> DEFINE k1 == [kn EXCEPT !.wercd[kn.schedtsk] = "none"]
<1>1. /\ kn' = k1 /\ ctxtsk = NoTask /\ kn.schedtsk # NoTask /\ ctxtsk' = kn.schedtsk
      /\ kn \in KernelState
  BY GoodType DEF DispatchSwitch, IInv
<1>2. Step(k1)
  BY <1>1, NewState
<1>3. k1.que = kn.que /\ k1.priority = kn.priority /\ k1.state = kn.state
  BY <1>1 DEF KernelState
<1> HIDE DEF k1
<1>4. Line(k1) = Line(kn) /\ Ahead(k1) = Ahead(kn)
  BY <1>3, SameLine DEF SameReady
<1>5. kn.schedtsk = Precedence!First(Line(kn), Ahead(kn))
  BY <1>2, StepFacts
<1>6. Line(kn) # {}
  BY <1>1, <1>5 DEF Precedence!First
<1>7. Precedence!Start
  BY <1>1, <1>2, <1>3, <1>4, <1>5, <1>6, StepFacts DEF Precedence!Start
<1>8. kn.schedtsk' = Precedence!First(Line(kn)', Ahead(kn)')
  BY <1>2, StepFacts
<1>9. Precedence!Next
  BY <1>7, <1>8 DEF Precedence!Next, Precedence!Change
<1> QED BY <1>1, <1>3, <1>9, SameStates DEF Kept

LEMMA NextKept == ASSUME IInv, IInv', [Next]_vars PROVE Kept(kn')
<1>1. CASE TaskOp
  BY <1>1, CreTskKept, DelTskKept, TerTskKept, ExitKept, SlpTskKept, DlyTskKept, ControlKept
     DEF TaskOp
<1>2. CASE AnyOp
  <2> SUFFICES ASSUME NEW c \in Caller,
                      \/ \E t \in Task :
                          \/ StaTsk(c, t) \/ RelWai(c, t)
                          \/ SusTsk(c, t) \/ RsmTsk(c, t) \/ FrsmTsk(c, t)
                          \/ WupTsk(c, t) \/ CanWup(c, t)
                          \/ \E p \in Pri : ChgPri(c, t, p)
                      \/ \E p \in Pri : RotRdq(c, p)
                      \/ RotRdqRun(c)
               PROVE  Kept(kn')
    BY <1>2 DEF AnyOp
  <2>1. CASE \E p \in Pri : RotRdq(c, p)
    BY <2>1, RotateKept DEF RotRdq
  <2>2. CASE RotRdqRun(c)
    BY <2>2, RotRdqRunKept
  <2> QED BY <2>1, <2>2, StaTskKept, RelWaiKept, SusTskKept, RsmTskKept, FrsmTskKept,
             WupTskKept, CanWupKept, ChgPriKept
<1>3. CASE TimerTick \/ \E t \in Task : TimerEvent(t)
  BY <1>3, TimerTickKept, TimerEventKept
<1>4. CASE DispatchEntry \/ UNCHANGED vars
  BY <1>4, DispatchEntryKept, ControlKept
<1>5. CASE DispatchSwitch
  BY <1>5, DispatchSwitchKept
<1> QED BY <1>1, <1>2, <1>3, <1>4, <1>5 DEF Next

\* After start-up the initial task is alone in the line.
LEMMA InitAlone == Init => Precedence!Init
<1> SUFFICES ASSUME Init PROVE Precedence!Init
  OBVIOUS
<1> DEFINE k == InitKernel
           k1 == CreateTcb(k, 0)
<1>1. Good(kn) /\ kn = MakeReady(k1, 1) /\ ctxtsk = NoTask
  BY InitInvariant DEF IInv, Init
<1>2. /\ k.que[FreeTcb] # <<>> /\ Head(k.que[FreeTcb]) = 1 /\ 1 \in Task
      /\ Good(k) /\ 0 \in Pri
  BY FirstTcb, InitKernelGood, PriIsNatural DEF Pri
<1>3. \A t \in Task : k.state[t] = "NONEXIST"
  BY DEF InitKernel
<1> HIDE DEF k
<1>4. Good(k1) /\ k1.state = [k.state EXCEPT ![1] = "DORMANT"]
  <2>1. Good(k1) /\ Reset(k1, k, 1, "DORMANT")
    BY <1>2, CreateTcbGood
  <2> HIDE DEF k1
  <2> QED BY <2>1 DEF Reset
<1> HIDE DEF k1
<1>5. k.state \in [Task -> TSTAT] /\ k1 \in KernelState
  BY <1>2, <1>4, GoodType
<1>6. kn.state = [k1.state EXCEPT ![1] = "READY"]
  <2>1. k1.state[1] # "READY"
    BY <1>2, <1>4, <1>5
  <2>2. \A p \in Pri : Unlink(k1.que[p], 1) = k1.que[p]
    BY <1>2, <1>4, <2>1, EnteredRings
  <2>3. kn = MakeReady(k1, 1) /\ k1 \in KernelState /\ 1 \in Task
    BY <1>1, <1>2, <1>5
  <2> QED BY ONLY <2>2, <2>3, MakeReadyEffect
<1>7. \A t \in Task : kn.state[t] = "READY" <=> t = 1
  BY <1>2, <1>3, <1>4, <1>5, <1>6
<1>8. Line(kn) = {1} /\ kn.priority \in [Task -> Pri]
  BY <1>1, <1>2, <1>7, LineIsReady
<1>9. Ahead(kn) = {}
  <2>1. \A e \in Ahead(kn) : e[1] \in Task /\ e[2] \in Task /\ e = <<e[1], e[2]>>
    BY DEF Ahead
  <2>2. \A e \in Ahead(kn) : e[1] \in Line(kn) /\ e[2] \in Line(kn)
    BY DEF Ahead, Line, InOrder, InRing
  <2>3. SUFFICES ASSUME NEW e \in Ahead(kn) PROVE FALSE
    OBVIOUS
  <2>4. <<1, 1>> \in Ahead(kn)
    BY <1>8, <2>1, <2>2
  <2> QED BY <1>1, <1>2, <2>4, AheadAsymmetric
<1>10. kn.schedtsk = 1
  <2>1. kn.schedtsk = Precedence!First({1}, {})
    BY <1>1, <1>8, <1>9, SelectedIsFirst
  <2> QED BY <2>1 DEF Precedence!First
<1> QED BY <1>1, <1>2, <1>8, <1>9, <1>10 DEF Precedence!Init

\* The scheduler, with its rings, bitmap and cached priorities, implements the
\* line of tasks ordered by precedence: every system call, made by a task or a
\* handler, with dispatching enabled or not, every timeout and every dispatch
\* is a step of Precedence or leaves its variables alone.
THEOREM PrecedenceRefined == Spec => KeepsPrecedence
<1>1. Init => Precedence!Init
  BY InitAlone
<1>2. IInv /\ IInv' /\ [Next]_vars => [Precedence!Next]_Precedence!vars
  BY NextKept DEF Kept
<1> QED BY <1>1, <1>2, Invariance, PTL DEF Spec, KeepsPrecedence, Precedence!Spec

\* A task that waits without a timeout never gets E_TMOUT, however its wait
\* ends (wait.c, knl_wait_release_tmout).
THEOREM TimeoutsHonest == Spec => NoSpuriousTimeout
<1> DEFINE Silent ==
             \A t \in Task : /\ kn.state[t] \in WaitBit /\ ~kn.wtmeb[t]
                             /\ kn'.state[t] \in {"READY", "SUSPEND"}
                             => kn'.wercd[t] # "E_TMOUT"
<1>1. IInv /\ IInv' /\ [Next]_vars => [Silent]_vars
  BY NextKept DEF Kept, Honest
<1> HIDE DEF Silent
<1>2. Spec => [][Silent]_vars
  BY <1>1, Invariance, PTL DEF Spec
<1> QED BY <1>2 DEF Silent, NoSpuriousTimeout
=============================================================================
