--------------------------- MODULE TKernelProofs ---------------------------
(***************************************************************************)
(* What the operators of TKernel do to the rings, the ready queue and the  *)
(* scheduled task, for any number of tasks and priorities.                 *)
(***************************************************************************)
EXTENDS Task, SequenceFacts

(***************************************************************************)
(* Rings.  Linked(que, r): task t is in the rings whose heads are in r[t], *)
(* once in each, and in no other.                                          *)
(***************************************************************************)
Linked(que, r) ==
    /\ \A h \in QueHead, t \in Task : InRing(que[h], t) <=> h \in r[t]
    /\ \A h \in QueHead : IsInjective(que[h])

\* Unlinking a task from a ring removes it, and nothing else.
LEMMA UnlinkRing ==
    ASSUME NEW s \in Seq(Task), NEW t \in Task, IsInjective(s)
    PROVE  /\ Unlink(s, t) \in Seq(Task)
           /\ IsInjective(Unlink(s, t))
           /\ \A u \in Task : InRing(Unlink(s, t), u) <=> InRing(s, u) /\ u # t
           /\ ~InRing(s, t) => Unlink(s, t) = s
           /\ Unlink(s, t) # <<>> /\ Head(s) # t => Head(Unlink(s, t)) = Head(s)
<1> DEFINE n == Len(s)
<1>1. /\ n \in Nat /\ DOMAIN s = 1..n
      /\ \A j \in 1..n : s[j] \in Task
  BY LenProperties, ElementOfSeq
<1>2. CASE ~InRing(s, t)
  BY <1>1, <1>2 DEF Unlink, InRing
<1>3. CASE InRing(s, t)
  <2>1. PICK i \in 1..n : s[i] = t /\ Unlink(s, t) = RemoveAt(s, i)
    BY <1>1, <1>3 DEF Unlink, InRing
  <2> DEFINE r == RemoveAt(s, i)
  <2> HIDE DEF r
  <2>2. /\ r \in Seq(Task)
        /\ Len(r) = n - 1
        /\ \A j \in 1..n-1 : r[j] = IF j < i THEN s[j] ELSE s[j+1]
    BY RemoveAtIndex DEF r
  <2>3. DOMAIN r = 1..n-1
    BY <2>2, LenProperties
  <2>4. IsInjective(r)
    BY <1>1, <2>2, <2>3 DEF IsInjective
  <2>5. ASSUME NEW u \in Task
        PROVE  InRing(r, u) <=> InRing(s, u) /\ u # t
    <3>1. ASSUME InRing(r, u) PROVE InRing(s, u) /\ u # t
      <4>1. PICK j \in 1..n-1 : r[j] = u
        BY <3>1, <2>3 DEF InRing
      <4>2. CASE j < i
        <5>1. s[j] = u /\ j \in 1..n /\ j # i
          BY <1>1, <2>1, <2>2, <4>1, <4>2
        <5> QED BY <5>1, <1>1, <2>1 DEF InRing, IsInjective
      <4>3. CASE ~(j < i)
        <5>1. r[j] = s[j+1] /\ j + 1 \in 1..n /\ j + 1 # i
          BY <1>1, <2>1, <2>2, <4>1, <4>3
        <5> QED BY <5>1, <1>1, <2>1, <4>1 DEF InRing, IsInjective
      <4> QED BY <4>2, <4>3
    <3>2. ASSUME InRing(s, u), u # t PROVE InRing(r, u)
      <4>1. PICK j \in 1..n : s[j] = u
        BY <3>2, <1>1 DEF InRing
      <4>2. CASE j < i
        <5>1. j \in 1..n-1 /\ r[j] = u
          BY <1>1, <2>1, <2>2, <4>1, <4>2
        <5> QED BY <5>1, <2>3 DEF InRing
      <4>3. CASE i < j
        <5>1. j - 1 \in 1..n-1 /\ r[j-1] = u
          BY <1>1, <2>1, <2>2, <4>1, <4>3
        <5> QED BY <5>1, <2>3 DEF InRing
      <4> QED BY <4>1, <4>2, <4>3, <2>1, <3>2, <1>1
    <3> QED BY <3>1, <3>2
  <2>6. ASSUME r # <<>>, Head(s) # t PROVE Head(r) = Head(s)
    <3>1. Len(r) # 0
      BY <2>2, <2>6, EmptySeq
    <3>2. s # <<>>
      BY <1>1, <2>1
    <3>3. Head(s) = s[1] /\ Head(r) = r[1]
      BY <2>6, <3>2, <2>2
    <3> QED BY <3>1, <3>3, <1>1, <2>1, <2>2, <2>6
  <2> QED BY <2>1, <2>2, <2>4, <2>5, <2>6, <1>3 DEF r
<1> QED BY <1>2, <1>3

\* Queueing a task last adds it to the ring, and nothing else.
LEMMA AppendRing ==
    ASSUME NEW s \in Seq(Task), NEW t \in Task, IsInjective(s), ~InRing(s, t)
    PROVE  /\ Append(s, t) \in Seq(Task)
           /\ Append(s, t) # <<>>
           /\ IsInjective(Append(s, t))
           /\ \A u \in Task : InRing(Append(s, t), u) <=> InRing(s, u) \/ u = t
           /\ s # <<>> => Head(Append(s, t)) = Head(s)
           /\ s = <<>> => Head(Append(s, t)) = t
<1> DEFINE n == Len(s)
           r == Append(s, t)
<1>1. /\ n \in Nat /\ DOMAIN s = 1..n
      /\ \A j \in 1..n : s[j] \in Task
  BY LenProperties, ElementOfSeq
<1>2. /\ r \in Seq(Task) /\ r # <<>> /\ Len(r) = n + 1
      /\ \A j \in 1..n : r[j] = s[j]
      /\ r[n+1] = t
  BY AppendProperties
<1>3. DOMAIN r = 1..n+1
  BY <1>2, LenProperties
<1>4. /\ s # <<>> => Head(r) = Head(s)
      /\ s = <<>> => Head(r) = t
  BY HeadTailAppend
<1> HIDE DEF r
<1>5. IsInjective(r)
  BY <1>1, <1>2, <1>3 DEF IsInjective, InRing
<1>6. ASSUME NEW u \in Task
      PROVE  InRing(r, u) <=> InRing(s, u) \/ u = t
  <2>1. ASSUME InRing(r, u) PROVE InRing(s, u) \/ u = t
    <3>1. PICK j \in 1..n+1 : r[j] = u
      BY <2>1, <1>3 DEF InRing
    <3>2. CASE j = n+1
      BY <3>1, <3>2, <1>2
    <3>3. CASE j # n+1
      <4>1. j \in 1..n
        BY <3>3, <1>1
      <4> QED BY <4>1, <3>1, <1>1, <1>2 DEF InRing
    <3> QED BY <3>2, <3>3
  <2>2. ASSUME InRing(s, u) PROVE InRing(r, u)
    <3>1. PICK j \in 1..n : s[j] = u
      BY <2>2, <1>1 DEF InRing
    <3>2. j \in 1..n+1 /\ r[j] = u
      BY <3>1, <1>1, <1>2
    <3> QED BY <3>2, <1>3 DEF InRing
  <2>3. InRing(r, t)
    BY <1>1, <1>2, <1>3 DEF InRing
  <2> QED BY <2>1, <2>2, <2>3
<1> QED BY <1>2, <1>4, <1>5, <1>6 DEF r

\* Taking the first task from a ring removes it, and nothing else.
LEMMA TailRing ==
    ASSUME NEW s \in Seq(Task), s # <<>>, IsInjective(s)
    PROVE  /\ Head(s) \in Task /\ InRing(s, Head(s))
           /\ Tail(s) \in Seq(Task)
           /\ IsInjective(Tail(s))
           /\ \A u \in Task : InRing(Tail(s), u) <=> InRing(s, u) /\ u # Head(s)
<1> DEFINE n == Len(s)
           r == Tail(s)
<1>1. /\ n \in Nat /\ n > 0 /\ DOMAIN s = 1..n
      /\ \A j \in 1..n : s[j] \in Task
  BY LenProperties, ElementOfSeq, EmptySeq
<1>2. /\ r \in Seq(Task) /\ Len(r) = n - 1
      /\ \A j \in 1..n-1 : r[j] = s[j+1]
      /\ Head(s) \in Task
  BY HeadTailProperties
<1>3. DOMAIN r = 1..n-1
  BY <1>2, LenProperties
<1>4. Head(s) = s[1]
  OBVIOUS
<1> HIDE DEF r
<1>5. ASSUME NEW a \in 1..n-1, NEW b \in 1..n-1, r[a] = r[b]
      PROVE  a = b
  <2>1. /\ a+1 \in 1..n /\ b+1 \in 1..n
        /\ s[a+1] = s[b+1]
    BY <1>1, <1>2, <1>5
  <2>2. a+1 = b+1
    BY <1>1, <2>1 DEF IsInjective
  <2> QED BY <2>2
<1>6. ASSUME NEW u \in Task
      PROVE  InRing(r, u) <=> InRing(s, u) /\ u # s[1]
  <2>1. ASSUME InRing(r, u) PROVE InRing(s, u) /\ u # s[1]
    <3>1. PICK j \in 1..n-1 : r[j] = u
      BY <2>1, <1>3 DEF InRing
    <3>2. j+1 \in 1..n /\ s[j+1] = u /\ j+1 # 1
      BY <3>1, <1>1, <1>2
    <3> QED BY <3>2, <1>1 DEF InRing, IsInjective
  <2>2. ASSUME InRing(s, u), u # s[1] PROVE InRing(r, u)
    <3>1. PICK j \in 1..n : s[j] = u
      BY <2>2, <1>1 DEF InRing
    <3>2. j-1 \in 1..n-1 /\ r[j-1] = u
      BY <3>1, <2>2, <1>1, <1>2
    <3> QED BY <3>2, <1>3 DEF InRing
  <2> QED BY <2>1, <2>2
<1>7. InRing(s, s[1])
  BY <1>1 DEF InRing
<1>8. IsInjective(r)
  BY <1>3, <1>5 DEF IsInjective
<1> QED BY <1>2, <1>4, <1>6, <1>7, <1>8 DEF r

\* A rotation keeps the tasks of a ring.
LEMMA RotateRing ==
    ASSUME NEW s \in Seq(Task), s # <<>>, IsInjective(s)
    PROVE  /\ Append(Tail(s), Head(s)) \in Seq(Task)
           /\ Append(Tail(s), Head(s)) # <<>>
           /\ IsInjective(Append(Tail(s), Head(s)))
           /\ \A u \in Task : InRing(Append(Tail(s), Head(s)), u) <=> InRing(s, u)
<1>1. /\ Head(s) \in Task /\ InRing(s, Head(s))
      /\ Tail(s) \in Seq(Task)
      /\ IsInjective(Tail(s))
      /\ \A u \in Task : InRing(Tail(s), u) <=> InRing(s, u) /\ u # Head(s)
  BY TailRing
<1>2. ~InRing(Tail(s), Head(s))
  BY <1>1
<1>3. /\ Append(Tail(s), Head(s)) \in Seq(Task)
      /\ Append(Tail(s), Head(s)) # <<>>
      /\ IsInjective(Append(Tail(s), Head(s)))
      /\ \A u \in Task : InRing(Append(Tail(s), Head(s)), u) <=> InRing(Tail(s), u) \/ u = Head(s)
  BY <1>1, <1>2, AppendRing
<1> QED BY <1>1, <1>3

(***************************************************************************)
(* The family of all rings.                                                *)
(***************************************************************************)
Rings == [QueHead -> Seq(Task)]
Places == [Task -> SUBSET QueHead]

LEMMA QueRemoveLinked ==
    ASSUME NEW que \in Rings, NEW r \in Places, Linked(que, r), NEW t \in Task
    PROVE  /\ QueRemove(que, t) \in Rings
           /\ Linked(QueRemove(que, t), [r EXCEPT ![t] = {}])
           /\ \A h \in QueHead :
                 /\ h \notin r[t] => QueRemove(que, t)[h] = que[h]
                 /\ QueRemove(que, t)[h] # <<>> /\ Head(que[h]) # t
                       => Head(QueRemove(que, t)[h]) = Head(que[h])
<1> DEFINE new == QueRemove(que, t)
<1>1. new = [h \in QueHead |-> Unlink(que[h], t)]
  BY DEF QueRemove, Rings
<1>2. ASSUME NEW h \in QueHead
      PROVE  /\ new[h] \in Seq(Task)
             /\ IsInjective(new[h])
             /\ \A u \in Task : InRing(new[h], u) <=> InRing(que[h], u) /\ u # t
             /\ ~InRing(que[h], t) => new[h] = que[h]
             /\ new[h] # <<>> /\ Head(que[h]) # t => Head(new[h]) = Head(que[h])
  <2>1. que[h] \in Seq(Task) /\ IsInjective(que[h])
    BY DEF Linked, Rings
  <2> DEFINE s == que[h]
             u1 == Unlink(s, t)
  <2>2. /\ u1 \in Seq(Task)
        /\ IsInjective(u1)
        /\ \A u \in Task : InRing(u1, u) <=> InRing(s, u) /\ u # t
        /\ ~InRing(s, t) => u1 = s
        /\ u1 # <<>> /\ Head(s) # t => Head(u1) = Head(s)
    BY <2>1, UnlinkRing
  <2>3. new[h] = u1
    BY <1>1
  <2> QED BY ONLY <2>2, <2>3
<1> HIDE DEF new
<1>3. new \in Rings
  BY <1>1, <1>2 DEF Rings
<1>4. Linked(new, [r EXCEPT ![t] = {}])
  BY <1>2 DEF Linked, Places
<1>5. \A h \in QueHead : h \notin r[t] => ~InRing(que[h], t)
  BY DEF Linked
<1> QED BY <1>2, <1>3, <1>4, <1>5 DEF new

LEMMA QueInsertLinked ==
    ASSUME NEW que \in Rings, NEW r \in Places, Linked(que, r),
           NEW t \in Task, NEW h \in QueHead, r[t] = {}
    PROVE  /\ QueInsert(que, t, h) \in Rings
           /\ Linked(QueInsert(que, t, h), [r EXCEPT ![t] = {h}])
           /\ \A g \in QueHead \ {h} : QueInsert(que, t, h)[g] = que[g]
           /\ QueInsert(que, t, h)[h] # <<>>
           /\ que[h] # <<>> => Head(QueInsert(que, t, h)[h]) = Head(que[h])
           /\ que[h] = <<>> => Head(QueInsert(que, t, h)[h]) = t
<1> DEFINE new == QueInsert(que, t, h)
<1>1. new = [que EXCEPT ![h] = Append(que[h], t)]
  BY DEF QueInsert
<1>2. que[h] \in Seq(Task) /\ IsInjective(que[h]) /\ ~InRing(que[h], t)
  BY DEF Linked, Rings
<1>3. /\ Append(que[h], t) \in Seq(Task)
      /\ Append(que[h], t) # <<>>
      /\ IsInjective(Append(que[h], t))
      /\ \A u \in Task : InRing(Append(que[h], t), u) <=> InRing(que[h], u) \/ u = t
      /\ que[h] # <<>> => Head(Append(que[h], t)) = Head(que[h])
      /\ que[h] = <<>> => Head(Append(que[h], t)) = t
  BY <1>2, AppendRing
<1> HIDE DEF new
<1>4. new[h] = Append(que[h], t) /\ \A g \in QueHead \ {h} : new[g] = que[g]
  BY <1>1 DEF Rings
<1>5. new \in Rings
  BY <1>1, <1>3 DEF Rings
<1>6. ASSUME NEW g \in QueHead, NEW u \in Task
      PROVE  InRing(new[g], u) <=> g \in [r EXCEPT ![t] = {h}][u]
  <2>1. InRing(que[g], u) <=> g \in r[u]
    BY DEF Linked
  <2>2. CASE g = h
    BY <2>1, <2>2, <1>3, <1>4 DEF Places
  <2>3. CASE g # h
    BY <2>1, <2>3, <1>4 DEF Places
  <2> QED BY <2>2, <2>3
<1>7. \A g \in QueHead : IsInjective(new[g])
  BY <1>3, <1>4 DEF Linked
<1> QED BY <1>3, <1>4, <1>5, <1>6, <1>7 DEF new, Linked

\* The first task leaves the ring h, the only one it is in.
LEMMA TailLinked ==
    ASSUME NEW que \in Rings, NEW r \in Places, Linked(que, r),
           NEW h \in QueHead, que[h] # <<>>, r[Head(que[h])] = {h}
    PROVE  /\ Head(que[h]) \in Task
           /\ [que EXCEPT ![h] = Tail(@)] \in Rings
           /\ Linked([que EXCEPT ![h] = Tail(@)], [r EXCEPT ![Head(que[h])] = {}])
<1> DEFINE new == [que EXCEPT ![h] = Tail(que[h])]
           t == Head(que[h])
<1>1. que[h] \in Seq(Task) /\ IsInjective(que[h])
  BY DEF Linked, Rings
<1>2. /\ t \in Task /\ InRing(que[h], t)
      /\ Tail(que[h]) \in Seq(Task)
      /\ IsInjective(Tail(que[h]))
      /\ \A u \in Task : InRing(Tail(que[h]), u) <=> InRing(que[h], u) /\ u # t
  BY <1>1, TailRing
<1>3. new \in Rings
  BY <1>2 DEF Rings
<1>4. new[h] = Tail(que[h]) /\ \A g \in QueHead \ {h} : new[g] = que[g]
  BY DEF Rings
<1> HIDE DEF new, t
<1>5. ASSUME NEW g \in QueHead, NEW u \in Task
      PROVE  InRing(new[g], u) <=> g \in [r EXCEPT ![t] = {}][u]
  <2>1. InRing(que[g], u) <=> g \in r[u]
    BY DEF Linked
  <2>2. CASE g = h
    BY <2>1, <2>2, <1>2, <1>4 DEF Places
  <2>3. CASE g # h
    BY <2>1, <2>3, <1>4 DEF Places, t
  <2> QED BY <2>2, <2>3
<1>6. \A g \in QueHead : IsInjective(new[g])
  BY <1>2, <1>4 DEF Linked
<1> QED BY <1>2, <1>3, <1>5, <1>6 DEF new, t, Linked

LEMMA RotateLinked ==
    ASSUME NEW que \in Rings, NEW r \in Places, Linked(que, r),
           NEW h \in QueHead, que[h] # <<>>
    PROVE  /\ [que EXCEPT ![h] = Append(Tail(@), Head(@))] \in Rings
           /\ Linked([que EXCEPT ![h] = Append(Tail(@), Head(@))], r)
           /\ Append(Tail(que[h]), Head(que[h])) # <<>>
<1> DEFINE s == Append(Tail(que[h]), Head(que[h]))
           new == [que EXCEPT ![h] = s]
<1>1. que[h] \in Seq(Task) /\ IsInjective(que[h])
  BY DEF Linked, Rings
<1>2. /\ s \in Seq(Task) /\ s # <<>>
      /\ IsInjective(s)
      /\ \A u \in Task : InRing(s, u) <=> InRing(que[h], u)
  BY <1>1, RotateRing
<1> HIDE DEF s
<1>3. new \in Rings /\ new[h] = s /\ \A g \in QueHead \ {h} : new[g] = que[g]
  BY <1>2 DEF Rings
<1>4. Linked(new, r)
  <2> HIDE DEF new
  <2>1. ASSUME NEW g \in QueHead, NEW u \in Task
        PROVE  InRing(new[g], u) <=> g \in r[u]
    BY <1>2, <1>3 DEF Linked
  <2>2. \A g \in QueHead : IsInjective(new[g])
    BY <1>2, <1>3 DEF Linked
  <2> QED BY <2>1, <2>2 DEF Linked
<1> QED BY <1>2, <1>3, <1>4 DEF s

(***************************************************************************)
(* The kernel state.  Queued(k, r): the kernel lock is free, the tasks are *)
(* linked as r says, and the bitmap and top_priority describe the ready    *)
(* rings.  Consistent(k, r): besides, schedtsk is the task they select.    *)
(***************************************************************************)
KLockFree(k) ==
    k.klocktsk = NoTask /\ \A t \in Task : ~k.klocked[t] /\ ~k.klockwait[t]

ReadyExact(k) ==
    /\ k.bitmap = {p \in Pri : k.que[p] # <<>>}
    /\ k.top_priority \in k.bitmap \cup {NumPri}
    /\ \A p \in k.bitmap : k.top_priority <= p

Queued(k, r) ==
    /\ k \in KernelState
    /\ KLockFree(k)
    /\ r \in Places /\ Linked(k.que, r)
    /\ ReadyExact(k)

Consistent(k, r) == Queued(k, r) /\ k.schedtsk = ReadyQueueTop(k)

\* The fields a change of the ready queue leaves alone.
SameData(k1, k) ==
    /\ k1.priority = k.priority /\ k1.bpriority = k.bpriority /\ k1.ipriority = k.ipriority
    /\ k1.wupcnt = k.wupcnt /\ k1.suscnt = k.suscnt
    /\ k1.klocked = k.klocked /\ k1.klockwait = k.klockwait
    /\ k1.wspec = k.wspec /\ k1.wercd = k.wercd /\ k1.wtmeb = k.wtmeb

LEMMA PriIsNatural ==
    /\ NumPri \in Nat /\ NumPri > 0
    /\ Pri \subseteq Nat /\ Pri \subseteq QueHead /\ NumPri \notin Pri
    /\ FreeTcb \in QueHead /\ FreeTcb \notin Pri
    /\ \A p \in Pri : p < NumPri
    /\ NoTask \notin Task
  BY NumPriAssumption, NumTaskAssumption, QueueHeadAssumption DEF Pri, QueHead, Task, NoTask

\* The next set bit is the least one from pos on, NumPri if there is none.
LEMMA CalcTop ==
    ASSUME NEW bits \in SUBSET Pri, NEW pos \in Pri
    PROVE  /\ CalcTopPriority(bits, pos) \in {i \in bits : i >= pos} \cup {NumPri}
           /\ \A i \in bits : i >= pos => CalcTopPriority(bits, pos) <= i
<1> DEFINE S == {i \in bits : i >= pos} \cup {NumPri}
<1>1. S \subseteq Nat /\ S # {}
  BY PriIsNatural
<1>3. \E x \in S : \A y \in S : x <= y
  <2> HIDE DEF S
  <2> QED BY <1>1, LeastElement
<1>4. /\ CalcTopPriority(bits, pos) \in S
      /\ \A y \in S : CalcTopPriority(bits, pos) <= y
  <2>1. CalcTopPriority(bits, pos) = CHOOSE i \in S : \A j \in S : i <= j
    BY DEF CalcTopPriority
  <2> HIDE DEF S
  <2> QED BY <1>3, <2>1
<1> QED BY <1>4

\* The selected task is linked in the ready queue.
LEMMA TopInRing ==
    ASSUME NEW k, NEW r, Queued(k, r)
    PROVE  /\ ReadyQueueTop(k) =
                 IF k.top_priority \in Pri THEN Head(k.que[k.top_priority]) ELSE NoTask
           /\ k.top_priority \in Pri =>
                 /\ k.que[k.top_priority] # <<>>
                 /\ Head(k.que[k.top_priority]) \in Task
                 /\ k.top_priority \in r[Head(k.que[k.top_priority])]
<1>1. ReadyQueueTop(k) = IF k.top_priority \in Pri THEN Head(k.que[k.top_priority]) ELSE NoTask
  BY DEF Queued, KLockFree, ReadyQueueTop
<1>2. ASSUME k.top_priority \in Pri
      PROVE  /\ k.que[k.top_priority] # <<>>
             /\ Head(k.que[k.top_priority]) \in Task
             /\ k.top_priority \in r[Head(k.que[k.top_priority])]
  <2> DEFINE s == k.que[k.top_priority]
  <2>1. s # <<>>
    BY <1>2, PriIsNatural DEF Queued, ReadyExact
  <2>2. k.top_priority \in QueHead
    BY <1>2, PriIsNatural
  <2>3. s \in Seq(Task) /\ IsInjective(s)
    BY <2>2 DEF Queued, Linked, KernelState
  <2>4. Head(s) \in Task /\ InRing(s, Head(s))
    <3> HIDE DEF s
    <3> QED BY <2>1, <2>3, TailRing
  <2> QED BY <2>1, <2>2, <2>4 DEF Queued, Linked
<1> QED BY <1>1, <1>2

\* Selecting anew makes any queued state consistent.
LEMMA RescheduleConsistent ==
    ASSUME NEW k, NEW r, Queued(k, r)
    PROVE  /\ Consistent(Reschedule(k), r)
           /\ SameData(Reschedule(k), k)
           /\ Reschedule(k).state = k.state
<1> DEFINE k1 == Reschedule(k)
<1>1. k \in KernelState
  BY DEF Queued
<1>2. /\ k1.schedtsk = ReadyQueueTop(k)
      /\ k1.que = k.que /\ k1.bitmap = k.bitmap /\ k1.top_priority = k.top_priority
      /\ k1.klocktsk = k.klocktsk
      /\ SameData(k1, k) /\ k1.state = k.state
  BY <1>1 DEF Reschedule, KernelState, SameData
<1>3. ReadyQueueTop(k) \in Task \cup {NoTask}
  BY TopInRing
<1>4. k1 \in KernelState
  BY <1>1, <1>3 DEF Reschedule, KernelState
<1> HIDE DEF k1
<1>5. KLockFree(k1) /\ Linked(k1.que, r) /\ ReadyExact(k1) /\ r \in Places
  BY <1>2 DEF Queued, KLockFree, ReadyExact, SameData
<1>6. ReadyQueueTop(k1) = ReadyQueueTop(k)
  BY <1>2 DEF ReadyQueueTop
<1> QED BY <1>2, <1>4, <1>5, <1>6 DEF Consistent, Queued, k1

\* A task that is in no ring joins the ring of its priority as the last.
LEMMA InsertQueued ==
    ASSUME NEW k, NEW r, Queued(k, r), NEW t \in Task, r[t] = {}
    PROVE  LET p == k.priority[t]
               k1 == ReadyQueueInsert(k, t)
           IN  /\ Queued(k1, [r EXCEPT ![t] = {p}])
               /\ SameData(k1, k) /\ k1.state = k.state /\ k1.schedtsk = k.schedtsk
               /\ k1.top_priority = IF p < k.top_priority THEN p ELSE k.top_priority
               /\ \A g \in QueHead \ {p} : k1.que[g] = k.que[g]
               /\ k.que[p] # <<>> => Head(k1.que[p]) = Head(k.que[p])
               /\ k.que[p] = <<>> => Head(k1.que[p]) = t
<1> DEFINE p == k.priority[t]
           k1 == ReadyQueueInsert(k, t)
           r1 == [r EXCEPT ![t] = {p}]
<1>1. /\ k \in KernelState /\ k.klocktsk = NoTask /\ ~k.klocked[t]
      /\ k.que \in Rings /\ p \in Pri /\ p \in QueHead
      /\ r \in Places /\ Linked(k.que, r)
  BY PriIsNatural DEF Queued, KLockFree, KernelState, Rings
<1>2. /\ k1.que = QueInsert(k.que, t, p)
      /\ k1.bitmap = k.bitmap \cup {p}
      /\ k1.klocktsk = NoTask
      /\ k1.top_priority = IF p < k.top_priority THEN p ELSE k.top_priority
      /\ k1.schedtsk = k.schedtsk
      /\ k1.state = k.state
      /\ SameData(k1, k)
  BY <1>1 DEF ReadyQueueInsert, KernelState, SameData
<1>3. /\ k1.que \in Rings /\ Linked(k1.que, r1)
      /\ \A g \in QueHead \ {p} : k1.que[g] = k.que[g]
      /\ k1.que[p] # <<>>
      /\ k.que[p] # <<>> => Head(k1.que[p]) = Head(k.que[p])
      /\ k.que[p] = <<>> => Head(k1.que[p]) = t
  <2> DEFINE que == k.que
             new == QueInsert(que, t, p)
  <2>1. que \in Rings /\ r \in Places /\ Linked(que, r) /\ p \in QueHead
    BY <1>1
  <2> HIDE DEF p, que
  <2>2. /\ new \in Rings /\ Linked(new, [r EXCEPT ![t] = {p}])
        /\ \A g \in QueHead \ {p} : new[g] = que[g]
        /\ new[p] # <<>>
        /\ que[p] # <<>> => Head(new[p]) = Head(que[p])
        /\ que[p] = <<>> => Head(new[p]) = t
    BY <2>1, QueInsertLinked
  <2>3. k1.que = new
    BY <1>2 DEF que
  <2> HIDE DEF new, k1
  <2> QED BY <2>2, <2>3 DEF que
<1>4. k1 \in KernelState
  <2>1. QueInsert(k.que, t, p) \in [QueHead -> Seq(Task)]
    BY <1>2, <1>3 DEF Rings
  <2>2. k.bitmap \cup {p} \in SUBSET Pri
    BY <1>1 DEF KernelState
  <2>3. (IF p < k.top_priority THEN p ELSE k.top_priority) \in 0..NumPri
    BY <1>1, PriIsNatural DEF KernelState, Pri
  <2> QED BY <1>1, <2>1, <2>2, <2>3 DEF ReadyQueueInsert, KernelState
<1> HIDE DEF k1
<1>5. KLockFree(k1)
  BY <1>2 DEF Queued, KLockFree, SameData
<1>6. ReadyExact(k1)
  <2>1. k1.bitmap = {q \in Pri : k1.que[q] # <<>>}
    BY <1>1, <1>2, <1>3, PriIsNatural DEF Queued, ReadyExact
  <2>2. k1.top_priority \in k1.bitmap \cup {NumPri}
    BY <1>2 DEF Queued, ReadyExact
  <2>3. \A q \in k1.bitmap : k1.top_priority <= q
    BY <1>1, <1>2, PriIsNatural DEF Queued, ReadyExact, KernelState, Pri
  <2> QED BY <2>1, <2>2, <2>3 DEF ReadyExact
<1>7. r1 \in Places
  BY <1>1 DEF Places
<1> QED BY <1>2, <1>3, <1>4, <1>5, <1>6, <1>7 DEF Queued, k1

\* knl_make_ready puts a task that is in no ring last in the ring of its
\* priority, and selects it if its priority is the highest.
LEMMA MakeReadyConsistent ==
    ASSUME NEW k, NEW r, Consistent(k, r), NEW t \in Task, r[t] = {}
    PROVE  /\ Consistent(MakeReady(k, t), [r EXCEPT ![t] = {k.priority[t]}])
           /\ SameData(MakeReady(k, t), k)
           /\ MakeReady(k, t).state = [k.state EXCEPT ![t] = "READY"]
<1> DEFINE p == k.priority[t]
           k1 == ReadyQueueInsert(k, t)
           k2 == MakeReady(k, t)
           r1 == [r EXCEPT ![t] = {p}]
<1>1. /\ k \in KernelState /\ k.klocktsk = NoTask /\ p \in Pri
      /\ Queued(k, r) /\ k.schedtsk = ReadyQueueTop(k)
  BY DEF Consistent, Queued, KLockFree, KernelState
<1>2. /\ Queued(k1, r1)
      /\ SameData(k1, k) /\ k1.state = k.state /\ k1.schedtsk = k.schedtsk
      /\ k1.top_priority = IF p < k.top_priority THEN p ELSE k.top_priority
      /\ \A g \in QueHead \ {p} : k1.que[g] = k.que[g]
      /\ k.que[p] # <<>> => Head(k1.que[p]) = Head(k.que[p])
      /\ k.que[p] = <<>> => Head(k1.que[p]) = t
  BY <1>1, InsertQueued
<1>3. k2 = [k1 EXCEPT !.state[t] = "READY",
                      !.schedtsk = IF p < k.top_priority THEN t ELSE @]
  BY DEF MakeReady
<1> HIDE DEF k1, k2
<1>4. /\ k1 \in KernelState /\ KLockFree(k1) /\ r1 \in Places /\ Linked(k1.que, r1)
      /\ ReadyExact(k1)
  BY <1>2 DEF Queued
<1>5. /\ k2.que = k1.que /\ k2.bitmap = k1.bitmap /\ k2.top_priority = k1.top_priority
      /\ k2.klocktsk = k1.klocktsk
      /\ k2.schedtsk = IF p < k.top_priority THEN t ELSE k.schedtsk
      /\ k2.state = [k.state EXCEPT ![t] = "READY"]
      /\ SameData(k2, k)
      /\ k2 \in KernelState
  BY <1>2, <1>3, <1>4 DEF KernelState, SameData, TSTAT
<1>6. Queued(k2, r1)
  BY <1>2, <1>4, <1>5 DEF Queued, KLockFree, ReadyExact, SameData
<1>7. k2.schedtsk = ReadyQueueTop(k2)
  <2>1. ReadyQueueTop(k2) =
          IF k2.top_priority \in Pri THEN Head(k2.que[k2.top_priority]) ELSE NoTask
    BY <1>6, TopInRing
  <2>2. k.schedtsk = IF k.top_priority \in Pri THEN Head(k.que[k.top_priority]) ELSE NoTask
    BY <1>1, TopInRing
  <2>3. CASE p < k.top_priority
    <3>1. k.que[p] = <<>>
      BY <2>3, <1>1, PriIsNatural DEF Queued, ReadyExact, Pri, KernelState
    <3> QED BY <2>1, <2>3, <3>1, <1>1, <1>2, <1>5
  <2>4. CASE ~(p < k.top_priority)
    <3>1. k.top_priority \in Pri
      BY <2>4, <1>1, PriIsNatural DEF Queued, ReadyExact, Pri, KernelState
    <3>2. k.que[k.top_priority] # <<>>
      BY <1>1, <3>1, TopInRing
    <3>3. Head(k1.que[k.top_priority]) = Head(k.que[k.top_priority])
      <4>1. CASE k.top_priority = p
        BY <4>1, <3>2, <1>2
      <4>2. CASE k.top_priority # p
        BY <4>2, <3>1, <1>2, PriIsNatural
      <4> QED BY <4>1, <4>2
    <3> QED BY <2>1, <2>2, <2>4, <3>1, <3>3, <1>2, <1>5
  <2> QED BY <2>3, <2>4
<1> QED BY <1>5, <1>6, <1>7 DEF Consistent, k2

\* A READY task leaves the ready queue; the first of the highest priority
\* remains the first unless it is the one that leaves.
LEMMA DeleteQueued ==
    ASSUME NEW k, NEW r, Queued(k, r), NEW t \in Task, r[t] = {k.priority[t]}
    PROVE  LET k1 == ReadyQueueDelete(k, t)
           IN  /\ Queued(k1, [r EXCEPT ![t] = {}])
               /\ SameData(k1, k) /\ k1.state = k.state /\ k1.schedtsk = k.schedtsk
               /\ ReadyQueueTop(k) # t => ReadyQueueTop(k1) = ReadyQueueTop(k)
<1> DEFINE p == k.priority[t]
           q == QueRemove(k.que, t)
           bits == k.bitmap \ {p}
           top == IF p = k.top_priority THEN CalcTopPriority(bits, p) ELSE k.top_priority
           k1 == ReadyQueueDelete(k, t)
           r1 == [r EXCEPT ![t] = {}]
<1>1. /\ k \in KernelState /\ k.klocktsk = NoTask /\ ~k.klockwait[t]
      /\ k.que \in Rings /\ p \in Pri /\ p \in QueHead
      /\ r \in Places /\ Linked(k.que, r) /\ ReadyExact(k)
  BY PriIsNatural DEF Queued, KLockFree, KernelState, Rings
<1>2. k1 = IF q[p] # <<>> THEN [k EXCEPT !.que = q, !.klocktsk = NoTask]
           ELSE [k EXCEPT !.que = q, !.klocktsk = NoTask, !.bitmap = bits, !.top_priority = top]
  <2>1. /\ NoTask = IF k.klocktsk = t THEN NoTask ELSE k.klocktsk
        /\ [k EXCEPT !.que = q, !.klocktsk = NoTask].bitmap = k.bitmap
        /\ [k EXCEPT !.que = q, !.klocktsk = NoTask].top_priority = k.top_priority
    BY <1>1 DEF KernelState
  <2> QED BY <1>1, <2>1 DEF ReadyQueueDelete
<1>3. /\ q \in Rings /\ Linked(q, r1)
      /\ \A h \in QueHead : h # p => q[h] = k.que[h]
      /\ q[p] # <<>> /\ Head(k.que[p]) # t => Head(q[p]) = Head(k.que[p])
  <2> DEFINE que == k.que
             new == QueRemove(que, t)
  <2>1. que \in Rings /\ r \in Places /\ Linked(que, r)
    BY <1>1
  <2> HIDE DEF que
  <2>2. /\ new \in Rings /\ Linked(new, [r EXCEPT ![t] = {}])
        /\ \A h \in QueHead :
              /\ h \notin r[t] => new[h] = que[h]
              /\ new[h] # <<>> /\ Head(que[h]) # t => Head(new[h]) = Head(que[h])
    BY <2>1, QueRemoveLinked
  <2>3. q = new
    BY DEF que
  <2> HIDE DEF new, q
  <2> QED BY <1>1, <2>2, <2>3 DEF que
<1>4. k.que[p] # <<>>
  BY <1>1 DEF Linked, InRing
<1>5. /\ p \in k.bitmap /\ k.top_priority \in Pri /\ k.top_priority <= p
      /\ k.bitmap = {g \in Pri : k.que[g] # <<>>}
  <2>1. k.bitmap = {g \in Pri : k.que[g] # <<>>}
    BY <1>1 DEF ReadyExact
  <2>2. p \in k.bitmap
    BY <1>1, <1>4, <2>1
  <2>3. k.top_priority <= p /\ k.top_priority \in k.bitmap \cup {NumPri}
    BY <1>1, <2>2 DEF ReadyExact
  <2>4. k.top_priority # NumPri
    <3> HIDE DEF p
    <3>1. p \in Nat /\ p < NumPri /\ NumPri \in Nat
      BY <1>1, PriIsNatural
    <3> QED BY <2>3, <3>1
  <2> QED BY <2>1, <2>2, <2>3, <2>4
<1> HIDE DEF q
<1>6. /\ bits \in SUBSET Pri
      /\ q[p] = <<>> => bits = {g \in Pri : q[g] # <<>>}
      /\ q[p] # <<>> => k.bitmap = {g \in Pri : q[g] # <<>>}
  BY <1>1, <1>3, <1>5, PriIsNatural
<1>7. /\ top \in bits \cup {NumPri}
      /\ \A g \in bits : top <= g
  <2>1. /\ CalcTopPriority(bits, p) \in {i \in bits : i >= p} \cup {NumPri}
        /\ \A i \in bits : i >= p => CalcTopPriority(bits, p) <= i
    <3> HIDE DEF bits, p
    <3> QED BY <1>1, <1>6, CalcTop
  <2>2. \A g \in bits : g \in Nat /\ k.top_priority <= g
    BY <1>1, <1>5, PriIsNatural DEF ReadyExact
  <2>3. CASE p = k.top_priority
    BY <2>1, <2>2, <2>3, <1>1, PriIsNatural
  <2>4. CASE p # k.top_priority
    BY <2>2, <2>4, <1>1, <1>5, PriIsNatural DEF ReadyExact
  <2> QED BY <2>3, <2>4
<1>8. top \in 0..NumPri
  BY <1>6, <1>7, PriIsNatural DEF Pri
<1> HIDE DEF top, bits
<1>9. /\ k1.que = q /\ k1.klocktsk = NoTask
      /\ k1.bitmap = IF q[p] # <<>> THEN k.bitmap ELSE bits
      /\ k1.top_priority = IF q[p] # <<>> THEN k.top_priority ELSE top
      /\ SameData(k1, k) /\ k1.state = k.state /\ k1.schedtsk = k.schedtsk
      /\ k1 \in KernelState
  <2>1. q \in [QueHead -> Seq(Task)] /\ NoTask \in Task \cup {NoTask}
    BY <1>3 DEF Rings
  <2> HIDE DEF k1, p
  <2>2. CASE q[p] # <<>>
    <3>1. k1 = [k EXCEPT !.que = q, !.klocktsk = NoTask]
      BY <1>2, <2>2
    <3> QED BY <1>1, <2>1, <2>2, <3>1 DEF KernelState, SameData
  <2>3. CASE q[p] = <<>>
    <3>1. k1 = [k EXCEPT !.que = q, !.klocktsk = NoTask, !.bitmap = bits, !.top_priority = top]
      BY <1>2, <2>3
    <3> QED BY <1>1, <1>6, <1>8, <2>1, <2>3, <3>1 DEF KernelState, SameData
  <2> QED BY <2>2, <2>3
<1> HIDE DEF k1
<1>10. ReadyExact(k1)
  <2>1. CASE q[p] # <<>>
    BY <1>1, <1>6, <1>9, <2>1 DEF ReadyExact
  <2>2. CASE q[p] = <<>>
    BY <1>6, <1>7, <1>9, <2>2 DEF ReadyExact
  <2> QED BY <2>1, <2>2
<1>11. Queued(k1, r1)
  BY <1>1, <1>3, <1>9, <1>10 DEF Queued, KLockFree, SameData, Places
<1>12. ASSUME ReadyQueueTop(k) # t PROVE ReadyQueueTop(k1) = ReadyQueueTop(k)
  <2>1. /\ ReadyQueueTop(k) = Head(k.que[k.top_priority])
        /\ ReadyQueueTop(k1) =
             IF k1.top_priority \in Pri THEN Head(k1.que[k1.top_priority]) ELSE NoTask
    BY <1>5, <1>11, TopInRing
  <2>2. CASE k.top_priority # p
    <3>1. k1.top_priority = k.top_priority
      BY <1>9, <2>2 DEF top
    <3>2. q[k.top_priority] = k.que[k.top_priority]
      BY <1>3, <1>5, <2>2, PriIsNatural
    <3> QED BY <2>1, <3>1, <3>2, <1>5, <1>9
  <2>3. CASE k.top_priority = p
    <3>1. Head(k.que[p]) # t
      BY <1>12, <2>1, <2>3
    <3>2. q[p] # <<>>
      <4> DEFINE s == k.que[p]
      <4>1. s \in Seq(Task) /\ s # <<>> /\ IsInjective(s)
        BY <1>1, <1>4 DEF Linked, Rings
      <4>2. Head(s) \in Task /\ InRing(s, Head(s))
        <5> HIDE DEF s
        <5> QED BY <4>1, TailRing
      <4>3. p \in r[Head(s)] /\ Head(s) # t
        BY <1>1, <4>2, <3>1 DEF Linked
      <4>4. InRing(q[p], Head(s))
        BY <1>1, <1>3, <4>2, <4>3 DEF Linked, Places
      <4> QED BY <4>4 DEF InRing
    <3> QED BY <2>1, <2>3, <3>1, <3>2, <1>3, <1>5, <1>9
  <2> QED BY <2>2, <2>3
<1> QED BY <1>9, <1>11, <1>12 DEF k1

\* knl_make_non_ready takes a READY task from the ready queue and selects
\* another task if it was the selected one.
LEMMA MakeNonReadyConsistent ==
    ASSUME NEW k, NEW r, Consistent(k, r), NEW t \in Task, r[t] = {k.priority[t]}
    PROVE  /\ Consistent(MakeNonReady(k, t), [r EXCEPT ![t] = {}])
           /\ SameData(MakeNonReady(k, t), k)
           /\ MakeNonReady(k, t).state = k.state
<1> DEFINE k1 == ReadyQueueDelete(k, t)
           r1 == [r EXCEPT ![t] = {}]
<1>1. Queued(k, r) /\ k.schedtsk = ReadyQueueTop(k)
  BY DEF Consistent
<1>2. /\ Queued(k1, r1)
      /\ SameData(k1, k) /\ k1.state = k.state /\ k1.schedtsk = k.schedtsk
      /\ ReadyQueueTop(k) # t => ReadyQueueTop(k1) = ReadyQueueTop(k)
  BY <1>1, DeleteQueued
<1>3. MakeNonReady(k, t) = IF k1.schedtsk = t THEN Reschedule(k1) ELSE k1
  BY DEF MakeNonReady
<1> HIDE DEF k1, r1
<1>4. /\ Consistent(Reschedule(k1), r1)
      /\ SameData(Reschedule(k1), k1)
      /\ Reschedule(k1).state = k1.state
  BY <1>2, RescheduleConsistent
<1>5. CASE k1.schedtsk = t
  BY <1>2, <1>3, <1>4, <1>5 DEF SameData, r1
<1>6. CASE k1.schedtsk # t
  BY <1>1, <1>2, <1>3, <1>6 DEF Consistent, r1
<1> QED BY <1>5, <1>6

\* knl_change_task_priority moves a READY task to the end of the ring of its
\* new priority and selects anew.
LEMMA MoveReadyConsistent ==
    ASSUME NEW k, NEW r, Consistent(k, r), NEW t \in Task, r[t] = {k.priority[t]},
           NEW p \in Pri
    PROVE  /\ Consistent(MoveReady(k, t, p), [r EXCEPT ![t] = {p}])
           /\ MoveReady(k, t, p).priority = [k.priority EXCEPT ![t] = p]
           /\ MoveReady(k, t, p).state = k.state
           /\ MoveReady(k, t, p).wupcnt = k.wupcnt
           /\ MoveReady(k, t, p).suscnt = k.suscnt
           /\ MoveReady(k, t, p).wspec = k.wspec
           /\ MoveReady(k, t, p).wtmeb = k.wtmeb
<1> DEFINE k1 == ReadyQueueDelete(k, t)
           r1 == [r EXCEPT ![t] = {}]
           k2 == [k1 EXCEPT !.priority[t] = p]
           k3 == ReadyQueueInsert(k2, t)
<1>1. /\ Queued(k1, r1)
      /\ SameData(k1, k) /\ k1.state = k.state
  BY DeleteQueued DEF Consistent
<1> HIDE DEF k1
<1>2. /\ Queued(k2, r1)
      /\ k2.priority = [k.priority EXCEPT ![t] = p] /\ k2.state = k.state
      /\ k2.priority[t] = p
      /\ k2.wupcnt = k.wupcnt /\ k2.suscnt = k.suscnt
      /\ k2.wspec = k.wspec /\ k2.wtmeb = k.wtmeb
  BY <1>1 DEF Queued, KLockFree, ReadyExact, SameData, KernelState
<1>3. r \in Places /\ r1[t] = {}
  BY DEF Consistent, Queued, Places
<1> HIDE DEF k2
<1>4. /\ Queued(k3, [r1 EXCEPT ![t] = {p}])
      /\ SameData(k3, k2) /\ k3.state = k2.state
  <2> HIDE DEF r1
  <2>1. Queued(k2, r1) /\ r1[t] = {}
    BY <1>2, <1>3
  <2>2. /\ Queued(k3, [r1 EXCEPT ![t] = {k2.priority[t]}])
        /\ SameData(k3, k2) /\ k3.state = k2.state
    BY <2>1, InsertQueued
  <2> QED BY <1>2, <2>2
<1>5. [r1 EXCEPT ![t] = {p}] = [r EXCEPT ![t] = {p}]
  BY <1>3 DEF Places
<1> HIDE DEF k3, r1
<1>6. /\ Consistent(Reschedule(k3), [r EXCEPT ![t] = {p}])
      /\ SameData(Reschedule(k3), k3)
      /\ Reschedule(k3).state = k3.state
  BY <1>4, <1>5, RescheduleConsistent
<1>7. MoveReady(k, t, p) = Reschedule(k3)
  BY DEF MoveReady, k1, k2, k3
<1> QED BY <1>2, <1>4, <1>6, <1>7 DEF SameData

\* A rotation of a ready ring.
LEMMA RotateConsistent ==
    ASSUME NEW k, NEW r, Consistent(k, r), NEW p \in Pri
    PROVE  /\ Consistent(RotateReadyQueue(k, p), r)
           /\ SameData(RotateReadyQueue(k, p), k)
           /\ RotateReadyQueue(k, p).state = k.state
<1> DEFINE k1 == ReadyQueueRotate(k, p)
<1>1. k \in KernelState /\ k.que \in Rings /\ p \in QueHead
  BY PriIsNatural DEF Consistent, Queued, KernelState, Rings
<1>2. Queued(k1, r) /\ SameData(k1, k) /\ k1.state = k.state
  <2>1. CASE k.que[p] = <<>>
    BY <2>1 DEF ReadyQueueRotate, Consistent, SameData
  <2>2. CASE k.que[p] # <<>>
    <3> DEFINE que == k.que
               s == Append(Tail(que[p]), Head(que[p]))
               new == [que EXCEPT ![p] = s]
    <3>1. que \in Rings /\ r \in Places /\ Linked(que, r) /\ que[p] # <<>>
      BY <1>1, <2>2 DEF Consistent, Queued
    <3> HIDE DEF que
    <3>2. new \in Rings /\ Linked(new, r) /\ s # <<>>
      BY <1>1, <3>1, RotateLinked
    <3>3. k1 = [k EXCEPT !.que = new]
      BY <2>2 DEF ReadyQueueRotate, que
    <3>4. \A h \in QueHead : new[h] # <<>> <=> que[h] # <<>>
      BY <1>1, <3>1, <3>2 DEF Rings
    <3> HIDE DEF new, k1
    <3>5. /\ k1 \in KernelState /\ SameData(k1, k) /\ k1.state = k.state
          /\ k1.que = new /\ k1.bitmap = k.bitmap /\ k1.top_priority = k.top_priority
          /\ k1.klocktsk = k.klocktsk
      BY <1>1, <3>2, <3>3 DEF KernelState, SameData, Rings
    <3>6. {g \in Pri : new[g] # <<>>} = {g \in Pri : que[g] # <<>>}
      BY <3>4, PriIsNatural
    <3> QED
      BY <3>2, <3>5, <3>6 DEF Consistent, Queued, KLockFree, ReadyExact, SameData, que
  <2> QED BY <2>1, <2>2
<1>3. RotateReadyQueue(k, p) = Reschedule(k1)
  BY DEF RotateReadyQueue
<1> HIDE DEF k1
<1>4. /\ Consistent(Reschedule(k1), r)
      /\ SameData(Reschedule(k1), k1)
      /\ Reschedule(k1).state = k1.state
  BY <1>2, RescheduleConsistent
<1> QED BY <1>2, <1>3, <1>4 DEF SameData

\* A change outside the ready queue and the kernel lock.
LEMMA OtherRings ==
    ASSUME NEW k, NEW r, Consistent(k, r),
           NEW k1 \in KernelState, KLockFree(k1),
           NEW r1 \in Places, Linked(k1.que, r1),
           \A p \in Pri : k1.que[p] = k.que[p],
           k1.bitmap = k.bitmap, k1.top_priority = k.top_priority,
           k1.klocktsk = k.klocktsk, k1.schedtsk = k.schedtsk
    PROVE  Consistent(k1, r1)
<1>1. ReadyExact(k1)
  <2>1. {p \in Pri : k1.que[p] # <<>>} = {p \in Pri : k.que[p] # <<>>}
    OBVIOUS
  <2> QED BY <2>1 DEF Consistent, Queued, ReadyExact
<1>2. ReadyQueueTop(k1) = ReadyQueueTop(k)
  BY DEF ReadyQueueTop
<1> QED BY <1>1, <1>2 DEF Consistent, Queued

\* knl_wait_cancel of a task that is in no ready ring.
LEMMA WaitCancelConsistent ==
    ASSUME NEW k, NEW r, Consistent(k, r), NEW t \in Task, r[t] \cap Pri = {}
    PROVE  LET k1 == WaitCancel(k, t)
           IN  /\ Consistent(k1, [r EXCEPT ![t] = {}])
               /\ k1.state = k.state /\ k1.wtmeb = [k.wtmeb EXCEPT ![t] = FALSE]
               /\ k1.priority = k.priority /\ k1.bpriority = k.bpriority
               /\ k1.ipriority = k.ipriority
               /\ k1.wupcnt = k.wupcnt /\ k1.suscnt = k.suscnt
               /\ k1.wspec = k.wspec /\ k1.wercd = k.wercd
<1> DEFINE que == k.que
           new == QueRemove(que, t)
           k1 == WaitCancel(k, t)
<1>1. /\ k \in KernelState /\ KLockFree(k)
      /\ que \in Rings /\ r \in Places /\ Linked(que, r)
  BY DEF Consistent, Queued, KernelState, Rings
<1>2. /\ new \in Rings /\ Linked(new, [r EXCEPT ![t] = {}])
      /\ \A h \in QueHead : h \notin r[t] => new[h] = que[h]
  <2> HIDE DEF que
  <2> QED BY <1>1, QueRemoveLinked
<1>3. k1 = [k EXCEPT !.wtmeb[t] = FALSE, !.que = new]
  BY DEF WaitCancel
<1> HIDE DEF k1, new
<1>4. /\ k1 \in KernelState /\ k1.que = new
      /\ k1.klocked = k.klocked /\ k1.klockwait = k.klockwait /\ k1.klocktsk = k.klocktsk
      /\ k1.bitmap = k.bitmap /\ k1.top_priority = k.top_priority /\ k1.schedtsk = k.schedtsk
      /\ k1.state = k.state /\ k1.wtmeb = [k.wtmeb EXCEPT ![t] = FALSE]
      /\ k1.priority = k.priority /\ k1.bpriority = k.bpriority
      /\ k1.ipriority = k.ipriority
      /\ k1.wupcnt = k.wupcnt /\ k1.suscnt = k.suscnt
      /\ k1.wspec = k.wspec /\ k1.wercd = k.wercd
  BY <1>1, <1>2, <1>3 DEF KernelState, Rings
<1>5. KLockFree(k1) /\ [r EXCEPT ![t] = {}] \in Places
  BY <1>1, <1>4 DEF KLockFree, Places
<1>6. \A p \in Pri : k1.que[p] = k.que[p]
  BY <1>2, <1>4, PriIsNatural
<1>7. Consistent(k1, [r EXCEPT ![t] = {}])
  BY <1>2, <1>4, <1>5, <1>6, OtherRings
<1> QED BY <1>4, <1>7 DEF k1

\* knl_make_dormant links nothing and unlinks nothing.
LEMMA MakeDormantConsistent ==
    ASSUME NEW k, NEW r, Consistent(k, r), NEW t \in Task
    PROVE  LET k1 == MakeDormant(k, t)
           IN  /\ Consistent(k1, r)
               /\ k1.state = [k.state EXCEPT ![t] = "DORMANT"]
               /\ k1.priority = [k.priority EXCEPT ![t] = k.ipriority[t]]
               /\ k1.wupcnt = [k.wupcnt EXCEPT ![t] = 0]
               /\ k1.suscnt = [k.suscnt EXCEPT ![t] = 0]
               /\ k1.wspec = [k.wspec EXCEPT ![t] = NoSpec]
               /\ k1.wtmeb = k.wtmeb
<1> DEFINE k1 == MakeDormant(k, t)
<1>1. k \in KernelState /\ KLockFree(k) /\ r \in Places /\ Linked(k.que, r)
  BY DEF Consistent, Queued
<1>2. k1 \in KernelState
  <2> DEFINE a == [k EXCEPT !.state[t] = "DORMANT",
                            !.priority[t] = k.ipriority[t],
                            !.bpriority[t] = k.ipriority[t],
                            !.wupcnt[t] = 0,
                            !.suscnt[t] = 0]
  <2>1. a \in KernelState
    BY <1>1 DEF KernelState, TSTAT
  <2> DEFINE b == [a EXCEPT !.klockwait[t] = FALSE, !.klocked[t] = FALSE]
  <2>2. k1 = [b EXCEPT !.wspec[t] = NoSpec, !.wercd[t] = "none"]
    BY DEF MakeDormant
  <2>3. b \in KernelState
    <3> HIDE DEF a
    <3> QED BY <2>1 DEF KernelState
  <2> HIDE DEF b, k1
  <2>4. /\ [b.wspec EXCEPT ![t] = NoSpec] \in [Task -> WSpec]
        /\ [b.wercd EXCEPT ![t] = "none"] \in [Task -> Ercd]
    BY <2>3 DEF KernelState, WSpec, NoSpec, Ercd
  <2> QED BY <2>2, <2>3, <2>4 DEF KernelState
<1>3. /\ k1.que = k.que /\ k1.bitmap = k.bitmap /\ k1.top_priority = k.top_priority
      /\ k1.klocktsk = k.klocktsk /\ k1.schedtsk = k.schedtsk
      /\ k1.klocked = [k.klocked EXCEPT ![t] = FALSE]
      /\ k1.klockwait = [k.klockwait EXCEPT ![t] = FALSE]
      /\ k1.state = [k.state EXCEPT ![t] = "DORMANT"]
      /\ k1.priority = [k.priority EXCEPT ![t] = k.ipriority[t]]
      /\ k1.wupcnt = [k.wupcnt EXCEPT ![t] = 0]
      /\ k1.suscnt = [k.suscnt EXCEPT ![t] = 0]
      /\ k1.wspec = [k.wspec EXCEPT ![t] = NoSpec]
      /\ k1.wtmeb = k.wtmeb
  BY <1>1 DEF MakeDormant, KernelState
<1> HIDE DEF k1
<1>4. KLockFree(k1)
  BY <1>1, <1>3 DEF KLockFree, KernelState
<1>5. Consistent(k1, r)
  BY <1>1, <1>2, <1>3, <1>4, OtherRings
<1> QED BY <1>3, <1>5 DEF k1

(***************************************************************************)
(* What the operators of TKernel do to a kernel state that has the fields  *)
(* of more components, tasks in wait queues and tasks that hold or wait    *)
(* for kernel locks: which fields change, which task moves from which ring *)
(* to which, and that the selected task can be executed.                   *)
(***************************************************************************)
KernelField ==
    {"state", "priority", "bpriority", "ipriority", "wupcnt", "suscnt", "klocked",
     "klockwait", "wspec", "wercd", "wtmeb", "que", "bitmap", "top_priority",
     "klocktsk", "schedtsk"}

\* The fields of the kernel that rings and waits depend on have their types.
Kernel(k) ==
    /\ KernelField \subseteq DOMAIN k
    /\ k.state \in [Task -> TSTAT]
    /\ k.priority \in [Task -> Pri] /\ k.ipriority \in [Task -> Pri]
    /\ k.klocked \in [Task -> BOOLEAN] /\ k.klockwait \in [Task -> BOOLEAN]
    /\ k.wspec \in [Task -> WSpec] /\ k.wtmeb \in [Task -> BOOLEAN]
    /\ k.que \in Rings
    /\ k.bitmap \in SUBSET Pri /\ k.top_priority \in 0..NumPri
    /\ k.klocktsk \in Task \cup {NoTask} /\ k.schedtsk \in Task \cup {NoTask}

\* A step from k to k1 that changes no field but those of F.
Only(k1, k, F) ==
    /\ DOMAIN k1 = DOMAIN k
    /\ \A f \in DOMAIN k \ F : k1[f] = k[f]

LEMMA OnlyTrans ==
    ASSUME NEW k, NEW k1, NEW k2, NEW F, NEW G, NEW H, Only(k1, k, F), Only(k2, k1, G),
           F \subseteq H, G \subseteq H
    PROVE  Only(k2, k, H)
  BY DEF Only

\* Task t is in the ring of its priority.
Runnable(k, r, t) == k.priority[t] \in r[t]

\* The tasks are linked as r says, and the bitmap and top_priority describe
\* the ready rings.  A task in the queue of a kernel lock is in no ready ring;
\* klocktsk is in one.
Ready(k, r) ==
    /\ Kernel(k)
    /\ r \in Places /\ Linked(k.que, r)
    /\ ReadyExact(k)
    /\ \A t \in Task : r[t] \cap Pri \subseteq {k.priority[t]}
    /\ \A t \in Task : k.klockwait[t] => r[t] \cap Pri = {}
    /\ k.klocktsk # NoTask => Runnable(k, r, k.klocktsk)

\* The selected task is in its ready ring, and there is one if any ring has
\* one.
Selected(k, r) ==
    IF k.schedtsk = NoTask THEN \A p \in Pri : k.que[p] = <<>>
    ELSE Runnable(k, r, k.schedtsk)

Steady(k, r) == Ready(k, r) /\ Selected(k, r)

\* The rings of the components and of free TCBs.
OtherHead == QueHead \ Pri

LEMMA OtherHeads ==
    /\ OtherHead \subseteq QueHead /\ FreeTcb \in OtherHead /\ WaitQ \subseteq OtherHead
    /\ \A h \in OtherHead : h \notin Pri
    /\ \A h \in QueHead : h \in Pri \/ h \in OtherHead
<1>1. Pri \subseteq 0..NumPri
  BY NumPriAssumption DEF Pri
<1>2. FreeTcb \notin Pri /\ WaitQ \cap Pri = {}
  BY <1>1, QueueHeadAssumption
<1> QED BY <1>2 DEF OtherHead, QueHead

(***************************************************************************)
(* Selecting a task.                                                       *)
(***************************************************************************)
LEMMA TopRunnable ==
    ASSUME NEW k, NEW r, Ready(k, r)
    PROVE  LET t == ReadyQueueTop(k)
           IN  /\ t \in Task \cup {NoTask}
               /\ IF t = NoTask THEN \A p \in Pri : k.que[p] = <<>> ELSE Runnable(k, r, t)
<1>1. /\ Kernel(k) /\ r \in Places /\ Linked(k.que, r) /\ ReadyExact(k)
      /\ k.que \in Rings /\ k.top_priority \in 0..NumPri
      /\ k.klocktsk \in Task \cup {NoTask} /\ k.priority \in [Task -> Pri]
      /\ \A t \in Task : r[t] \cap Pri \subseteq {k.priority[t]}
  BY DEF Ready, Kernel
<1>2. CASE k.klocktsk # NoTask
  BY <1>1, <1>2, PriIsNatural DEF ReadyQueueTop, Ready
<1>3. CASE k.klocktsk = NoTask /\ k.top_priority \in Pri
  <2> DEFINE s == k.que[k.top_priority]
             t == Head(s)
  <2>1. k.top_priority \in k.bitmap /\ s # <<>>
    BY <1>1, <1>3, PriIsNatural DEF ReadyExact
  <2>2. s \in Seq(Task) /\ IsInjective(s)
    BY <1>1, <1>3, PriIsNatural DEF Rings, Linked
  <2>3. t \in Task /\ InRing(s, t)
    <3> HIDE DEF s
    <3> QED BY <2>1, <2>2, TailRing
  <2>4. k.top_priority \in r[t]
    BY <1>1, <1>3, <2>3, PriIsNatural DEF Linked
  <2>5. Runnable(k, r, t)
    BY <1>1, <1>3, <2>3, <2>4 DEF Runnable
  <2>6. ReadyQueueTop(k) = t
    BY <1>3 DEF ReadyQueueTop
  <2> HIDE DEF t, s
  <2> QED BY <2>3, <2>5, <2>6, PriIsNatural
<1>4. CASE k.klocktsk = NoTask /\ k.top_priority \notin Pri
  <2>1. ReadyQueueTop(k) = NoTask
    BY <1>4 DEF ReadyQueueTop
  <2>2. \A p \in Pri : k.que[p] = <<>>
    <3>1. k.top_priority = NumPri
      BY <1>1, <1>4 DEF ReadyExact, Kernel
    <3>2. k.bitmap = {}
      BY <1>1, <3>1, PriIsNatural DEF ReadyExact, Kernel, Pri
    <3> QED BY <1>1, <3>2 DEF ReadyExact
  <2> QED BY <2>1, <2>2
<1> QED BY <1>2, <1>3, <1>4

LEMMA RescheduleSteady ==
    ASSUME NEW k, NEW r, Ready(k, r)
    PROVE  /\ Steady(Reschedule(k), r)
           /\ Only(Reschedule(k), k, {"schedtsk"})
<1> DEFINE t == ReadyQueueTop(k)
           k1 == Reschedule(k)
<1>1. /\ t \in Task \cup {NoTask}
      /\ IF t = NoTask THEN \A p \in Pri : k.que[p] = <<>> ELSE Runnable(k, r, t)
  BY TopRunnable
<1>2. k1 = [k EXCEPT !.schedtsk = t]
  BY DEF Reschedule
<1> HIDE DEF t, k1
<1>3. /\ DOMAIN k1 = DOMAIN k /\ k1.schedtsk = t
      /\ \A f \in DOMAIN k : f # "schedtsk" => k1[f] = k[f]
  BY <1>2 DEF Ready, Kernel, KernelField
<1>4. Only(k1, k, {"schedtsk"})
  BY <1>3 DEF Only
<1>5. /\ k1.state = k.state /\ k1.priority = k.priority /\ k1.ipriority = k.ipriority
      /\ k1.klocked = k.klocked /\ k1.klockwait = k.klockwait
      /\ k1.wspec = k.wspec /\ k1.wtmeb = k.wtmeb /\ k1.que = k.que
      /\ k1.bitmap = k.bitmap /\ k1.top_priority = k.top_priority
      /\ k1.klocktsk = k.klocktsk
  BY <1>3 DEF Ready, Kernel, KernelField
<1>6. Kernel(k1)
  BY <1>1, <1>3, <1>5 DEF Ready, Kernel
<1>7. Ready(k1, r)
  BY <1>5, <1>6 DEF Ready, ReadyExact, Runnable
<1>8. Selected(k1, r)
  BY <1>1, <1>3, <1>5 DEF Selected, Runnable
<1> QED BY <1>4, <1>7, <1>8 DEF Steady, k1

(***************************************************************************)
(* A change outside the ready rings: the tasks of the ready rings stay as  *)
(* they are and nothing else is linked in one.                             *)
(***************************************************************************)
SameReadyQueue(k1, k) ==
    /\ \A p \in Pri : k1.que[p] = k.que[p]
    /\ k1.bitmap = k.bitmap /\ k1.top_priority = k.top_priority
    /\ k1.klocktsk = k.klocktsk /\ k1.schedtsk = k.schedtsk

LEMMA ReadyKept ==
    ASSUME NEW k, NEW r, Ready(k, r), NEW k1, NEW r1, Kernel(k1),
           r1 \in Places, Linked(k1.que, r1), SameReadyQueue(k1, k),
           \A t \in Task : r1[t] \cap Pri = r[t] \cap Pri,
           \A t \in Task : r[t] \cap Pri # {} => k1.priority[t] = k.priority[t],
           \A t \in Task : k1.klockwait[t] => r1[t] \cap Pri = {}
    PROVE  Ready(k1, r1) /\ (Selected(k, r) => Selected(k1, r1))
<1>1. /\ Kernel(k) /\ ReadyExact(k)
      /\ \A t \in Task : r[t] \cap Pri \subseteq {k.priority[t]}
      /\ k.klocktsk # NoTask => Runnable(k, r, k.klocktsk)
      /\ k.klocktsk \in Task \cup {NoTask} /\ k.schedtsk \in Task \cup {NoTask}
      /\ k.priority \in [Task -> Pri]
  BY DEF Ready, Kernel
<1>2. ReadyExact(k1)
  <2>1. {p \in Pri : k1.que[p] # <<>>} = {p \in Pri : k.que[p] # <<>>}
    BY DEF SameReadyQueue
  <2> QED BY <1>1, <2>1 DEF ReadyExact, SameReadyQueue
<1>3. \A t \in Task : r1[t] \cap Pri \subseteq {k1.priority[t]}
  BY <1>1
<1>4. ASSUME NEW t \in Task, Runnable(k, r, t) PROVE Runnable(k1, r1, t)
  <2>1. k.priority[t] \in Pri /\ k.priority[t] \in r[t]
    BY <1>1, <1>4 DEF Runnable
  <2> QED BY <2>1 DEF Runnable
<1>5. k1.klocktsk # NoTask => Runnable(k1, r1, k1.klocktsk)
  BY <1>1, <1>4 DEF SameReadyQueue
<1>6. Selected(k, r) => Selected(k1, r1)
  <2>1. CASE k.schedtsk = NoTask
    BY <2>1 DEF Selected, SameReadyQueue
  <2>2. CASE k.schedtsk # NoTask
    BY <2>2, <1>1, <1>4 DEF Selected, SameReadyQueue
  <2> QED BY <2>1, <2>2
<1> QED BY <1>2, <1>3, <1>5, <1>6 DEF Ready

LEMMA SteadyKept ==
    ASSUME NEW k, NEW r, Steady(k, r), NEW k1, NEW r1, Kernel(k1),
           r1 \in Places, Linked(k1.que, r1), SameReadyQueue(k1, k),
           \A t \in Task : r1[t] \cap Pri = r[t] \cap Pri,
           \A t \in Task : r[t] \cap Pri # {} => k1.priority[t] = k.priority[t],
           \A t \in Task : k1.klockwait[t] => r1[t] \cap Pri = {}
    PROVE  Steady(k1, r1)
  BY ReadyKept DEF Steady

\* A change of fields that have nothing to do with rings and priorities.
LEMMA SteadySame ==
    ASSUME NEW k, NEW r, Steady(k, r), NEW k1, Kernel(k1), k1.que = k.que,
           k1.priority = k.priority, k1.klockwait = k.klockwait,
           k1.bitmap = k.bitmap, k1.top_priority = k.top_priority,
           k1.klocktsk = k.klocktsk, k1.schedtsk = k.schedtsk
    PROVE  Steady(k1, r)
<1>1. r \in Places /\ Linked(k.que, r) /\ \A t \in Task : k.klockwait[t] => r[t] \cap Pri = {}
  BY DEF Steady, Ready
<1>2. SameReadyQueue(k1, k)
  BY DEF SameReadyQueue
<1>3. Linked(k1.que, r)
  BY <1>1
<1>4. \A t \in Task : k1.klockwait[t] => r[t] \cap Pri = {}
  BY <1>1
<1> QED BY <1>1, <1>2, <1>3, <1>4, SteadyKept

(***************************************************************************)
(* Joining the ready queue.                                                *)
(***************************************************************************)
ReadyQue == {"que", "bitmap", "top_priority", "klocktsk"}

\* A task that is in no ring and waits for no lock joins the ring of its
\* priority, at either end.
LEMMA ReadyInserted ==
    ASSUME NEW k, NEW r, Ready(k, r), NEW t \in Task, r[t] = {}, ~k.klockwait[t],
           NEW k1, Only(k1, k, ReadyQue),
           NEW p, p = k.priority[t],
           k1.bitmap = k.bitmap \cup {p},
           k1.klocktsk = IF k.klocked[t] THEN t ELSE k.klocktsk,
           k1.top_priority = IF p < k.top_priority THEN p ELSE k.top_priority,
           k1.que \in Rings, Linked(k1.que, [r EXCEPT ![t] = {p}]),
           k1.que[p] # <<>>, \A g \in QueHead \ {p} : k1.que[g] = k.que[g]
    PROVE  /\ Ready(k1, [r EXCEPT ![t] = {p}])
           /\ Selected(k, r) /\ k.schedtsk # NoTask => Selected(k1, [r EXCEPT ![t] = {p}])
           /\ \A h \in OtherHead : k1.que[h] = k.que[h]
<1> DEFINE r1 == [r EXCEPT ![t] = {p}]
<1>1. /\ Kernel(k) /\ r \in Places /\ ReadyExact(k)
      /\ k.klocktsk \in Task \cup {NoTask} /\ k.schedtsk \in Task \cup {NoTask}
      /\ k.priority \in [Task -> Pri] /\ p \in Pri
      /\ k.bitmap \in SUBSET Pri /\ k.top_priority \in 0..NumPri
      /\ \A u \in Task : r[u] \cap Pri \subseteq {k.priority[u]}
      /\ k.klocktsk # NoTask => Runnable(k, r, k.klocktsk)
  BY DEF Ready, Kernel
<1>2. r1[t] = {p} /\ r1 \in Places /\ \A u \in Task : u # t => r1[u] = r[u]
  BY <1>1, PriIsNatural DEF Places
<1>3. /\ k1.state = k.state /\ k1.priority = k.priority /\ k1.ipriority = k.ipriority
      /\ k1.klocked = k.klocked /\ k1.klockwait = k.klockwait
      /\ k1.wspec = k.wspec /\ k1.wtmeb = k.wtmeb /\ k1.schedtsk = k.schedtsk
  BY <1>1 DEF Only, ReadyQue, Kernel, KernelField
<1>4. KernelField \subseteq DOMAIN k1
  BY <1>1 DEF Only, Kernel
<1>5. Kernel(k1)
  <2>1. k1.bitmap \in SUBSET Pri /\ k1.top_priority \in 0..NumPri
    BY <1>1, PriIsNatural DEF Pri
  <2>2. k1.klocktsk \in Task \cup {NoTask}
    BY <1>1
  <2> QED BY <1>1, <1>3, <1>4, <2>1, <2>2 DEF Kernel
<1>6. ReadyExact(k1)
  <2>1. k1.bitmap = {q \in Pri : k1.que[q] # <<>>}
    <3>1. \A q \in Pri : q # p => k1.que[q] = k.que[q]
      BY PriIsNatural
    <3> QED BY <1>1, <3>1 DEF ReadyExact
  <2>2. k1.top_priority \in k1.bitmap \cup {NumPri}
    BY <1>1 DEF ReadyExact
  <2>3. \A q \in k1.bitmap : k1.top_priority <= q
    BY <1>1, PriIsNatural DEF ReadyExact, Pri
  <2> QED BY <2>1, <2>2, <2>3 DEF ReadyExact
<1>7. ASSUME NEW u \in Task, Runnable(k, r, u) PROVE Runnable(k1, r1, u)
  <2>1. u # t
    BY <1>7 DEF Runnable
  <2> QED BY <1>2, <1>3, <1>7, <2>1 DEF Runnable
<1>8. Runnable(k1, r1, t)
  BY <1>2, <1>3 DEF Runnable
<1>9. k1.klocktsk # NoTask => Runnable(k1, r1, k1.klocktsk)
  BY <1>1, <1>7, <1>8
<1>10. ASSUME NEW u \in Task
       PROVE  /\ r1[u] \cap Pri \subseteq {k1.priority[u]}
              /\ k1.klockwait[u] => r1[u] \cap Pri = {}
  <2>1. CASE u = t
    BY <2>1, <1>2, <1>3
  <2>2. CASE u # t
    BY <2>2, <1>1, <1>2, <1>3 DEF Ready
  <2> QED BY <2>1, <2>2
<1>11. Ready(k1, r1)
  BY <1>2, <1>5, <1>6, <1>9, <1>10 DEF Ready
<1>12. ASSUME Selected(k, r), k.schedtsk # NoTask PROVE Selected(k1, r1)
  BY <1>1, <1>3, <1>7, <1>12 DEF Selected
<1>13. \A h \in OtherHead : k1.que[h] = k.que[h]
  BY <1>1, OtherHeads
<1> QED BY <1>11, <1>12, <1>13

LEMMA InsertReady ==
    ASSUME NEW k, NEW r, Ready(k, r), NEW t \in Task, r[t] = {}, ~k.klockwait[t]
    PROVE  LET k1 == ReadyQueueInsert(k, t)
               r1 == [r EXCEPT ![t] = {k.priority[t]}]
           IN  /\ Ready(k1, r1) /\ Only(k1, k, ReadyQue)
               /\ Selected(k, r) /\ k.schedtsk # NoTask => Selected(k1, r1)
               /\ \A h \in OtherHead : k1.que[h] = k.que[h]
<1> DEFINE p == k.priority[t]
           k1 == ReadyQueueInsert(k, t)
           que == k.que
           new == QueInsert(que, t, p)
<1>1. /\ KernelField \subseteq DOMAIN k /\ que \in Rings /\ r \in Places /\ Linked(que, r)
      /\ p \in Pri /\ p \in QueHead
  BY PriIsNatural DEF Ready, Kernel
<1>2. /\ k1.que = new /\ k1.bitmap = k.bitmap \cup {p}
      /\ k1.klocktsk = IF k.klocked[t] THEN t ELSE k.klocktsk
      /\ k1.top_priority = IF p < k.top_priority THEN p ELSE k.top_priority
      /\ Only(k1, k, ReadyQue)
  BY <1>1 DEF ReadyQueueInsert, KernelField, Only, ReadyQue
<1>3. /\ new \in Rings /\ Linked(new, [r EXCEPT ![t] = {p}])
      /\ \A g \in QueHead \ {p} : new[g] = que[g]
      /\ new[p] # <<>>
  <2> HIDE DEF p, que, k1
  <2> QED BY <1>1, QueInsertLinked
<1> HIDE DEF new, k1, p
<1>4. p = k.priority[t]
  BY DEF p
<1>5. /\ Ready(k1, [r EXCEPT ![t] = {p}])
      /\ Selected(k, r) /\ k.schedtsk # NoTask => Selected(k1, [r EXCEPT ![t] = {p}])
      /\ \A h \in OtherHead : k1.que[h] = k.que[h]
  BY <1>2, <1>3, <1>4, ReadyInserted
<1> QED BY <1>2, <1>5 DEF p, k1

LEMMA InRingContains ==
    ASSUME NEW s \in Seq(Task), NEW t
    PROVE  InRing(s, t) <=> Contains(s, t)
<1>1. DOMAIN s = 1..Len(s)
  BY LenProperties
<1> QED BY <1>1 DEF InRing, Contains

\* A task that becomes the first of a ring is added to it, and nothing else.
LEMMA PushRing ==
    ASSUME NEW s \in Seq(Task), NEW t \in Task, IsInjective(s), ~InRing(s, t)
    PROVE  /\ <<t>> \o s \in Seq(Task) /\ <<t>> \o s # <<>>
           /\ IsInjective(<<t>> \o s)
           /\ \A u \in Task : InRing(<<t>> \o s, u) <=> InRing(s, u) \/ u = t
<1>1. ~Contains(s, t)
  BY InRingContains
<1>2. /\ <<t>> \o s \in Seq(Task) /\ <<t>> \o s # <<>> /\ IsInjective(<<t>> \o s)
      /\ \A u : Contains(<<t>> \o s, u) <=> Contains(s, u) \/ u = t
  BY <1>1, PushEntry
<1>3. \A u : InRing(s, u) <=> Contains(s, u)
  BY InRingContains
<1>4. \A u : InRing(<<t>> \o s, u) <=> Contains(<<t>> \o s, u)
  BY <1>2, InRingContains
<1> QED BY <1>2, <1>3, <1>4

LEMMA PushLinked ==
    ASSUME NEW que \in Rings, NEW r \in Places, Linked(que, r),
           NEW t \in Task, NEW h \in QueHead, r[t] = {}
    PROVE  LET new == [que EXCEPT ![h] = <<t>> \o @]
           IN  /\ new \in Rings /\ Linked(new, [r EXCEPT ![t] = {h}])
               /\ \A g \in QueHead \ {h} : new[g] = que[g]
               /\ new[h] # <<>>
<1> DEFINE s == <<t>> \o que[h]
           new == [que EXCEPT ![h] = s]
<1>1. que[h] \in Seq(Task) /\ IsInjective(que[h]) /\ ~InRing(que[h], t)
  BY DEF Linked, Rings
<1>2. /\ s \in Seq(Task) /\ s # <<>> /\ IsInjective(s)
      /\ \A u \in Task : InRing(s, u) <=> InRing(que[h], u) \/ u = t
  BY <1>1, PushRing
<1> HIDE DEF s
<1>3. /\ new \in Rings /\ new[h] = s /\ \A g \in QueHead \ {h} : new[g] = que[g]
  BY <1>2 DEF Rings
<1>4. Linked(new, [r EXCEPT ![t] = {h}])
  <2> HIDE DEF new
  <2>1. ASSUME NEW g \in QueHead, NEW u \in Task
        PROVE  InRing(new[g], u) <=> g \in [r EXCEPT ![t] = {h}][u]
    <3>1. InRing(que[g], u) <=> g \in r[u]
      BY DEF Linked
    <3>2. CASE g = h
      BY <3>1, <3>2, <1>2, <1>3 DEF Places
    <3>3. CASE g # h
      BY <3>1, <3>3, <1>3 DEF Places
    <3> QED BY <3>2, <3>3
  <2>2. \A g \in QueHead : IsInjective(new[g])
    BY <1>2, <1>3 DEF Linked
  <2> QED BY <2>1, <2>2 DEF Linked
<1> QED BY <1>2, <1>3, <1>4 DEF s

LEMMA InsertTopReady ==
    ASSUME NEW k, NEW r, Ready(k, r), NEW t \in Task, r[t] = {}, ~k.klockwait[t]
    PROVE  LET k1 == ReadyQueueInsertTop(k, t)
               r1 == [r EXCEPT ![t] = {k.priority[t]}]
           IN  /\ Ready(k1, r1) /\ Only(k1, k, ReadyQue)
               /\ \A h \in OtherHead : k1.que[h] = k.que[h]
<1> DEFINE p == k.priority[t]
           k1 == ReadyQueueInsertTop(k, t)
           que == k.que
           new == [que EXCEPT ![p] = <<t>> \o @]
<1>1. /\ KernelField \subseteq DOMAIN k /\ que \in Rings /\ r \in Places /\ Linked(que, r)
      /\ p \in Pri /\ p \in QueHead
  BY PriIsNatural DEF Ready, Kernel
<1>2. /\ k1.que = new /\ k1.bitmap = k.bitmap \cup {p}
      /\ k1.klocktsk = IF k.klocked[t] THEN t ELSE k.klocktsk
      /\ k1.top_priority = IF p < k.top_priority THEN p ELSE k.top_priority
      /\ Only(k1, k, ReadyQue)
  BY <1>1 DEF ReadyQueueInsertTop, KernelField, Only, ReadyQue
<1>3. /\ new \in Rings /\ Linked(new, [r EXCEPT ![t] = {p}])
      /\ \A g \in QueHead \ {p} : new[g] = que[g]
      /\ new[p] # <<>>
  <2> HIDE DEF p, que, k1
  <2> QED BY <1>1, PushLinked
<1> HIDE DEF new, k1, p
<1>4. p = k.priority[t]
  BY DEF p
<1>5. /\ Ready(k1, [r EXCEPT ![t] = {p}])
      /\ \A h \in OtherHead : k1.que[h] = k.que[h]
  BY <1>2, <1>3, <1>4, ReadyInserted
<1> QED BY <1>2, <1>5 DEF p, k1

\* Task t, in no ring before, has joined the ring of its priority.
MadeReady(k1, k, r, t) ==
    /\ Steady(k1, [r EXCEPT ![t] = {k.priority[t]}])
    /\ Only(k1, k, ReadyQue \cup {"state", "schedtsk"})
    /\ k1.state = [k.state EXCEPT ![t] = "READY"]
    /\ \A h \in OtherHead : k1.que[h] = k.que[h]

\* knl_make_ready: the task is selected if its priority is above all others,
\* so that there is a selected task afterwards.
LEMMA MakeReadySteady ==
    ASSUME NEW k, NEW r, Steady(k, r), NEW t \in Task, r[t] = {}, ~k.klockwait[t]
    PROVE  MadeReady(MakeReady(k, t), k, r, t)
<1> DEFINE k1 == ReadyQueueInsert(k, t)
           k2 == MakeReady(k, t)
           r1 == [r EXCEPT ![t] = {k.priority[t]}]
           s == IF k.priority[t] < k.top_priority THEN t ELSE k.schedtsk
<1>1. Ready(k, r) /\ Selected(k, r) /\ Kernel(k) /\ r \in Places
  BY DEF Steady, Ready
<1>2. /\ Ready(k1, r1) /\ Only(k1, k, ReadyQue)
      /\ k.schedtsk # NoTask => Selected(k1, r1)
      /\ \A h \in OtherHead : k1.que[h] = k.que[h]
  BY <1>1, InsertReady
<1>3. k2 = [k1 EXCEPT !.state[t] = "READY",
                      !.schedtsk = IF k.priority[t] < k.top_priority THEN t ELSE @]
  BY DEF MakeReady
<1>4. KernelField \subseteq DOMAIN k1 /\ Kernel(k1)
  BY <1>2 DEF Ready, Kernel
<1>5. k1.state = k.state /\ k1.schedtsk = k.schedtsk /\ k1.priority = k.priority
      /\ DOMAIN k1 = DOMAIN k
  BY <1>1, <1>2 DEF Only, ReadyQue, Kernel, KernelField
<1> HIDE DEF k1, k2
<1>6. /\ k2.state = [k.state EXCEPT ![t] = "READY"] /\ k2.schedtsk = s
      /\ Only(k2, k1, {"state", "schedtsk"})
  BY <1>3, <1>4, <1>5 DEF KernelField, Only
<1> HIDE DEF s
<1>7. /\ k2.priority = k1.priority /\ k2.ipriority = k1.ipriority
      /\ k2.klocked = k1.klocked /\ k2.klockwait = k1.klockwait
      /\ k2.wspec = k1.wspec /\ k2.wtmeb = k1.wtmeb /\ k2.que = k1.que
      /\ k2.bitmap = k1.bitmap /\ k2.top_priority = k1.top_priority
      /\ k2.klocktsk = k1.klocktsk /\ KernelField \subseteq DOMAIN k2
  BY <1>4, <1>6 DEF Only, KernelField
<1>8. Only(k2, k, ReadyQue \cup {"state", "schedtsk"})
  BY <1>2, <1>6, OnlyTrans
<1>9. Kernel(k2)
  <2>1. k2.state \in [Task -> TSTAT]
    BY <1>1, <1>6 DEF Kernel, TSTAT
  <2>2. k2.schedtsk \in Task \cup {NoTask}
    BY <1>1, <1>6 DEF Kernel, s
  <2> QED BY <1>4, <1>7, <2>1, <2>2 DEF Kernel
<1>10. Ready(k2, r1)
  BY <1>2, <1>7, <1>9 DEF Ready, ReadyExact, Runnable
<1>11. Runnable(k2, r1, t)
  BY <1>1, <1>5, <1>7 DEF Runnable, Places
<1>12. s # NoTask
  <2>1. CASE k.schedtsk = NoTask
    <3>1. \A p \in Pri : k.que[p] = <<>>
      BY <2>1, <1>1 DEF Selected
    <3>2. k.top_priority = NumPri
      BY <3>1, <1>1 DEF Ready, ReadyExact
    <3>3. k.priority[t] \in Pri
      BY <1>1 DEF Kernel
    <3> QED BY <3>2, <3>3, PriIsNatural DEF s
  <2>2. CASE k.schedtsk # NoTask
    BY <2>2, PriIsNatural DEF s
  <2> QED BY <2>1, <2>2
<1>13. Selected(k2, r1)
  <2>1. CASE s = t
    BY <2>1, <1>6, <1>11, <1>12 DEF Selected
  <2>2. CASE s # t
    <3>1. s = k.schedtsk
      BY <2>2 DEF s
    <3> QED BY <3>1, <1>2, <1>5, <1>6, <1>7, <1>12 DEF Selected, Runnable
  <2> QED BY <2>1, <2>2
<1>14. \A h \in OtherHead : k2.que[h] = k.que[h]
  BY <1>2, <1>7
<1> QED BY <1>6, <1>8, <1>10, <1>13, <1>14 DEF MadeReady, Steady, k2, r1

(***************************************************************************)
(* Leaving the ready queue, or the queue of a kernel lock.                 *)
(***************************************************************************)
\* A task that waits for a lock, or is in its ready ring.
MayLeave(k, r, t) == k.klockwait[t] \/ Runnable(k, r, t)

LEMMA RemoveReady ==
    ASSUME NEW k, NEW r, Ready(k, r), NEW t \in Task, MayLeave(k, r, t),
           NEW k1, Only(k1, k, ReadyQue \cup {"klockwait"}),
           k1.klockwait = [k.klockwait EXCEPT ![t] = FALSE],
           k1.que = QueRemove(k.que, t),
           k1.klocktsk = IF k.klocktsk = t THEN NoTask ELSE k.klocktsk,
           Kernel(k1), ReadyExact(k1)
    PROVE  LET r1 == [r EXCEPT ![t] = {}]
           IN  /\ Ready(k1, r1)
               /\ Selected(k, r) /\ k.schedtsk # t => Selected(k1, r1)
               /\ \A h \in OtherHead : k1.que[h] = Unlink(k.que[h], t)
<1> DEFINE r1 == [r EXCEPT ![t] = {}]
           que == k.que
           new == QueRemove(que, t)
<1>1. /\ Kernel(k) /\ r \in Places /\ que \in Rings /\ Linked(que, r)
      /\ k.klocktsk \in Task \cup {NoTask} /\ k.schedtsk \in Task \cup {NoTask}
      /\ k.klockwait \in [Task -> BOOLEAN]
      /\ \A u \in Task : r[u] \cap Pri \subseteq {k.priority[u]}
      /\ \A u \in Task : k.klockwait[u] => r[u] \cap Pri = {}
      /\ k.klocktsk # NoTask => Runnable(k, r, k.klocktsk)
  BY DEF Ready, Kernel
<1>2. k1.priority = k.priority /\ k1.schedtsk = k.schedtsk
  BY <1>1 DEF Only, ReadyQue, Kernel, KernelField
<1>3. /\ new \in Rings /\ Linked(new, r1)
      /\ \A h \in QueHead : h \notin r[t] => new[h] = que[h]
  <2> HIDE DEF que
  <2> QED BY <1>1, QueRemoveLinked
<1>4. \A h \in OtherHead : k1.que[h] = Unlink(k.que[h], t)
  BY <1>1, OtherHeads DEF QueRemove, Rings
<1>5. k1.que = new
  OBVIOUS
<1>6. r1 \in Places /\ r1[t] = {} /\ \A u \in Task : u # t => r1[u] = r[u]
  BY <1>1 DEF Places
<1> HIDE DEF new, r1
<1>7. \A u \in Task : r1[u] \cap Pri \subseteq {k1.priority[u]}
  BY <1>1, <1>2, <1>6
<1>8. ASSUME NEW u \in Task, k1.klockwait[u] PROVE r1[u] \cap Pri = {}
  <2>1. CASE u = t
    BY <2>1, <1>6
  <2>2. CASE u # t
    <3>1. k.klockwait[u]
      BY <2>2, <1>1, <1>8
    <3> QED BY <2>2, <3>1, <1>1, <1>6
  <2> QED BY <2>1, <2>2
<1>9. ASSUME NEW u \in Task, u # t, Runnable(k, r, u) PROVE Runnable(k1, r1, u)
  BY <1>2, <1>6, <1>9 DEF Runnable
<1>10. k1.klocktsk # NoTask => Runnable(k1, r1, k1.klocktsk)
  BY <1>1, <1>9
<1>11. Ready(k1, r1)
  BY <1>3, <1>5, <1>6, <1>7, <1>8, <1>10 DEF Ready
<1>12. ASSUME Selected(k, r), k.schedtsk # t PROVE Selected(k1, r1)
  <2>1. CASE k.schedtsk = NoTask
    <3>1. \A p \in Pri : k.que[p] = <<>>
      BY <2>1, <1>12 DEF Selected
    <3>2. ASSUME NEW p \in Pri PROVE new[p] = <<>>
      <4>1. que[p] = <<>> /\ p \in QueHead
        BY <3>1, PriIsNatural
      <4>2. p \notin r[t]
        BY <4>1, <1>1 DEF Linked, InRing
      <4> QED BY <4>1, <4>2, <1>3
    <3> QED BY <2>1, <3>2, <1>2, <1>5 DEF Selected
  <2>2. CASE k.schedtsk # NoTask
    <3>1. Runnable(k, r, k.schedtsk) /\ k.schedtsk \in Task
      BY <2>2, <1>1, <1>12 DEF Selected
    <3> QED BY <2>2, <3>1, <1>2, <1>9, <1>12 DEF Selected
  <2> QED BY <2>1, <2>2
<1> QED BY <1>4, <1>11, <1>12 DEF r1

LEMMA DeleteReady ==
    ASSUME NEW k, NEW r, Ready(k, r), NEW t \in Task, MayLeave(k, r, t)
    PROVE  LET k1 == ReadyQueueDelete(k, t)
               r1 == [r EXCEPT ![t] = {}]
           IN  /\ Ready(k1, r1)
               /\ Only(k1, k, ReadyQue \cup {"klockwait"})
               /\ k1.klockwait = [k.klockwait EXCEPT ![t] = FALSE]
               /\ k1.klocktsk # t
               /\ Selected(k, r) /\ k.schedtsk # t => Selected(k1, r1)
               /\ \A h \in OtherHead : k1.que[h] = Unlink(k.que[h], t)
<1> DEFINE p == k.priority[t]
           q == QueRemove(k.que, t)
           c == IF k.klocktsk = t THEN NoTask ELSE k.klocktsk
           bits == k.bitmap \ {p}
           top == IF p = k.top_priority THEN CalcTopPriority(bits, p) ELSE k.top_priority
           k1 == ReadyQueueDelete(k, t)
           wait == [k.klockwait EXCEPT ![t] = FALSE]
<1>1. /\ Kernel(k) /\ r \in Places /\ ReadyExact(k)
      /\ k.que \in Rings /\ Linked(k.que, r)
      /\ p \in Pri /\ p \in QueHead
      /\ k.bitmap \in SUBSET Pri /\ k.top_priority \in 0..NumPri
      /\ k.klockwait \in [Task -> BOOLEAN] /\ k.klocktsk \in Task \cup {NoTask}
      /\ KernelField \subseteq DOMAIN k
  BY PriIsNatural DEF Ready, Kernel
<1>2. c \in Task \cup {NoTask} /\ c # t
  BY <1>1, PriIsNatural
<1>3. /\ q \in Rings /\ \A h \in QueHead : h \notin r[t] => q[h] = k.que[h]
  <2> DEFINE que == k.que
             new == QueRemove(que, t)
  <2>1. que \in Rings /\ r \in Places /\ Linked(que, r)
    BY <1>1
  <2> HIDE DEF que
  <2>2. /\ new \in Rings
        /\ \A h \in QueHead : h \notin r[t] => new[h] = que[h]
    BY <2>1, QueRemoveLinked
  <2> QED BY <2>2 DEF que
<1>4. ASSUME NEW k2, Only(k2, k, ReadyQue \cup {"klockwait"}), k2.klockwait = wait,
             k2.que = q, k2.klocktsk = c, k2.bitmap \in SUBSET Pri,
             k2.top_priority \in 0..NumPri
      PROVE  Kernel(k2)
  <2>1. /\ k2.state = k.state /\ k2.priority = k.priority /\ k2.ipriority = k.ipriority
        /\ k2.klocked = k.klocked /\ k2.wspec = k.wspec /\ k2.wtmeb = k.wtmeb
        /\ k2.schedtsk = k.schedtsk /\ KernelField \subseteq DOMAIN k2
    BY <1>1, <1>4 DEF Only, ReadyQue, KernelField
  <2>2. wait \in [Task -> BOOLEAN]
    BY <1>1
  <2> HIDE DEF wait, c, q
  <2> QED BY <2>1, <2>2, <1>1, <1>2, <1>3, <1>4 DEF Kernel
<1>5. CASE k.klockwait[t]
  <2>1. k1 = [[k EXCEPT !.que = q, !.klocktsk = c] EXCEPT !.klockwait[t] = FALSE]
    BY <1>5 DEF ReadyQueueDelete
  <2>2. /\ Only(k1, k, ReadyQue \cup {"klockwait"})
        /\ k1.que = q /\ k1.klocktsk = c /\ k1.klockwait = wait
        /\ k1.bitmap = k.bitmap /\ k1.top_priority = k.top_priority
    <3> HIDE DEF k1, q, c
    <3> QED BY <1>1, <2>1 DEF KernelField, Only, ReadyQue
  <2> HIDE DEF k1
  <2>3. Kernel(k1)
    BY <1>1, <1>4, <2>2
  <2>4. ReadyExact(k1)
    <3>1. r[t] \cap Pri = {}
      BY <1>5 DEF Ready
    <3>2. \A g \in Pri : q[g] = k.que[g]
      BY <3>1, <1>3, PriIsNatural
    <3>3. {g \in Pri : q[g] # <<>>} = {g \in Pri : k.que[g] # <<>>}
      BY <3>2
    <3> HIDE DEF q
    <3> QED BY <3>3, <1>1, <2>2 DEF ReadyExact
  <2>5. LET r1 == [r EXCEPT ![t] = {}]
        IN  /\ Ready(k1, r1)
            /\ Selected(k, r) /\ k.schedtsk # t => Selected(k1, r1)
            /\ \A h \in OtherHead : k1.que[h] = Unlink(k.que[h], t)
    BY <2>2, <2>3, <2>4, RemoveReady
  <2> QED BY <1>2, <2>2, <2>5 DEF k1
<1>6. CASE ~k.klockwait[t]
  <2>1. Runnable(k, r, t)
    BY <1>6 DEF MayLeave
  <2>2. p \in r[t] /\ k.que[p] # <<>>
    BY <1>1, <2>1 DEF Runnable, Linked, InRing
  <2>3. /\ p \in k.bitmap /\ k.top_priority \in Pri /\ k.top_priority <= p
        /\ k.bitmap = {g \in Pri : k.que[g] # <<>>}
    <3>1. k.bitmap = {g \in Pri : k.que[g] # <<>>}
      BY <1>1 DEF ReadyExact
    <3>2. p \in k.bitmap
      BY <1>1, <2>2, <3>1
    <3>3. k.top_priority <= p /\ k.top_priority \in k.bitmap \cup {NumPri}
      BY <1>1, <3>2 DEF ReadyExact
    <3>4. k.top_priority # NumPri
      <4> HIDE DEF p
      <4>1. p \in Nat /\ p < NumPri /\ NumPri \in Nat
        BY <1>1, PriIsNatural
      <4> QED BY <3>3, <4>1
    <3> QED BY <3>1, <3>2, <3>3, <3>4, <1>1
  <2>4. \A g \in Pri : g # p => q[g] = k.que[g]
    <3>1. \A g \in Pri : g # p => g \notin r[t]
      BY DEF Ready
    <3> QED BY <3>1, <1>3, PriIsNatural
  <2>5. wait = k.klockwait
    <3>1. k.klockwait[t] = FALSE
      BY <1>1, <1>6
    <3> QED BY <3>1, <1>1
  <2>6. /\ bits \in SUBSET Pri
        /\ q[p] = <<>> => bits = {g \in Pri : q[g] # <<>>}
        /\ q[p] # <<>> => k.bitmap = {g \in Pri : q[g] # <<>>}
    <3> HIDE DEF q
    <3> QED BY <1>1, <2>3, <2>4
  <2>7. /\ top \in bits \cup {NumPri}
        /\ \A g \in bits : top <= g
    <3>1. /\ CalcTopPriority(bits, p) \in {i \in bits : i >= p} \cup {NumPri}
          /\ \A i \in bits : i >= p => CalcTopPriority(bits, p) <= i
      <4> HIDE DEF bits, p
      <4> QED BY <1>1, <2>6, CalcTop
    <3>2. \A g \in bits : g \in Nat /\ k.top_priority <= g
      BY <1>1, <2>3, PriIsNatural DEF ReadyExact
    <3>3. CASE p = k.top_priority
      BY <3>1, <3>2, <3>3, <1>1, PriIsNatural
    <3>4. CASE p # k.top_priority
      BY <3>2, <3>4, <1>1, <2>3, PriIsNatural DEF ReadyExact
    <3> QED BY <3>3, <3>4
  <2>8. top \in 0..NumPri
    BY <2>6, <2>7, PriIsNatural DEF Pri
  <2>9. k1 = IF q[p] # <<>> THEN [k EXCEPT !.que = q, !.klocktsk = c]
             ELSE [k EXCEPT !.que = q, !.klocktsk = c, !.bitmap = bits, !.top_priority = top]
    <3>1. /\ [k EXCEPT !.que = q, !.klocktsk = c].bitmap = k.bitmap
          /\ [k EXCEPT !.que = q, !.klocktsk = c].top_priority = k.top_priority
      BY <1>1 DEF KernelField
    <3> QED BY <1>1, <1>6, <3>1 DEF ReadyQueueDelete
  <2> HIDE DEF k1, q, c, bits, top, p, wait
  <2>10. CASE q[p] # <<>>
    <3>1. k1 = [k EXCEPT !.que = q, !.klocktsk = c]
      BY <2>9, <2>10
    <3>2. /\ Only(k1, k, ReadyQue \cup {"klockwait"})
          /\ k1.que = q /\ k1.klocktsk = c /\ k1.klockwait = wait
          /\ k1.bitmap = k.bitmap /\ k1.top_priority = k.top_priority
      BY <1>1, <2>5, <3>1 DEF KernelField, Only, ReadyQue
    <3>3. Kernel(k1)
      BY <1>1, <1>4, <3>2
    <3>4. ReadyExact(k1)
      BY <1>1, <2>6, <2>10, <3>2 DEF ReadyExact
    <3>5. LET r1 == [r EXCEPT ![t] = {}]
          IN  /\ Ready(k1, r1)
              /\ Selected(k, r) /\ k.schedtsk # t => Selected(k1, r1)
              /\ \A h \in OtherHead : k1.que[h] = Unlink(k.que[h], t)
      BY <3>2, <3>3, <3>4, RemoveReady DEF q, c, wait
    <3> QED BY <1>2, <3>2, <3>5 DEF k1, wait
  <2>11. CASE q[p] = <<>>
    <3>1. k1 = [k EXCEPT !.que = q, !.klocktsk = c, !.bitmap = bits, !.top_priority = top]
      BY <2>9, <2>11
    <3>2. /\ Only(k1, k, ReadyQue \cup {"klockwait"})
          /\ k1.que = q /\ k1.klocktsk = c /\ k1.klockwait = wait
          /\ k1.bitmap = bits /\ k1.top_priority = top
      BY <1>1, <2>5, <3>1 DEF KernelField, Only, ReadyQue
    <3>3. Kernel(k1)
      BY <1>4, <2>6, <2>8, <3>2
    <3>4. ReadyExact(k1)
      BY <2>6, <2>7, <2>11, <3>2 DEF ReadyExact
    <3>5. LET r1 == [r EXCEPT ![t] = {}]
          IN  /\ Ready(k1, r1)
              /\ Selected(k, r) /\ k.schedtsk # t => Selected(k1, r1)
              /\ \A h \in OtherHead : k1.que[h] = Unlink(k.que[h], t)
      BY <3>2, <3>3, <3>4, RemoveReady DEF q, c, wait
    <3> QED BY <1>2, <3>2, <3>5 DEF k1, wait
  <2> QED BY <2>10, <2>11
<1> QED BY <1>5, <1>6

\* Task t has left its ready ring.
LeftReady(kd, k, r, t) ==
    /\ Ready(kd, [r EXCEPT ![t] = {}]) /\ Only(kd, k, ReadyQue \cup {"klockwait"})
    /\ kd.klockwait = [k.klockwait EXCEPT ![t] = FALSE]
    /\ \A g \in OtherHead : kd.que[g] = Unlink(k.que[g], t)

LEMMA LeaveReady ==
    ASSUME NEW k, NEW r, Ready(k, r), NEW t \in Task, MayLeave(k, r, t)
    PROVE  LeftReady(ReadyQueueDelete(k, t), k, r, t)
  BY DeleteReady, SMTT(40) DEF LeftReady

\* Task t has left the ready queue, or the queue of a lock.
MadeNonReady(k1, k, r, t) ==
    /\ Steady(k1, [r EXCEPT ![t] = {}])
    /\ Only(k1, k, ReadyQue \cup {"klockwait", "schedtsk"})
    /\ k1.klockwait = [k.klockwait EXCEPT ![t] = FALSE]
    /\ k1.klocktsk # t
    /\ \A h \in OtherHead : k1.que[h] = Unlink(k.que[h], t)

\* knl_make_non_ready takes a task from the ready queue, or from the queue of
\* a lock, and selects another task if it was the selected one.
LEMMA MakeNonReadySteady ==
    ASSUME NEW k, NEW r, Steady(k, r), NEW t \in Task, MayLeave(k, r, t)
    PROVE  MadeNonReady(MakeNonReady(k, t), k, r, t)
<1> DEFINE k1 == ReadyQueueDelete(k, t)
           k2 == Reschedule(k1)
           r1 == [r EXCEPT ![t] = {}]
           F == ReadyQue \cup {"klockwait", "schedtsk"}
<1>1. Ready(k, r) /\ Selected(k, r)
  BY DEF Steady
<1>2. /\ Ready(k1, r1)
      /\ Only(k1, k, ReadyQue \cup {"klockwait"})
      /\ k1.klockwait = [k.klockwait EXCEPT ![t] = FALSE]
      /\ k1.klocktsk # t
      /\ k.schedtsk # t => Selected(k1, r1)
      /\ \A h \in OtherHead : k1.que[h] = Unlink(k.que[h], t)
  BY <1>1, DeleteReady
<1>3. MakeNonReady(k, t) = IF k1.schedtsk = t THEN k2 ELSE k1
  BY DEF MakeNonReady
<1>4. k1.schedtsk = k.schedtsk
  BY <1>1, <1>2 DEF Only, Ready, Kernel, KernelField, ReadyQue
<1> HIDE DEF k1, r1
<1>5. Steady(k2, r1) /\ Only(k2, k1, {"schedtsk"})
  BY <1>2, RescheduleSteady
<1>6. Only(k2, k, F) /\ Only(k1, k, F)
  <2>1. ReadyQue \cup {"klockwait"} \subseteq F /\ {"schedtsk"} \subseteq F
    OBVIOUS
  <2> HIDE DEF k2, F
  <2>2. Only(k2, k, F)
    BY <1>2, <1>5, <2>1, OnlyTrans
  <2> QED BY <1>2, <2>1, <2>2 DEF Only
<1>7. k2.klockwait = k1.klockwait /\ k2.klocktsk = k1.klocktsk /\ k2.que = k1.que
  BY <1>2, <1>5 DEF Only, Ready, Kernel, KernelField
<1> HIDE DEF k2, F
<1>8. CASE k1.schedtsk = t
  BY <1>2, <1>3, <1>5, <1>6, <1>7, <1>8 DEF MadeNonReady, r1, F
<1>9. CASE k1.schedtsk # t
  BY <1>2, <1>3, <1>4, <1>6, <1>9 DEF MadeNonReady, r1, F, Steady
<1> QED BY <1>8, <1>9

\* A task in no ready ring may have any priority.
LEMMA ReadyPriority ==
    ASSUME NEW k, NEW r, Ready(k, r), NEW t \in Task, r[t] = {}, NEW p \in Pri
    PROVE  LET k1 == [k EXCEPT !.priority[t] = p]
           IN  /\ Ready(k1, r) /\ Only(k1, k, {"priority"})
               /\ k1.priority = [k.priority EXCEPT ![t] = p]
<1> DEFINE k1 == [k EXCEPT !.priority[t] = p]
<1>1. Kernel(k) /\ KernelField \subseteq DOMAIN k /\ r \in Places /\ Linked(k.que, r)
  BY DEF Ready, Kernel
<1>2. Only(k1, k, {"priority"}) /\ k1.priority = [k.priority EXCEPT ![t] = p]
  BY <1>1 DEF Only, KernelField
<1> HIDE DEF k1
<1>3. /\ k1.state = k.state /\ k1.ipriority = k.ipriority
      /\ k1.klocked = k.klocked /\ k1.klockwait = k.klockwait
      /\ k1.wspec = k.wspec /\ k1.wtmeb = k.wtmeb /\ k1.schedtsk = k.schedtsk
      /\ k1.bitmap = k.bitmap /\ k1.top_priority = k.top_priority
      /\ k1.klocktsk = k.klocktsk /\ k1.que = k.que /\ KernelField \subseteq DOMAIN k1
  BY <1>1, <1>2 DEF Only, KernelField
<1>4. k1.priority \in [Task -> Pri] /\ \A u \in Task : u # t => k1.priority[u] = k.priority[u]
  BY <1>1, <1>2 DEF Kernel
<1>5. Kernel(k1)
  BY <1>1, <1>3, <1>4 DEF Kernel
<1>6. SameReadyQueue(k1, k)
  BY <1>3 DEF SameReadyQueue
<1>7. \A u \in Task : r[u] \cap Pri # {} => k1.priority[u] = k.priority[u]
  BY <1>4
<1>8. \A u \in Task : k1.klockwait[u] => r[u] \cap Pri = {}
  BY <1>3 DEF Ready
<1>9. Linked(k1.que, r)
  BY <1>1, <1>3
<1>10. Ready(k1, r)
  BY <1>1, <1>5, <1>6, <1>7, <1>8, <1>9, ReadyKept
<1> QED BY <1>2, <1>10 DEF k1

\* The READY task t has moved to the ring of its new priority p.
MovedReady(k1, k, r, t, p) ==
    /\ Steady(k1, [r EXCEPT ![t] = {p}])
    /\ Only(k1, k, ReadyQue \cup {"klockwait", "schedtsk", "priority"})
    /\ k1.klockwait = [k.klockwait EXCEPT ![t] = FALSE]
    /\ k1.priority = [k.priority EXCEPT ![t] = p]
    /\ \A h \in OtherHead : k1.que[h] = Unlink(k.que[h], t)

\* knl_change_task_priority of a READY task: it moves to the end of the ring
\* of its new priority, also from the queue of a lock.
LEMMA MoveReadySteady ==
    ASSUME NEW k, NEW r, Ready(k, r), NEW t \in Task, MayLeave(k, r, t), NEW p \in Pri
    PROVE  MovedReady(MoveReady(k, t, p), k, r, t, p)
<1> DEFINE k1 == ReadyQueueDelete(k, t)
           k2 == [k1 EXCEPT !.priority[t] = p]
           k3 == ReadyQueueInsert(k2, t)
           k4 == Reschedule(k3)
           r1 == [r EXCEPT ![t] = {}]
           r2 == [r1 EXCEPT ![t] = {p}]
           F == ReadyQue \cup {"klockwait", "schedtsk", "priority"}
<1>1. KernelField \subseteq DOMAIN k /\ r \in Places /\ k.klockwait \in [Task -> BOOLEAN]
      /\ k.priority \in [Task -> Pri]
  BY DEF Ready, Kernel
<1>2. /\ Ready(k1, r1)
      /\ Only(k1, k, ReadyQue \cup {"klockwait"})
      /\ k1.klockwait = [k.klockwait EXCEPT ![t] = FALSE]
      /\ \A h \in OtherHead : k1.que[h] = Unlink(k.que[h], t)
  BY DeleteReady
<1>3. MoveReady(k, t, p) = k4
  BY DEF MoveReady
<1>4. r1[t] = {} /\ r2 = [r EXCEPT ![t] = {p}]
  BY <1>1 DEF Places
<1>5. KernelField \subseteq DOMAIN k1 /\ k1.priority = k.priority
  BY <1>1, <1>2 DEF Only, ReadyQue, KernelField
<1>6. k1.klockwait[t] = FALSE
  BY <1>1, <1>2
<1> HIDE DEF k1, r1
<1>7. /\ Ready(k2, r1) /\ Only(k2, k1, {"priority"})
      /\ k2.priority = [k1.priority EXCEPT ![t] = p]
  BY <1>2, <1>4, ReadyPriority
<1>8. /\ k2.klockwait = k1.klockwait /\ k2.que = k1.que /\ k2.priority[t] = p
      /\ KernelField \subseteq DOMAIN k2
  <2> HIDE DEF k2
  <2>1. k2.klockwait = k1.klockwait /\ k2.que = k1.que /\ KernelField \subseteq DOMAIN k2
    BY <1>5, <1>7 DEF Only, KernelField
  <2> QED BY <2>1, <1>1, <1>5, <1>7
<1> HIDE DEF k2
<1>9. ~k2.klockwait[t]
  BY <1>6, <1>8
<1>10. /\ Ready(k3, [r1 EXCEPT ![t] = {k2.priority[t]}]) /\ Only(k3, k2, ReadyQue)
       /\ \A h \in OtherHead : k3.que[h] = k2.que[h]
  <2> HIDE DEF k4, r2, F
  <2>1. Ready(k2, r1) /\ r1[t] = {} /\ ~k2.klockwait[t]
    BY <1>4, <1>7, <1>9
  <2> QED BY <2>1, InsertReady
<1>11. Ready(k3, r2)
  BY <1>8, <1>10
<1> HIDE DEF k3, r2
<1>12. Steady(k4, r2) /\ Only(k4, k3, {"schedtsk"})
  BY <1>11, RescheduleSteady
<1> HIDE DEF k4
<1>13. KernelField \subseteq DOMAIN k3 /\ k3.klockwait = k2.klockwait /\ k3.priority = k2.priority
  BY <1>8, <1>10 DEF Only, ReadyQue, KernelField
<1>14. k4.klockwait = k3.klockwait /\ k4.priority = k3.priority /\ k4.que = k3.que
  BY <1>12, <1>13 DEF Only, KernelField
<1>15. Only(k4, k, F)
  <2>1. /\ ReadyQue \cup {"klockwait"} \subseteq F /\ {"priority"} \subseteq F
        /\ ReadyQue \subseteq F /\ {"schedtsk"} \subseteq F /\ F \subseteq F
    OBVIOUS
  <2> HIDE DEF F
  <2>2. Only(k2, k, F)
    BY <1>2, <1>7, <2>1, OnlyTrans
  <2>3. Only(k3, k, F)
    BY <1>10, <2>1, <2>2, OnlyTrans
  <2> QED BY <1>12, <2>1, <2>3, OnlyTrans
<1>16. /\ k4.klockwait = [k.klockwait EXCEPT ![t] = FALSE]
       /\ k4.priority = [k.priority EXCEPT ![t] = p]
       /\ \A h \in OtherHead : k4.que[h] = Unlink(k.que[h], t)
  BY <1>2, <1>5, <1>7, <1>8, <1>10, <1>13, <1>14
<1> QED BY <1>3, <1>4, <1>12, <1>15, <1>16 DEF MovedReady

(***************************************************************************)
(* Waiting and its end.                                                    *)
(***************************************************************************)
\* Task t has left its wait queue and the timer queue.
WaitCancelled(k1, k, r, t) ==
    /\ Steady(k1, [r EXCEPT ![t] = {}])
    /\ Only(k1, k, {"que", "wtmeb"})
    /\ k1.wtmeb = [k.wtmeb EXCEPT ![t] = FALSE]
    /\ \A h \in OtherHead : k1.que[h] = Unlink(k.que[h], t)

\* knl_wait_cancel: the task leaves its wait queue and the timer queue.
LEMMA WaitCancelSteady ==
    ASSUME NEW k, NEW r, Steady(k, r), NEW t \in Task, r[t] \cap Pri = {}
    PROVE  WaitCancelled(WaitCancel(k, t), k, r, t)
<1> DEFINE que == k.que
           new == QueRemove(que, t)
           k1 == WaitCancel(k, t)
           r1 == [r EXCEPT ![t] = {}]
<1>1. /\ Kernel(k) /\ que \in Rings /\ r \in Places /\ Linked(que, r)
      /\ KernelField \subseteq DOMAIN k
      /\ \A u \in Task : k.klockwait[u] => r[u] \cap Pri = {}
  BY DEF Steady, Ready, Kernel
<1>2. /\ new \in Rings /\ Linked(new, r1)
      /\ \A h \in QueHead : h \notin r[t] => new[h] = que[h]
  <2> HIDE DEF que
  <2> QED BY <1>1, QueRemoveLinked
<1>3. k1 = [k EXCEPT !.wtmeb[t] = FALSE, !.que = new]
  BY DEF WaitCancel
<1>4. \A h \in OtherHead : new[h] = Unlink(k.que[h], t)
  BY <1>1, OtherHeads DEF QueRemove, Rings
<1>5. r1 \in Places /\ r1[t] = {} /\ \A u \in Task : u # t => r1[u] = r[u]
  BY <1>1 DEF Places
<1> HIDE DEF k1, new, r1
<1>6. /\ k1.que = new /\ k1.wtmeb = [k.wtmeb EXCEPT ![t] = FALSE]
      /\ Only(k1, k, {"que", "wtmeb"})
  BY <1>1, <1>3 DEF KernelField, Only
<1>7. /\ k1.state = k.state /\ k1.priority = k.priority /\ k1.ipriority = k.ipriority
      /\ k1.klocked = k.klocked /\ k1.klockwait = k.klockwait
      /\ k1.wspec = k.wspec /\ k1.bitmap = k.bitmap /\ k1.top_priority = k.top_priority
      /\ k1.klocktsk = k.klocktsk /\ k1.schedtsk = k.schedtsk
      /\ KernelField \subseteq DOMAIN k1
  BY <1>1, <1>6 DEF Only, KernelField
<1>8. Kernel(k1)
  <2>1. k1.wtmeb \in [Task -> BOOLEAN]
    BY <1>1, <1>6 DEF Kernel
  <2> QED BY <1>1, <1>2, <1>6, <1>7, <2>1 DEF Kernel
<1>9. SameReadyQueue(k1, k)
  BY <1>2, <1>6, <1>7, PriIsNatural DEF SameReadyQueue
<1>10. \A u \in Task : r1[u] \cap Pri = r[u] \cap Pri
  BY <1>5
<1>11. \A u \in Task : k1.klockwait[u] => r1[u] \cap Pri = {}
  BY <1>1, <1>7, <1>10
<1>12. Linked(k1.que, r1)
  BY <1>2, <1>6
<1>13. \A u \in Task : r[u] \cap Pri # {} => k1.priority[u] = k.priority[u]
  BY <1>7
<1>14. Steady(k1, r1)
  BY <1>5, <1>8, <1>9, <1>10, <1>11, <1>12, <1>13, SteadyKept
<1>15. \A h \in OtherHead : k1.que[h] = Unlink(k.que[h], t)
  BY <1>4, <1>6
<1> QED BY <1>6, <1>14, <1>15 DEF WaitCancelled, k1, r1

\* A change of fields that have nothing to do with the ready queue and the
\* rings: what remains is the types of the fields.
LEMMA FieldsChange ==
    ASSUME NEW k, NEW r, Steady(k, r), NEW k1, NEW F, Only(k1, k, F),
           F \cap {"que", "bitmap", "top_priority", "klocktsk", "schedtsk",
                   "priority", "ipriority", "klocked", "klockwait"} = {},
           k1.state \in [Task -> TSTAT], k1.wspec \in [Task -> WSpec],
           k1.wtmeb \in [Task -> BOOLEAN]
    PROVE  Steady(k1, r)
<1>1. Kernel(k) /\ KernelField \subseteq DOMAIN k
  BY DEF Steady, Ready, Kernel
<1>2. DOMAIN k1 = DOMAIN k /\ \A f \in DOMAIN k : f \notin F => k1[f] = k[f]
  BY DEF Only
<1>3. /\ "que" \in DOMAIN k /\ "que" \notin F /\ "bitmap" \in DOMAIN k /\ "bitmap" \notin F
      /\ "top_priority" \in DOMAIN k /\ "top_priority" \notin F
      /\ "klocktsk" \in DOMAIN k /\ "klocktsk" \notin F
      /\ "schedtsk" \in DOMAIN k /\ "schedtsk" \notin F
      /\ "priority" \in DOMAIN k /\ "priority" \notin F
      /\ "ipriority" \in DOMAIN k /\ "ipriority" \notin F
      /\ "klocked" \in DOMAIN k /\ "klocked" \notin F
      /\ "klockwait" \in DOMAIN k /\ "klockwait" \notin F
  BY <1>1 DEF KernelField
<1>4. /\ k1.priority = k.priority /\ k1.ipriority = k.ipriority
      /\ k1.klocked = k.klocked /\ k1.klockwait = k.klockwait
      /\ k1.que = k.que /\ k1.bitmap = k.bitmap /\ k1.top_priority = k.top_priority
      /\ k1.klocktsk = k.klocktsk /\ k1.schedtsk = k.schedtsk
  BY <1>2, <1>3
<1>5. Kernel(k1)
  BY <1>1, <1>2, <1>4 DEF Kernel
<1> QED BY <1>4, <1>5, SteadySame

WaitEnds == ReadyQue \cup {"state", "schedtsk", "wtmeb", "wspec", "wercd"}

\* The wait of task t is over: it is READY, or only suspended.
WaitReleased(k1, k, r, t, ercd) ==
    LET ready == k.state[t] = "WAIT"
    IN  /\ Steady(k1, [r EXCEPT ![t] = IF ready THEN {k.priority[t]} ELSE {}])
        /\ Only(k1, k, WaitEnds)
        /\ k1.state = [k.state EXCEPT ![t] = IF ready THEN "READY" ELSE "SUSPEND"]
        /\ k1.wtmeb = [k.wtmeb EXCEPT ![t] = FALSE]
        /\ k1.wspec = [k.wspec EXCEPT ![t] = NoSpec]
        /\ k1.wercd = [k.wercd EXCEPT ![t] = ercd]
        /\ \A h \in OtherHead : k1.que[h] = Unlink(k.que[h], t)

\* knl_wait_release: the task is READY again, or only suspended.
LEMMA WaitReleaseSteady ==
    ASSUME NEW k, NEW r, Steady(k, r), NEW t \in Task, NEW ercd,
           k.state[t] \in WaitBit, r[t] \cap Pri = {}, ~k.klockwait[t]
    PROVE  WaitReleased(WaitRelease(k, t, ercd), k, r, t, ercd)
<1> DEFINE k1 == WaitCancel(k, t)
           k2 == MakeNonWait(k1, t)
           k3 == [k2 EXCEPT !.wspec[t] = NoSpec, !.wercd[t] = ercd]
           ready == k.state[t] = "WAIT"
           r1 == [r EXCEPT ![t] = {}]
           r2 == [r EXCEPT ![t] = IF ready THEN {k.priority[t]} ELSE {}]
           s == IF ready THEN "READY" ELSE "SUSPEND"
<1>1. /\ KernelField \subseteq DOMAIN k /\ Kernel(k) /\ r \in Places
  BY DEF Steady, Ready, Kernel
<1>2. /\ Steady(k1, r1) /\ Only(k1, k, {"que", "wtmeb"})
      /\ k1.wtmeb = [k.wtmeb EXCEPT ![t] = FALSE]
      /\ \A h \in OtherHead : k1.que[h] = Unlink(k.que[h], t)
  BY WaitCancelSteady DEF WaitCancelled
<1>3. WaitRelease(k, t, ercd) = k3
  BY DEF WaitRelease
<1> HIDE DEF k1
<1>4. /\ k1.state = k.state /\ k1.priority = k.priority /\ k1.klockwait = k.klockwait
      /\ k1.wspec = k.wspec /\ k1.wercd = k.wercd /\ KernelField \subseteq DOMAIN k1
  BY <1>1, <1>2 DEF Only, KernelField
<1>5. r1[t] = {} /\ r1 \in Places
  BY <1>1 DEF Places
<1>6. /\ Steady(k2, r2) /\ Only(k2, k1, ReadyQue \cup {"state", "schedtsk"})
      /\ k2.state = [k.state EXCEPT ![t] = s]
      /\ \A h \in OtherHead : k2.que[h] = k1.que[h]
  <2>1. CASE ready
    <3> DEFINE m == MakeReady(k1, t)
               p == k1.priority[t]
    <3>1. k2 = m
      BY <1>4, <2>1 DEF MakeNonWait
    <3>2. ~k1.klockwait[t]
      BY <1>4
    <3> HIDE DEF k2, r1
    <3>3. MadeReady(m, k1, r1, t)
      BY <1>2, <1>5, <3>2, MakeReadySteady
    <3>4. r2 = [r1 EXCEPT ![t] = {p}]
      BY <1>1, <1>4, <2>1 DEF Places, r1
    <3> HIDE DEF m, r2
    <3> QED BY <1>4, <2>1, <3>1, <3>3, <3>4 DEF MadeReady
  <2>2. CASE ~ready
    <3>1. k2 = [k1 EXCEPT !.state[t] = "SUSPEND"]
      BY <1>4, <2>2 DEF MakeNonWait
    <3> HIDE DEF k2, r1
    <3>2. /\ k2.state = [k.state EXCEPT ![t] = "SUSPEND"] /\ Only(k2, k1, {"state"})
          /\ k2.que = k1.que /\ k2.wtmeb = k1.wtmeb /\ k2.wspec = k1.wspec
      BY <1>4, <3>1 DEF KernelField, Only
    <3>3. Kernel(k1)
      BY <1>2 DEF Steady, Ready
    <3>4. k2.state \in [Task -> TSTAT]
      BY <1>1, <3>2 DEF Kernel, TSTAT
    <3>5. Steady(k2, r1)
      <4>1. k2.wtmeb \in [Task -> BOOLEAN] /\ k2.wspec \in [Task -> WSpec]
        BY <3>2, <3>3 DEF Kernel
      <4>2. {"state"} \cap {"que", "bitmap", "top_priority", "klocktsk", "schedtsk",
                   "priority", "ipriority", "klocked", "klockwait"} = {}
        OBVIOUS
      <4> QED BY <1>2, <3>2, <3>4, <4>1, <4>2, FieldsChange
    <3>6. r2 = r1
      BY <2>2 DEF r1
    <3>7. Only(k2, k1, ReadyQue \cup {"state", "schedtsk"})
      BY <3>2 DEF Only
    <3> HIDE DEF r2
    <3> QED BY <2>2, <3>2, <3>5, <3>6, <3>7
  <2> HIDE DEF ready
  <2> QED BY <2>1, <2>2
<1> HIDE DEF k2, r2, s, r1
<1>7. /\ k2.wspec = k1.wspec /\ k2.wtmeb = k1.wtmeb /\ k2.wercd = k1.wercd
      /\ KernelField \subseteq DOMAIN k2
  BY <1>4, <1>6 DEF Only, KernelField, ReadyQue
<1>8. /\ Only(k3, k2, {"wspec", "wercd"})
      /\ k3.wspec = [k.wspec EXCEPT ![t] = NoSpec]
      /\ k3.wercd = [k.wercd EXCEPT ![t] = ercd]
      /\ k3.state = k2.state /\ k3.wtmeb = k2.wtmeb /\ k3.que = k2.que
  BY <1>4, <1>7 DEF Only, KernelField
<1> HIDE DEF k3
<1>9. Steady(k3, r2)
  <2>1. Kernel(k2)
    BY <1>6 DEF Steady, Ready
  <2>2. k3.wspec \in [Task -> WSpec]
    BY <1>1, <1>8 DEF Kernel, WSpec
  <2>3. k3.state \in [Task -> TSTAT] /\ k3.wtmeb \in [Task -> BOOLEAN]
    BY <1>8, <2>1 DEF Kernel
  <2>4. {"wspec", "wercd"} \cap {"que", "bitmap", "top_priority", "klocktsk", "schedtsk",
                   "priority", "ipriority", "klocked", "klockwait"} = {}
    OBVIOUS
  <2> QED BY <1>6, <1>8, <2>2, <2>3, <2>4, FieldsChange
<1>10. Only(k3, k, WaitEnds)
  <2>1. /\ {"que", "wtmeb"} \subseteq WaitEnds
        /\ ReadyQue \cup {"state", "schedtsk"} \subseteq WaitEnds
        /\ {"wspec", "wercd"} \subseteq WaitEnds /\ WaitEnds \subseteq WaitEnds
    BY DEF WaitEnds, ReadyQue
  <2>2. Only(k2, k, WaitEnds)
    BY <1>2, <1>6, <2>1, OnlyTrans
  <2> QED BY <1>8, <2>1, <2>2, OnlyTrans
<1>11. /\ k3.state = [k.state EXCEPT ![t] = s]
       /\ k3.wtmeb = [k.wtmeb EXCEPT ![t] = FALSE]
       /\ \A h \in OtherHead : k3.que[h] = Unlink(k.que[h], t)
  BY <1>2, <1>6, <1>7, <1>8
<1> QED BY <1>3, <1>8, <1>9, <1>10, <1>11 DEF WaitReleased, r2, s, ready

(***************************************************************************)
(* The end of a task.                                                      *)
(***************************************************************************)
Dormancy == {"state", "priority", "bpriority", "wupcnt", "suscnt", "klockwait", "klocked",
             "wspec", "wercd"}

\* Task t is DORMANT; the rings are as before.
MadeDormant(k1, k, r, t) ==
    /\ Steady(k1, r) /\ Only(k1, k, Dormancy)
    /\ k1.state = [k.state EXCEPT ![t] = "DORMANT"]
    /\ k1.priority = [k.priority EXCEPT ![t] = k.ipriority[t]]
    /\ k1.klocked = [k.klocked EXCEPT ![t] = FALSE]
    /\ k1.klockwait = [k.klockwait EXCEPT ![t] = FALSE]
    /\ k1.wspec = [k.wspec EXCEPT ![t] = NoSpec]
    /\ k1.wercd = [k.wercd EXCEPT ![t] = "none"]

\* knl_make_dormant links nothing and unlinks nothing.
LEMMA MakeDormantSteady ==
    ASSUME NEW k, NEW r, Steady(k, r), NEW t \in Task, r[t] \cap Pri = {}
    PROVE  MadeDormant(MakeDormant(k, t), k, r, t)
<1> DEFINE k1 == MakeDormant(k, t)
<1>1. /\ Kernel(k) /\ r \in Places /\ Linked(k.que, r) /\ KernelField \subseteq DOMAIN k
      /\ \A u \in Task : k.klockwait[u] => r[u] \cap Pri = {}
      /\ \A u \in Task : r[u] \cap Pri \subseteq {k.priority[u]}
  BY DEF Steady, Ready, Kernel
<1>2. /\ Only(k1, k, Dormancy)
      /\ k1.state = [k.state EXCEPT ![t] = "DORMANT"]
      /\ k1.priority = [k.priority EXCEPT ![t] = k.ipriority[t]]
      /\ k1.klocked = [k.klocked EXCEPT ![t] = FALSE]
      /\ k1.klockwait = [k.klockwait EXCEPT ![t] = FALSE]
      /\ k1.wspec = [k.wspec EXCEPT ![t] = NoSpec]
      /\ k1.wercd = [k.wercd EXCEPT ![t] = "none"]
  BY <1>1 DEF MakeDormant, KernelField, Only, Dormancy
<1> HIDE DEF k1
<1>3. /\ k1.ipriority = k.ipriority /\ k1.wtmeb = k.wtmeb /\ k1.que = k.que
      /\ k1.bitmap = k.bitmap /\ k1.top_priority = k.top_priority
      /\ k1.klocktsk = k.klocktsk /\ k1.schedtsk = k.schedtsk
      /\ KernelField \subseteq DOMAIN k1
  BY <1>1, <1>2 DEF Only, Dormancy, KernelField
<1>4. /\ k1.state \in [Task -> TSTAT] /\ k1.priority \in [Task -> Pri]
      /\ k1.wspec \in [Task -> WSpec]
  BY <1>1, <1>2 DEF Kernel, TSTAT, WSpec
<1>5. k1.klocked \in [Task -> BOOLEAN] /\ k1.klockwait \in [Task -> BOOLEAN]
  BY <1>1, <1>2 DEF Kernel
<1>6. Kernel(k1)
  BY <1>1, <1>3, <1>4, <1>5 DEF Kernel
<1>7. SameReadyQueue(k1, k)
  BY <1>3 DEF SameReadyQueue
<1>8. \A u \in Task : r[u] \cap Pri # {} => k1.priority[u] = k.priority[u]
  BY <1>1, <1>2 DEF Kernel
<1>9. \A u \in Task : k1.klockwait[u] => r[u] \cap Pri = {}
  BY <1>1, <1>2 DEF Kernel
<1>10. Linked(k1.que, r)
  BY <1>1, <1>3
<1>11. Steady(k1, r)
  BY <1>1, <1>6, <1>7, <1>8, <1>9, <1>10, SteadyKept
<1> QED BY <1>2, <1>11 DEF MadeDormant, k1

\* Task t has left every ring.
Detached(k1, k, r, t) ==
    /\ Steady(k1, [r EXCEPT ![t] = {}])
    /\ Only(k1, k, ReadyQue \cup {"klockwait", "schedtsk", "wtmeb"})
    /\ k1.wtmeb = IF k.state[t] \in WaitBit THEN [k.wtmeb EXCEPT ![t] = FALSE]
                  ELSE k.wtmeb
    /\ [k1.klockwait EXCEPT ![t] = FALSE] = [k.klockwait EXCEPT ![t] = FALSE]
    /\ \A h \in OtherHead : k1.que[h] = Unlink(k.que[h], t)

\* A task about to end leaves the ring it is in.
LEMMA DetachSteady ==
    ASSUME NEW k, NEW r, Steady(k, r), NEW t \in Task,
           k.state[t] = "READY" => MayLeave(k, r, t),
           k.state[t] \in WaitBit => r[t] \cap Pri = {},
           k.state[t] \notin WaitBit \cup {"READY"} => r[t] = {}
    PROVE  Detached(Detach(k, t), k, r, t)
<1> DEFINE k1 == Detach(k, t)
           r1 == [r EXCEPT ![t] = {}]
           F == ReadyQue \cup {"klockwait", "schedtsk", "wtmeb"}
           w == IF k.state[t] \in WaitBit THEN [k.wtmeb EXCEPT ![t] = FALSE] ELSE k.wtmeb
<1>1. /\ KernelField \subseteq DOMAIN k /\ r \in Places /\ Linked(k.que, r)
      /\ k.klockwait \in [Task -> BOOLEAN]
  BY DEF Steady, Ready, Kernel
<1>2. CASE k.state[t] = "READY"
  <2> DEFINE m == MakeNonReady(k, t)
  <2>1. k1 = m /\ w = k.wtmeb
    BY <1>2 DEF Detach, WaitBit
  <2>2. /\ Steady(m, r1)
        /\ Only(m, k, ReadyQue \cup {"klockwait", "schedtsk"})
        /\ m.klockwait = [k.klockwait EXCEPT ![t] = FALSE]
        /\ \A h \in OtherHead : m.que[h] = Unlink(k.que[h], t)
    BY <1>2, MakeNonReadySteady DEF MadeNonReady
  <2> HIDE DEF m, k1, r1, w
  <2>3. Only(m, k, F) /\ m.wtmeb = k.wtmeb
    BY <1>1, <2>2 DEF Only, KernelField, ReadyQue
  <2>4. [m.klockwait EXCEPT ![t] = FALSE] = [k.klockwait EXCEPT ![t] = FALSE]
    BY <1>1, <2>2
  <2> QED BY <2>1, <2>2, <2>3, <2>4 DEF Detached, k1, r1, w
<1>3. CASE k.state[t] \in WaitBit
  <2> DEFINE m == WaitCancel(k, t)
  <2>1. k1 = m /\ w = [k.wtmeb EXCEPT ![t] = FALSE]
    BY <1>3 DEF Detach, WaitBit
  <2>2. /\ Steady(m, r1) /\ Only(m, k, {"que", "wtmeb"})
        /\ m.wtmeb = [k.wtmeb EXCEPT ![t] = FALSE]
        /\ \A h \in OtherHead : m.que[h] = Unlink(k.que[h], t)
    BY <1>3, WaitCancelSteady DEF WaitCancelled
  <2> HIDE DEF m, k1, r1, w
  <2>3. Only(m, k, F) /\ m.klockwait = k.klockwait
    BY <1>1, <2>2 DEF Only, KernelField, ReadyQue
  <2> QED BY <2>1, <2>2, <2>3 DEF Detached, k1, r1, w
<1>4. CASE k.state[t] \notin WaitBit \cup {"READY"}
  <2>1. k1 = k /\ w = k.wtmeb
    BY <1>4 DEF Detach, WaitBit
  <2>2. r1 = r
    BY <1>1, <1>4 DEF Places
  <2>3. \A h \in OtherHead : k.que[h] = Unlink(k.que[h], t)
    BY <1>1, <1>4, OtherHeads DEF Unlink, Linked
  <2>4. Only(k, k, F)
    BY DEF Only
  <2> HIDE DEF k1, r1, w
  <2> QED BY <2>1, <2>2, <2>3, <2>4 DEF Detached, k1, r1, w
<1> QED BY <1>2, <1>3, <1>4

(***************************************************************************)
(* Suspension.                                                             *)
(***************************************************************************)
LEMMA SuspendCount ==
    ASSUME NEW k, NEW r, Steady(k, r), NEW t \in Task, NEW n
    PROVE  LET k1 == [k EXCEPT !.suscnt[t] = n]
           IN  Steady(k1, r) /\ Only(k1, k, {"suscnt"})
<1> DEFINE k1 == [k EXCEPT !.suscnt[t] = n]
<1>1. Kernel(k) /\ KernelField \subseteq DOMAIN k
  BY DEF Steady, Ready, Kernel
<1>2. Only(k1, k, {"suscnt"})
  BY <1>1 DEF Only, KernelField
<1> HIDE DEF k1
<1>3. k1.state = k.state /\ k1.wspec = k.wspec /\ k1.wtmeb = k.wtmeb
  BY <1>1, <1>2 DEF Only, KernelField
<1>4. {"suscnt"} \cap {"que", "bitmap", "top_priority", "klocktsk", "schedtsk",
                       "priority", "ipriority", "klocked", "klockwait"} = {}
  OBVIOUS
<1>5. /\ k1.state \in [Task -> TSTAT] /\ k1.wspec \in [Task -> WSpec]
      /\ k1.wtmeb \in [Task -> BOOLEAN]
  BY <1>1, <1>3 DEF Kernel
<1>6. Steady(k1, r)
  BY <1>2, <1>4, <1>5, FieldsChange
<1> QED BY <1>2, <1>6 DEF k1

\* A task's state changes with everything else as it is.
LEMMA StateChange ==
    ASSUME NEW k, NEW r, Steady(k, r), NEW t \in Task, NEW s \in TSTAT
    PROVE  LET k1 == [k EXCEPT !.state[t] = s]
           IN  /\ Steady(k1, r) /\ Only(k1, k, {"state"})
               /\ k1.state = [k.state EXCEPT ![t] = s]
<1> DEFINE k1 == [k EXCEPT !.state[t] = s]
<1>1. Kernel(k) /\ KernelField \subseteq DOMAIN k
  BY DEF Steady, Ready, Kernel
<1>2. Only(k1, k, {"state"}) /\ k1.state = [k.state EXCEPT ![t] = s]
  BY <1>1 DEF Only, KernelField
<1> HIDE DEF k1
<1>3. k1.wspec = k.wspec /\ k1.wtmeb = k.wtmeb
  BY <1>1, <1>2 DEF Only, KernelField
<1>4. {"state"} \cap {"que", "bitmap", "top_priority", "klocktsk", "schedtsk",
                      "priority", "ipriority", "klocked", "klockwait"} = {}
  OBVIOUS
<1>5. /\ k1.state \in [Task -> TSTAT] /\ k1.wspec \in [Task -> WSpec]
      /\ k1.wtmeb \in [Task -> BOOLEAN]
  BY <1>1, <1>2, <1>3 DEF Kernel
<1>6. Steady(k1, r)
  BY <1>2, <1>4, <1>5, FieldsChange
<1> QED BY <1>2, <1>6 DEF k1

\* Task t is suspended, or waits and is suspended.
Suspended(k1, k, r, t) ==
    LET ready == k.state[t] = "READY"
        s == IF ready THEN "SUSPEND"
             ELSE IF k.state[t] = "WAIT" THEN "WAITSUS" ELSE k.state[t]
    IN  /\ Steady(k1, IF ready THEN [r EXCEPT ![t] = {}] ELSE r)
        /\ Only(k1, k, ReadyQue \cup {"klockwait", "schedtsk", "state", "suscnt"})
        /\ k1.state = [k.state EXCEPT ![t] = s]
        /\ k1.klockwait = IF ready THEN [k.klockwait EXCEPT ![t] = FALSE] ELSE k.klockwait
        /\ \A h \in OtherHead :
              k1.que[h] = IF ready THEN Unlink(k.que[h], t) ELSE k.que[h]

LEMMA SuspendSteady ==
    ASSUME NEW k, NEW r, Steady(k, r), NEW t \in Task,
           k.state[t] = "READY" => MayLeave(k, r, t)
    PROVE  Suspended(Suspend(k, t), k, r, t)
<1> DEFINE k1 == [k EXCEPT !.suscnt[t] = @ + 1]
           F == ReadyQue \cup {"klockwait", "schedtsk", "state", "suscnt"}
<1>1. /\ KernelField \subseteq DOMAIN k /\ k.state \in [Task -> TSTAT]
  BY DEF Steady, Ready, Kernel
<1>2. Steady(k1, r) /\ Only(k1, k, {"suscnt"})
  <2> DEFINE n == k.suscnt[t] + 1
  <2>1. k1 = [k EXCEPT !.suscnt[t] = n]
    OBVIOUS
  <2> HIDE DEF k1, n
  <2> QED BY <2>1, SuspendCount
<1>3. Suspend(k, t) =
        CASE k.state[t] = "READY" -> [MakeNonReady(k1, t) EXCEPT !.state[t] = "SUSPEND"]
          [] k.state[t] = "WAIT" -> [k1 EXCEPT !.state[t] = "WAITSUS"]
          [] OTHER -> k1
  BY DEF Suspend
<1> HIDE DEF k1
<1>4. /\ k1.state = k.state /\ k1.priority = k.priority /\ k1.klockwait = k.klockwait
      /\ k1.que = k.que /\ KernelField \subseteq DOMAIN k1
  BY <1>1, <1>2 DEF Only, KernelField
<1>5. /\ {"suscnt"} \subseteq F /\ {"state"} \subseteq F
      /\ ReadyQue \cup {"klockwait", "schedtsk"} \subseteq F /\ F \subseteq F
  OBVIOUS
<1>6. CASE k.state[t] = "READY"
  <2> DEFINE m == MakeNonReady(k1, t)
             n == [m EXCEPT !.state[t] = "SUSPEND"]
             r1 == [r EXCEPT ![t] = {}]
  <2>1. Suspend(k, t) = n
    BY <1>3, <1>6
  <2>2. MayLeave(k1, r, t)
    BY <1>4, <1>6 DEF MayLeave, Runnable
  <2>3. MadeNonReady(m, k1, r, t)
    BY <1>2, <2>2, MakeNonReadySteady
  <2> HIDE DEF m, r1
  <2>4. /\ Steady(m, r1) /\ Only(m, k1, ReadyQue \cup {"klockwait", "schedtsk"})
        /\ m.klockwait = [k.klockwait EXCEPT ![t] = FALSE]
        /\ \A h \in OtherHead : m.que[h] = Unlink(k.que[h], t)
    BY <1>4, <2>3 DEF MadeNonReady, r1
  <2>5. m.state = k.state /\ KernelField \subseteq DOMAIN m
    BY <1>4, <2>4 DEF Only, KernelField, ReadyQue
  <2>6. "SUSPEND" \in TSTAT
    BY DEF TSTAT
  <2>7. /\ Steady(n, r1) /\ Only(n, m, {"state"})
        /\ n.state = [m.state EXCEPT ![t] = "SUSPEND"]
    BY <2>4, <2>6, StateChange
  <2> HIDE DEF n, F
  <2>8. n.klockwait = m.klockwait /\ n.que = m.que
    BY <2>5, <2>7 DEF Only, KernelField
  <2>9. Only(n, k, F)
    <3>1. Only(m, k, F)
      BY <1>2, <1>5, <2>4, OnlyTrans
    <3> QED BY <3>1, <1>5, <2>7, OnlyTrans
  <2> QED BY <1>6, <2>1, <2>4, <2>5, <2>7, <2>8, <2>9 DEF Suspended, F, r1
<1>7. CASE k.state[t] = "WAIT"
  <2> DEFINE n == [k1 EXCEPT !.state[t] = "WAITSUS"]
  <2>1. Suspend(k, t) = n
    BY <1>3, <1>7
  <2>2. "WAITSUS" \in TSTAT
    BY DEF TSTAT
  <2>3. /\ Steady(n, r) /\ Only(n, k1, {"state"})
        /\ n.state = [k1.state EXCEPT ![t] = "WAITSUS"]
    BY <1>2, <2>2, StateChange
  <2> HIDE DEF n, F
  <2>4. n.klockwait = k.klockwait /\ n.que = k.que
    BY <1>4, <2>3 DEF Only, KernelField
  <2>5. Only(n, k, F)
    BY <1>2, <1>5, <2>3, OnlyTrans
  <2> QED BY <1>4, <1>7, <2>1, <2>3, <2>4, <2>5 DEF Suspended, F
<1>8. CASE k.state[t] \notin {"READY", "WAIT"}
  <2>1. Suspend(k, t) = k1
    BY <1>3, <1>8
  <2>2. k1.state = [k.state EXCEPT ![t] = k.state[t]]
    BY <1>1, <1>4
  <2>3. Only(k1, k, F)
    BY <1>2 DEF Only
  <2> HIDE DEF F
  <2> QED BY <1>2, <1>4, <1>8, <2>1, <2>2, <2>3 DEF Suspended, F
<1> QED BY <1>6, <1>7, <1>8

\* A suspension of task t ends, or one request less is outstanding.
Unsuspended(k1, k, r, t) ==
    \/ Steady(k1, r) /\ Only(k1, k, {"suscnt"})
    \/ /\ k.state[t] = "SUSPEND"
       /\ Steady(k1, [r EXCEPT ![t] = {k.priority[t]}])
       /\ Only(k1, k, ReadyQue \cup {"state", "schedtsk", "suscnt"})
       /\ k1.state = [k.state EXCEPT ![t] = "READY"]
       /\ \A h \in OtherHead : k1.que[h] = k.que[h]
    \/ /\ k.state[t] # "SUSPEND"
       /\ Steady(k1, r)
       /\ Only(k1, k, {"state", "suscnt"})
       /\ k1.state = [k.state EXCEPT ![t] = "WAIT"]

LEMMA ResumeSteady ==
    ASSUME NEW k, NEW r, Steady(k, r), NEW t \in Task, NEW count,
           k.state[t] = "SUSPEND" => r[t] = {} /\ ~k.klockwait[t]
    PROVE  Unsuspended(Resume(k, t, count), k, r, t)
<1> DEFINE k1 == [k EXCEPT !.suscnt[t] = count]
<1>1. /\ KernelField \subseteq DOMAIN k /\ k.state \in [Task -> TSTAT]
  BY DEF Steady, Ready, Kernel
<1>2. Steady(k1, r) /\ Only(k1, k, {"suscnt"})
  BY SuspendCount
<1>3. Resume(k, t, count) =
        IF count > 0 THEN k1
        ELSE IF k.state[t] = "SUSPEND" THEN MakeReady(k1, t)
        ELSE [k1 EXCEPT !.state[t] = "WAIT"]
  BY DEF Resume
<1> HIDE DEF k1
<1>4. /\ k1.state = k.state /\ k1.priority = k.priority /\ k1.klockwait = k.klockwait
      /\ k1.que = k.que /\ KernelField \subseteq DOMAIN k1
  BY <1>1, <1>2 DEF Only, KernelField
<1>5. CASE count > 0
  BY <1>2, <1>3, <1>5 DEF Unsuspended
<1>6. CASE ~(count > 0) /\ k.state[t] = "SUSPEND"
  <2> DEFINE m == MakeReady(k1, t)
             F == ReadyQue \cup {"state", "schedtsk", "suscnt"}
  <2>1. Resume(k, t, count) = m
    BY <1>3, <1>6
  <2>2. r[t] = {} /\ ~k1.klockwait[t]
    BY <1>4, <1>6
  <2>3. MadeReady(m, k1, r, t)
    BY <1>2, <2>2, MakeReadySteady
  <2> HIDE DEF m
  <2>4. /\ Steady(m, [r EXCEPT ![t] = {k.priority[t]}])
        /\ Only(m, k1, ReadyQue \cup {"state", "schedtsk"})
        /\ m.state = [k.state EXCEPT ![t] = "READY"]
        /\ \A h \in OtherHead : m.que[h] = k.que[h]
    BY <1>4, <2>3 DEF MadeReady
  <2>5. {"suscnt"} \subseteq F /\ ReadyQue \cup {"state", "schedtsk"} \subseteq F
    OBVIOUS
  <2> HIDE DEF F
  <2>6. Only(m, k, F)
    BY <1>2, <2>4, <2>5, OnlyTrans
  <2> QED BY <1>6, <2>1, <2>4, <2>6 DEF Unsuspended, F
<1>7. CASE ~(count > 0) /\ k.state[t] # "SUSPEND"
  <2> DEFINE n == [k1 EXCEPT !.state[t] = "WAIT"]
             F == {"state", "suscnt"}
  <2>1. Resume(k, t, count) = n
    BY <1>3, <1>7
  <2>2. "WAIT" \in TSTAT
    BY DEF TSTAT
  <2>3. /\ Steady(n, r) /\ Only(n, k1, {"state"})
        /\ n.state = [k1.state EXCEPT ![t] = "WAIT"]
    BY <1>2, <2>2, StateChange
  <2>4. {"suscnt"} \subseteq F /\ {"state"} \subseteq F
    OBVIOUS
  <2> HIDE DEF n, F
  <2>5. Only(n, k, F)
    BY <1>2, <2>3, <2>4, OnlyTrans
  <2> QED BY <1>4, <1>7, <2>1, <2>3, <2>5 DEF Unsuspended, F
<1> QED BY <1>5, <1>6, <1>7

(***************************************************************************)
(* Waiting begins.                                                         *)
(***************************************************************************)
\* Task t, which was READY, waits, with its timer event queued if the time is
\* limited.
MadeWait(k1, k, r, t, timed) ==
    /\ Steady(k1, [r EXCEPT ![t] = {}])
    /\ Only(k1, k, ReadyQue \cup {"klockwait", "schedtsk", "state", "wtmeb"})
    /\ k1.state = [k.state EXCEPT ![t] = "WAIT"]
    /\ k1.wtmeb = [k.wtmeb EXCEPT ![t] = timed]
    /\ k1.klockwait = [k.klockwait EXCEPT ![t] = FALSE]
    /\ k1.klocktsk # t
    /\ \A h \in OtherHead : k1.que[h] = Unlink(k.que[h], t)

LEMMA MakeWaitSteady ==
    ASSUME NEW k, NEW r, Steady(k, r), NEW t \in Task, NEW tmout,
           k.state[t] = "READY", MayLeave(k, r, t),
           NEW timed \in BOOLEAN, timed = (tmout = "TIME")
    PROVE  MadeWait(MakeWait(k, t, tmout), k, r, t, timed)
<1> DEFINE m == MakeNonReady(k, t)
           k1 == [m EXCEPT !.state[t] = "WAIT", !.wtmeb[t] = timed]
           r1 == [r EXCEPT ![t] = {}]
           F == ReadyQue \cup {"klockwait", "schedtsk", "state", "wtmeb"}
<1>1. KernelField \subseteq DOMAIN k /\ Kernel(k)
  BY DEF Steady, Ready, Kernel
<1>2. MadeNonReady(m, k, r, t)
  BY MakeNonReadySteady
<1>3. /\ m.state = k.state /\ m.wtmeb = k.wtmeb /\ m.wspec = k.wspec
      /\ KernelField \subseteq DOMAIN m
  <2> HIDE DEF m
  <2> QED BY <1>1, <1>2 DEF MadeNonReady, Only, ReadyQue, KernelField
<1>4. MakeWait(k, t, tmout) = k1
  <2> HIDE DEF m
  <2>1. MakeWait(k, t, tmout) =
          [m EXCEPT !.state[t] = CASE k.state[t] = "READY" -> "WAIT"
                                   [] k.state[t] = "SUSPEND" -> "WAITSUS"
                                   [] OTHER -> @,
                    !.wtmeb[t] = (tmout = "TIME")]
    BY DEF MakeWait, m
  <2> QED BY <2>1
<1> HIDE DEF m
<1>5. /\ Only(k1, m, {"state", "wtmeb"})
      /\ k1.state = [k.state EXCEPT ![t] = "WAIT"]
      /\ k1.wtmeb = [k.wtmeb EXCEPT ![t] = timed]
      /\ k1.wspec = k.wspec /\ k1.klockwait = m.klockwait /\ k1.klocktsk = m.klocktsk
      /\ k1.que = m.que
  BY <1>3 DEF Only, KernelField
<1> HIDE DEF k1
<1>6. Only(k1, k, F)
  <2>1. {"state", "wtmeb"} \subseteq F /\ ReadyQue \cup {"klockwait", "schedtsk"} \subseteq F
    OBVIOUS
  <2>2. Only(m, k, ReadyQue \cup {"klockwait", "schedtsk"})
    BY <1>2 DEF MadeNonReady
  <2> HIDE DEF F
  <2> QED BY <1>5, <2>1, <2>2, OnlyTrans
<1>7. Steady(k1, r1)
  <2>1. {"state", "wtmeb"} \cap {"que", "bitmap", "top_priority", "klocktsk", "schedtsk",
                       "priority", "ipriority", "klocked", "klockwait"} = {}
    OBVIOUS
  <2>2. k1.state \in [Task -> TSTAT]
    BY <1>1, <1>5 DEF Kernel, TSTAT
  <2>3. k1.wspec \in [Task -> WSpec] /\ k1.wtmeb \in [Task -> BOOLEAN]
    BY <1>1, <1>5 DEF Kernel
  <2>4. Steady(m, r1)
    BY <1>2 DEF MadeNonReady
  <2> HIDE DEF r1
  <2> QED BY <1>5, <2>1, <2>2, <2>3, <2>4, FieldsChange
<1>8. /\ k1.klockwait = [k.klockwait EXCEPT ![t] = FALSE]
      /\ k1.klocktsk # t
      /\ \A h \in OtherHead : k1.que[h] = Unlink(k.que[h], t)
  BY <1>2, <1>5 DEF MadeNonReady
<1> QED BY <1>4, <1>5, <1>6, <1>7, <1>8 DEF MadeWait

\* A change in the rings of other components than the ready queue.
LEMMA OtherRingsSteady ==
    ASSUME NEW k, NEW r, Steady(k, r), NEW k1, Only(k1, k, {"que"}),
           k1.que \in Rings, NEW r1 \in Places, Linked(k1.que, r1),
           \A p \in Pri : k1.que[p] = k.que[p],
           \A u \in Task : r1[u] \cap Pri = r[u] \cap Pri
    PROVE  Steady(k1, r1)
<1>1. /\ Kernel(k) /\ KernelField \subseteq DOMAIN k
      /\ \A u \in Task : k.klockwait[u] => r[u] \cap Pri = {}
  BY DEF Steady, Ready, Kernel
<1>2. /\ k1.state = k.state /\ k1.priority = k.priority /\ k1.ipriority = k.ipriority
      /\ k1.klocked = k.klocked /\ k1.klockwait = k.klockwait
      /\ k1.wspec = k.wspec /\ k1.wtmeb = k.wtmeb
      /\ k1.bitmap = k.bitmap /\ k1.top_priority = k.top_priority
      /\ k1.klocktsk = k.klocktsk /\ k1.schedtsk = k.schedtsk
      /\ KernelField \subseteq DOMAIN k1
  BY <1>1 DEF Only, KernelField
<1>3. Kernel(k1)
  BY <1>1, <1>2 DEF Kernel
<1>4. SameReadyQueue(k1, k)
  BY <1>2 DEF SameReadyQueue
<1>5. \A u \in Task : k1.klockwait[u] => r1[u] \cap Pri = {}
  BY <1>1, <1>2
<1>6. \A u \in Task : r[u] \cap Pri # {} => k1.priority[u] = k.priority[u]
  BY <1>2
<1> QED BY <1>3, <1>4, <1>5, <1>6, SteadyKept

\* The empty place of a task in no ring.
LEMMA OtherPlace ==
    ASSUME NEW r \in Places, NEW t \in Task, r[t] = {}, NEW h \in OtherHead
    PROVE  /\ [r EXCEPT ![t] = {h}] \in Places
           /\ \A u \in Task : [r EXCEPT ![t] = {h}][u] \cap Pri = r[u] \cap Pri
  BY OtherHeads DEF Places

\* Task t, in no ring before, is the last in ring h.
QueuedLast(k1, k, r, t, h) ==
    /\ Steady(k1, [r EXCEPT ![t] = {h}])
    /\ Only(k1, k, {"que"})
    /\ k1.que[h] = Append(k.que[h], t)
    /\ \A g \in QueHead \ {h} : k1.que[g] = k.que[g]

LEMMA QueueLastSteady ==
    ASSUME NEW k, NEW r, Steady(k, r), NEW t \in Task, r[t] = {}, NEW h \in OtherHead,
           NEW k1, k1 = [k EXCEPT !.que = QueInsert(@, t, h)]
    PROVE  QueuedLast(k1, k, r, t, h)
<1> DEFINE que == k.que
           new == QueInsert(que, t, h)
           r1 == [r EXCEPT ![t] = {h}]
<1>1. /\ que \in Rings /\ r \in Places /\ Linked(que, r) /\ KernelField \subseteq DOMAIN k
      /\ h \in QueHead
  BY OtherHeads DEF Steady, Ready, Kernel
<1>2. r1 \in Places /\ \A u \in Task : r1[u] \cap Pri = r[u] \cap Pri
  BY <1>1, OtherPlace
<1>3. /\ new \in Rings /\ Linked(new, r1)
      /\ \A g \in QueHead \ {h} : new[g] = que[g]
  <2> HIDE DEF que
  <2> QED BY <1>1, QueInsertLinked
<1>4. k1.que = new /\ Only(k1, k, {"que"})
  BY <1>1 DEF KernelField, Only
<1>5. new[h] = Append(que[h], t)
  BY <1>1 DEF QueInsert, Rings
<1> HIDE DEF new, r1
<1>6. \A p \in Pri : k1.que[p] = k.que[p]
  BY <1>3, <1>4, OtherHeads, PriIsNatural
<1>7. Steady(k1, r1)
  <2>1. k1.que \in Rings /\ Linked(k1.que, r1) /\ Only(k1, k, {"que"})
    BY <1>3, <1>4
  <2> QED BY ONLY Steady(k, r), <1>2, <2>1, <1>6, OtherRingsSteady
<1> QED BY <1>3, <1>4, <1>5, <1>7 DEF QueuedLast, r1

\* Leaving a ring keeps the order of the others.
LEMMA UnlinkOrdered ==
    ASSUME NEW s \in Seq(Task), IsInjective(s), NEW t \in Task, NEW d, Ordered(s, d)
    PROVE  Ordered(Unlink(s, t), d)
<1>1. CASE InRing(s, t)
  <2> DEFINE u == RemoveAt(s, CHOOSE i \in DOMAIN s : s[i] = t)
  <2>1. Contains(s, t)
    BY <1>1, InRingContains
  <2>2. Ordered(u, d)
    BY <2>1, RemoveEntry
  <2>3. Unlink(s, t) = u
    BY <1>1 DEF Unlink
  <2> QED BY <2>2, <2>3
<1>2. CASE ~InRing(s, t)
  BY <1>2 DEF Unlink
<1> QED BY <1>1, <1>2

\* Task t, in no ring before, is in ring h, in the order of the priorities.
QueuedByPriority(k1, k, r, t, h) ==
    /\ Steady(k1, [r EXCEPT ![t] = {h}])
    /\ Only(k1, k, {"que"})
    /\ Ordered(k.que[h], k.priority) => Ordered(k1.que[h], k.priority)
    /\ /\ k.que[h] # <<>> /\ ~(k.priority[t] < k.priority[Head(k.que[h])])
       => Head(k1.que[h]) = Head(k.que[h])
    /\ \A g \in QueHead \ {h} : k1.que[g] = k.que[g]

LEMMA QueueByPrioritySteady ==
    ASSUME NEW k, NEW r, Steady(k, r), NEW t \in Task, r[t] = {}, NEW h \in OtherHead,
           NEW k1, k1 = [k EXCEPT !.que = QueInsertTpri(k, t, h)]
    PROVE  QueuedByPriority(k1, k, r, t, h)
<1> DEFINE s == k.que[h]
           d == k.priority
           n == Len(s)
           lower == {i \in DOMAIN s : d[s[i]] > d[t]}
           pos == IF lower = {} THEN n + 1 ELSE CHOOSE i \in lower : \A j \in lower : i <= j
           q == InsertAt(s, pos, t)
           new == QueInsertTpri(k, t, h)
           r1 == [r EXCEPT ![t] = {h}]
<1>1. /\ k.que \in Rings /\ r \in Places /\ Linked(k.que, r) /\ KernelField \subseteq DOMAIN k
      /\ h \in QueHead /\ d \in [Task -> Pri] /\ d \in [Task -> Int]
  BY OtherHeads, PriIsNatural DEF Steady, Ready, Kernel
<1>2. s \in Seq(Task) /\ IsInjective(s) /\ ~InRing(s, t)
  BY <1>1 DEF Rings, Linked
<1>3. new = [k.que EXCEPT ![h] = q]
  BY DEF QueInsertTpri
<1>4. r1 \in Places /\ \A u \in Task : r1[u] \cap Pri = r[u] \cap Pri
  BY <1>1, OtherPlace
<1>5. DOMAIN s = 1..n /\ n \in Nat /\ \A j \in 1..n : s[j] \in Task
  BY <1>2, LenProperties, ElementOfSeq
<1> HIDE DEF s, n, d
<1>6. /\ pos \in 1..n+1 /\ (Ordered(s, d) => PlaceOf(s, pos, t, d))
      /\ n > 0 /\ ~(d[t] < d[s[1]]) => pos > 1
  <2>1. CASE lower = {}
    <3>1. \A j \in 1..n : d[s[j]] <= d[t]
      BY <2>1, <1>1, <1>5
    <3>2. pos = n + 1 /\ n = Len(s)
      BY <2>1 DEF n
    <3> HIDE DEF pos
    <3>3. PlaceOf(s, pos, t, d)
      BY <3>1, <3>2, <1>5 DEF PlaceOf
    <3> QED BY <3>2, <3>3, <1>5
  <2>2. CASE lower # {}
    <3>1. lower \in SUBSET Nat
      BY <1>5
    <3>2. \E i \in lower : \A j \in lower : i <= j
      <4> HIDE DEF lower
      <4> QED BY <2>2, <3>1, LeastElement
    <3>3. pos = CHOOSE i \in lower : \A j \in lower : i <= j
      BY <2>2
    <3>4. pos \in lower /\ \A j \in lower : pos <= j
      <4> HIDE DEF lower, pos
      <4> QED BY <3>2, <3>3
    <3> HIDE DEF pos
    <3>5. pos \in 1..n /\ d[s[pos]] > d[t]
      BY <3>4, <1>5
    <3>6. \A j \in 1..pos-1 : d[s[j]] <= d[t]
      <4> TAKE j \in 1..pos-1
      <4>1. j \in 1..n /\ j \notin lower
        BY <3>4, <3>5, <1>5
      <4> QED BY <4>1, <1>1, <1>5
    <3>7. ASSUME Ordered(s, d), NEW j \in pos..n PROVE d[t] <= d[s[j]]
      <4>1. j \in 1..n
        BY <3>5, <1>5
      <4>2. d[s[pos]] <= d[s[j]]
        BY <3>5, <3>7, <4>1, <1>1, <1>5 DEF Ordered
      <4> QED BY <3>5, <4>1, <4>2, <1>1, <1>5
    <3>8. n = Len(s)
      BY DEF n
    <3>9. Ordered(s, d) => PlaceOf(s, pos, t, d)
      BY <3>6, <3>7, <3>8 DEF PlaceOf
    <3>10. pos = 1 => d[t] < d[s[1]]
      BY <3>5, <1>1, <1>5
    <3> QED BY <3>5, <3>9, <3>10, <1>5
  <2> QED BY <2>1, <2>2
<1> HIDE DEF pos, lower
<1>7. /\ q \in Seq(Task) /\ IsInjective(q)
      /\ \A u : Contains(q, u) <=> Contains(s, u) \/ u = t
      /\ Ordered(s, d) => Ordered(q, d)
  <2>1. ~Contains(s, t)
    BY <1>2, InRingContains
  <2>2. pos \in 1..Len(s)+1
    BY <1>6 DEF n
  <2>3. /\ q \in Seq(Task) /\ IsInjective(q)
        /\ \A u : Contains(q, u) <=> Contains(s, u) \/ u = t
        /\ Ordered(s, d) /\ PlaceOf(s, pos, t, d) => Ordered(q, d)
    BY <1>1, <1>2, <2>1, <2>2, InsertEntry
  <2> QED BY <2>3, <1>6
<1>15. ASSUME s # <<>>, ~(d[t] < d[Head(s)]) PROVE Head(q) = Head(s)
  <2>1. n > 0 /\ Head(s) = s[1]
    BY <1>2, <1>5, <1>15 DEF n
  <2>2. pos > 1 /\ pos \in 1..Len(s)+1
    BY <1>6, <1>15, <2>1 DEF n
  <2>3. q \in Seq(Task) /\ Inserted(s, pos, t, q)
    BY <1>2, <2>2, InsertAtIndex
  <2> HIDE DEF q
  <2>4. q[1] = s[1] /\ q # <<>>
    BY <1>5, <2>2, <2>3 DEF Inserted, n
  <2> QED BY <2>1, <2>3, <2>4
<1> HIDE DEF q
<1>8. \A u \in Task : InRing(q, u) <=> InRing(s, u) \/ u = t
  BY <1>2, <1>7, InRingContains
<1>9. new \in Rings /\ new[h] = q /\ \A g \in QueHead \ {h} : new[g] = k.que[g]
  BY <1>1, <1>3, <1>7 DEF Rings
<1> HIDE DEF new, r1
<1>10. Linked(new, r1)
  <2>1. ASSUME NEW g \in QueHead, NEW u \in Task PROVE InRing(new[g], u) <=> g \in r1[u]
    <3>1. InRing(k.que[g], u) <=> g \in r[u]
      BY <1>1 DEF Linked
    <3>2. r1[u] = IF u = t THEN {h} ELSE r[u]
      BY <1>1 DEF r1, Places
    <3>3. CASE g = h
      BY <3>1, <3>2, <3>3, <1>8, <1>9 DEF s
    <3>4. CASE g # h
      BY <3>1, <3>2, <3>4, <1>9
    <3> QED BY <3>3, <3>4
  <2>2. \A g \in QueHead : IsInjective(new[g])
    BY <1>1, <1>7, <1>9 DEF Linked
  <2> QED BY <2>1, <2>2 DEF Linked
<1>11. k1.que = new /\ Only(k1, k, {"que"})
  BY <1>1 DEF KernelField, Only, new
<1>12. \A p \in Pri : k1.que[p] = k.que[p]
  BY <1>9, <1>11, OtherHeads, PriIsNatural
<1>13. Steady(k1, r1)
  <2>1. k1.que \in Rings /\ Linked(k1.que, r1) /\ Only(k1, k, {"que"})
    BY <1>9, <1>10, <1>11
  <2> QED BY ONLY Steady(k, r), <1>4, <2>1, <1>12, OtherRingsSteady
<1>14. Ordered(k.que[h], k.priority) => Ordered(k1.que[h], k.priority)
  BY <1>7, <1>9, <1>11 DEF s, d
<1>16. /\ k.que[h] # <<>> /\ ~(k.priority[t] < k.priority[Head(k.que[h])])
       => Head(k1.que[h]) = Head(k.que[h])
  BY <1>9, <1>11, <1>15 DEF s, d
<1> QED BY <1>9, <1>11, <1>13, <1>14, <1>16 DEF QueuedByPriority, r1

(***************************************************************************)
(* A task is created (tk_cre_tsk): the first free TCB becomes DORMANT.     *)
(***************************************************************************)
Created(k1, k, r, t) ==
    /\ Steady(k1, [r EXCEPT ![t] = {}])
    /\ Only(k1, k, Dormancy \cup {"que", "ipriority"})
    /\ k1.state = [k.state EXCEPT ![t] = "DORMANT"]
    /\ \A u \in Task \ {t} : k1.priority[u] = k.priority[u]
    /\ k1.klocked = [k.klocked EXCEPT ![t] = FALSE]
    /\ k1.klockwait = [k.klockwait EXCEPT ![t] = FALSE]
    /\ k1.wspec = [k.wspec EXCEPT ![t] = NoSpec]
    /\ k1.wercd = [k.wercd EXCEPT ![t] = "none"]
    /\ \A h \in QueHead \ {FreeTcb} : k1.que[h] = k.que[h]

LEMMA CreateTcbSteady ==
    ASSUME NEW k, NEW r, Steady(k, r), NEW p \in Pri, k.que[FreeTcb] # <<>>,
           NEW t, t = Head(k.que[FreeTcb]), r[t] = {FreeTcb}
    PROVE  t \in Task /\ Created(CreateTcb(k, p), k, r, t)
<1> DEFINE que == k.que
           new == [que EXCEPT ![FreeTcb] = Tail(@)]
           r1 == [r EXCEPT ![t] = {}]
           k1 == [k EXCEPT !.que[FreeTcb] = Tail(@), !.ipriority[t] = p]
           k2 == MakeDormant(k1, t)
<1>1. /\ Kernel(k) /\ que \in Rings /\ r \in Places /\ Linked(que, r)
      /\ KernelField \subseteq DOMAIN k /\ FreeTcb \in QueHead
      /\ \A u \in Task : k.klockwait[u] => r[u] \cap Pri = {}
  BY PriIsNatural DEF Steady, Ready, Kernel
<1>2. t \in Task /\ new \in Rings /\ Linked(new, r1)
  <2>1. que[FreeTcb] # <<>> /\ r[Head(que[FreeTcb])] = {FreeTcb} /\ t = Head(que[FreeTcb])
    OBVIOUS
  <2> HIDE DEF que
  <2>2. /\ Head(que[FreeTcb]) \in Task
        /\ [que EXCEPT ![FreeTcb] = Tail(@)] \in Rings
        /\ Linked([que EXCEPT ![FreeTcb] = Tail(@)], [r EXCEPT ![Head(que[FreeTcb])] = {}])
    BY <1>1, <2>1, TailLinked
  <2> QED BY <2>1, <2>2
<1>3. /\ r1 \in Places /\ r1[t] = {} /\ \A u \in Task : r1[u] \cap Pri = r[u] \cap Pri
  BY <1>1, <1>2, PriIsNatural DEF Places
<1>4. CreateTcb(k, p) = k2
  BY DEF CreateTcb
<1>5. /\ k1.que = new /\ k1.ipriority = [k.ipriority EXCEPT ![t] = p]
      /\ Only(k1, k, {"que", "ipriority"})
  BY <1>1 DEF KernelField, Only
<1>6. \A h \in QueHead \ {FreeTcb} : new[h] = que[h]
  BY <1>1 DEF Rings
<1> HIDE DEF k1, new, r1
<1>7. /\ k1.state = k.state /\ k1.priority = k.priority
      /\ k1.klocked = k.klocked /\ k1.klockwait = k.klockwait
      /\ k1.wspec = k.wspec /\ k1.wtmeb = k.wtmeb /\ k1.wercd = k.wercd
      /\ k1.bitmap = k.bitmap /\ k1.top_priority = k.top_priority
      /\ k1.klocktsk = k.klocktsk /\ k1.schedtsk = k.schedtsk
      /\ KernelField \subseteq DOMAIN k1
  BY <1>1, <1>5 DEF Only, KernelField
<1>8. Kernel(k1)
  <2>1. k1.ipriority \in [Task -> Pri]
    BY <1>1, <1>5 DEF Kernel
  <2> QED BY <1>1, <1>2, <1>5, <1>7, <2>1 DEF Kernel
<1>9. SameReadyQueue(k1, k)
  BY <1>5, <1>6, <1>7, PriIsNatural DEF SameReadyQueue
<1>10. Linked(k1.que, r1)
  BY <1>2, <1>5
<1>11. \A u \in Task : k1.klockwait[u] => r1[u] \cap Pri = {}
  BY <1>1, <1>3, <1>7
<1>12. \A u \in Task : r[u] \cap Pri # {} => k1.priority[u] = k.priority[u]
  BY <1>7
<1>13. Steady(k1, r1)
  BY <1>3, <1>8, <1>9, <1>10, <1>11, <1>12, SteadyKept
<1>14. r1[t] \cap Pri = {}
  BY <1>3
<1>15. MadeDormant(k2, k1, r1, t)
  BY <1>2, <1>13, <1>14, MakeDormantSteady
<1> HIDE DEF k2
<1>16. k2.que = k1.que
  BY <1>7, <1>15 DEF MadeDormant, Only, Dormancy, KernelField
<1>17. Only(k2, k, Dormancy \cup {"que", "ipriority"})
  <2> DEFINE F == Dormancy \cup {"que", "ipriority"}
  <2>1. Dormancy \subseteq F /\ {"que", "ipriority"} \subseteq F
    OBVIOUS
  <2>2. Only(k2, k1, Dormancy)
    BY <1>15 DEF MadeDormant
  <2> HIDE DEF F
  <2>3. Only(k2, k, F)
    BY <1>5, <2>1, <2>2, OnlyTrans
  <2> QED BY <2>3 DEF F
<1>18. \A u \in Task \ {t} : k2.priority[u] = k.priority[u]
  BY <1>1, <1>7, <1>15 DEF MadeDormant, Kernel
<1> QED
  BY <1>2, <1>4, <1>5, <1>6, <1>7, <1>15, <1>16, <1>17, <1>18 DEF MadeDormant, Created, r1

(***************************************************************************)
(* Functions and states.                                                   *)
(***************************************************************************)
LEMMA UpdateFunction ==
    ASSUME NEW D, NEW R, NEW f \in [D -> R], NEW x, NEW v \in R
    PROVE  [f EXCEPT ![x] = v] \in [D -> R]
  OBVIOUS

LEMMA FalseEntry ==
    ASSUME NEW D, NEW f \in [D -> BOOLEAN], NEW x, ~f[x]
    PROVE  [f EXCEPT ![x] = FALSE] = f
<1> DEFINE g == [f EXCEPT ![x] = FALSE]
<1>1. DOMAIN g = D /\ DOMAIN f = D /\ f = [y \in D |-> f[y]] /\ g = [y \in D |-> g[y]]
  OBVIOUS
<1>2. ASSUME NEW y \in D PROVE g[y] = f[y]
  <2>1. CASE y = x
    <3>1. g[y] = FALSE /\ f[y] \in BOOLEAN /\ ~f[y]
      BY <2>1
    <3> QED BY <3>1
  <2>2. CASE y # x
    BY <2>2
  <2> QED BY <2>1, <2>2
<1> HIDE DEF g
<1>3. f = g
  BY <1>1, <1>2
<1> QED BY <1>3 DEF g

LEMMA ATaskWaits ==
    ASSUME NEW s
    PROVE  /\ s = "READY" => s \notin WaitBit
           /\ s = "SUSPEND" => s \notin WaitBit
           /\ s = "DORMANT" => s \notin WaitBit
           /\ s = "NONEXIST" => s \notin WaitBit
           /\ s \in WaitBit <=> s = "WAIT" \/ s = "WAITSUS"
  BY DEF WaitBit

\* A task in no ready ring gets priority p and, out of its queue, waits at
\* places r1 of queues que.
Reprioritized(k1, k, t, p, que) ==
    /\ Only(k1, k, {"priority", "que"})
    /\ k1.priority = [k.priority EXCEPT ![t] = p]
    /\ k1.que = que

LEMMA NewPriority ==
    ASSUME NEW k, NEW r, Steady(k, r), NEW t \in Task, r[t] \cap Pri = {}, NEW p \in Pri,
           NEW que \in Rings, NEW r1 \in Places, Linked(que, r1),
           \A q \in Pri : que[q] = k.que[q], \A u \in Task : r1[u] \cap Pri = r[u] \cap Pri,
           NEW k1, Reprioritized(k1, k, t, p, que)
    PROVE  Steady(k1, r1)
<1>1. Kernel(k) /\ \A u \in Task : k.klockwait[u] => r[u] \cap Pri = {}
  BY DEF Steady, Ready
<1>2. /\ k1.state = k.state /\ k1.ipriority = k.ipriority
      /\ k1.klocked = k.klocked /\ k1.klockwait = k.klockwait /\ k1.wtmeb = k.wtmeb
      /\ k1.wspec = k.wspec /\ k1.bitmap = k.bitmap /\ k1.top_priority = k.top_priority
      /\ k1.klocktsk = k.klocktsk /\ k1.schedtsk = k.schedtsk
      /\ KernelField \subseteq DOMAIN k1
  BY <1>1 DEF Only, Reprioritized, Kernel, KernelField
<1>3. k1.priority \in [Task -> Pri] /\ \A u \in Task \ {t} : k1.priority[u] = k.priority[u]
  BY <1>1 DEF Reprioritized, Kernel
<1>4. Kernel(k1)
  BY <1>1, <1>2, <1>3 DEF Kernel, Reprioritized
<1>5. SameReadyQueue(k1, k)
  BY <1>2 DEF SameReadyQueue, Reprioritized
<1>6. \A u \in Task : r[u] \cap Pri # {} => k1.priority[u] = k.priority[u]
  BY <1>3
<1>7. \A u \in Task : k1.klockwait[u] => r1[u] \cap Pri = {}
  BY <1>1, <1>2
<1>8. Linked(k1.que, r1)
  BY DEF Reprioritized
<1> QED BY <1>4, <1>5, <1>6, <1>7, <1>8, SteadyKept

(***************************************************************************)
(* The start.                                                              *)
(***************************************************************************)
LEMMA InitKernelSteady ==
    /\ DOMAIN InitKernel = KernelField
    /\ Steady(InitKernel, [t \in Task |-> {FreeTcb}])
    /\ InitKernel.que[FreeTcb] # <<>> /\ Head(InitKernel.que[FreeTcb]) = 1 /\ 1 \in Task
    /\ InitKernel.state = [t \in Task |-> "NONEXIST"]
    /\ InitKernel.klocked = [t \in Task |-> FALSE]
    /\ InitKernel.klockwait = [t \in Task |-> FALSE]
    /\ InitKernel.wtmeb = [t \in Task |-> FALSE]
    /\ InitKernel.wercd = [t \in Task |-> "none"]
    /\ \A h \in QueHead \ {FreeTcb} : InitKernel.que[h] = <<>>
<1> DEFINE k == InitKernel
           r == [t \in Task |-> {FreeTcb}]
           free == [i \in Task |-> i]
           que == [h \in QueHead |-> IF h = FreeTcb THEN free ELSE <<>>]
<1>1. /\ k.state = [t \in Task |-> "NONEXIST"]
      /\ k.priority = [t \in Task |-> 0] /\ k.ipriority = [t \in Task |-> 0]
      /\ k.klocked = [t \in Task |-> FALSE] /\ k.klockwait = [t \in Task |-> FALSE]
      /\ k.wspec = [t \in Task |-> NoSpec] /\ k.wtmeb = [t \in Task |-> FALSE]
      /\ k.wercd = [t \in Task |-> "none"]
      /\ k.que = que /\ k.bitmap = {} /\ k.top_priority = NumPri
      /\ k.klocktsk = NoTask /\ k.schedtsk = NoTask
  BY DEF InitKernel
<1>2. DOMAIN k = KernelField
  BY DEF InitKernel, KernelField
<1>3. free \in Seq(Task) /\ DOMAIN free = Task /\ \A i \in Task : free[i] = i
  BY NumTaskAssumption, SeqDef DEF Task
<1>4. /\ que \in [QueHead -> Seq(Task)]
      /\ \A h \in QueHead : que[h] = IF h = FreeTcb THEN free ELSE <<>>
  <2> HIDE DEF free
  <2> QED BY <1>3
<1>5. 1 \in Task /\ free # <<>> /\ Head(free) = 1
  <2>1. 1 \in Task
    BY NumTaskAssumption DEF Task
  <2>2. free # <<>> /\ free[1] = 1
    BY <1>3, <2>1
  <2> HIDE DEF free
  <2> QED BY <1>3, <2>1, <2>2
<1> HIDE DEF free, que
<1>6. Kernel(k)
  <2>1. 0 \in Pri /\ NumPri \in 0..NumPri
    BY PriIsNatural DEF Pri
  <2>2. que \in Rings
    BY <1>4 DEF Rings
  <2> QED BY <1>1, <1>2, <2>1, <2>2 DEF Kernel, TSTAT, WSpec
<1> HIDE DEF k
<1>7. Linked(k.que, r) /\ r \in Places
  <2>1. \A t \in Task : InRing(free, t)
    BY <1>3 DEF InRing
  <2>2. IsInjective(free) /\ IsInjective(<<>>)
    BY <1>3 DEF IsInjective
  <2>3. \A t \in Task : ~InRing(<<>>, t)
    BY DEF InRing
  <2>4. r \in Places
    BY PriIsNatural DEF Places
  <2> QED BY <1>1, <1>4, <2>1, <2>2, <2>3, <2>4 DEF Linked
<1>8. \A h \in QueHead \ {FreeTcb} : k.que[h] = <<>>
  BY <1>1, <1>4
<1>9. \A p \in Pri : k.que[p] = <<>> /\ p # FreeTcb
  BY <1>8, PriIsNatural
<1>10. ReadyExact(k)
  BY <1>1, <1>9 DEF ReadyExact
<1>11. \A t \in Task : r[t] \cap Pri = {}
  BY PriIsNatural
<1>12. Steady(k, r)
  <2> HIDE DEF r
  <2> QED BY <1>1, <1>6, <1>7, <1>9, <1>10, <1>11 DEF Steady, Ready, Selected
<1>13. k.que[FreeTcb] # <<>> /\ Head(k.que[FreeTcb]) = 1
  BY <1>1, <1>4, <1>5, OtherHeads
<1> QED BY <1>1, <1>2, <1>5, <1>8, <1>12, <1>13 DEF k

\* The initial task alone exists; it is READY, and nobody waits.
FirstTask(k, r) ==
    /\ Steady(k, r) /\ DOMAIN k = KernelField
    /\ \A t \in Task : r[t] = IF t = 1 THEN {k.priority[1]} ELSE {FreeTcb}
    /\ \A t \in Task : k.state[t] = IF t = 1 THEN "READY" ELSE "NONEXIST"
    /\ \A t \in Task : ~k.klocked[t] /\ ~k.klockwait[t] /\ ~k.wtmeb[t]
    /\ k.wercd = [t \in Task |-> "none"]
    /\ \A h \in OtherHead \ {FreeTcb} : k.que[h] = <<>>

LEMMA FirstTaskReady ==
    1 \in Task /\ \E r : FirstTask(MakeReady(CreateTcb(InitKernel, 0), 1), r)
<1> DEFINE k0 == InitKernel
           r0 == [t \in Task |-> {FreeTcb}]
           k1 == CreateTcb(k0, 0)
           r1 == [r0 EXCEPT ![1] = {}]
           k2 == MakeReady(k1, 1)
           p == k1.priority[1]
           r2 == [r1 EXCEPT ![1] = {p}]
<1>1. /\ DOMAIN k0 = KernelField
      /\ Steady(k0, r0)
      /\ k0.que[FreeTcb] # <<>> /\ Head(k0.que[FreeTcb]) = 1 /\ 1 \in Task
      /\ k0.state = [t \in Task |-> "NONEXIST"]
      /\ k0.klocked = [t \in Task |-> FALSE]
      /\ k0.klockwait = [t \in Task |-> FALSE]
      /\ k0.wtmeb = [t \in Task |-> FALSE]
      /\ k0.wercd = [t \in Task |-> "none"]
      /\ \A h \in QueHead \ {FreeTcb} : k0.que[h] = <<>>
  BY InitKernelSteady
<1>2. r0[1] = {FreeTcb} /\ 0 \in Pri
  BY <1>1, PriIsNatural DEF Pri
<1>3. \A t \in Task : r2[t] = IF t = 1 THEN {p} ELSE {FreeTcb}
  OBVIOUS
<1>4. r1[1] = {}
  BY <1>1
<1> HIDE DEF k0, r0, k1, k2
<1>5. Created(k1, k0, r0, 1)
  <2> DEFINE t == Head(k0.que[FreeTcb])
  <2>1. t = 1
    BY <1>1
  <2> HIDE DEF t
  <2>2. r0[t] = {FreeTcb}
    BY <1>2, <2>1
  <2>3. t = Head(k0.que[FreeTcb])
    BY DEF t
  <2>4. Created(k1, k0, r0, t)
    BY <1>1, <1>2, <2>2, <2>3, CreateTcbSteady DEF k1
  <2> QED BY <2>1, <2>4
<1>6. /\ Steady(k1, r1) /\ Only(k1, k0, Dormancy \cup {"que", "ipriority"})
      /\ k1.state = [k0.state EXCEPT ![1] = "DORMANT"]
      /\ k1.klocked = [k0.klocked EXCEPT ![1] = FALSE]
      /\ k1.klockwait = [k0.klockwait EXCEPT ![1] = FALSE]
      /\ k1.wercd = [k0.wercd EXCEPT ![1] = "none"]
      /\ \A h \in QueHead \ {FreeTcb} : k1.que[h] = k0.que[h]
  BY <1>5 DEF Created
<1>7. /\ k1.wtmeb = k0.wtmeb /\ DOMAIN k1 = KernelField
  BY <1>1, <1>6 DEF Only, KernelField, Dormancy
<1>8. \A t \in Task : ~k1.klocked[t] /\ ~k1.klockwait[t] /\ ~k1.wtmeb[t]
                      /\ k1.state[t] = IF t = 1 THEN "DORMANT" ELSE "NONEXIST"
  BY <1>1, <1>6, <1>7
<1>15. k1.wercd = [t \in Task |-> "none"]
  BY <1>1, <1>6
<1> HIDE DEF r1, r2, p
<1>9. MadeReady(k2, k1, r1, 1)
  BY <1>1, <1>4, <1>6, <1>8, MakeReadySteady DEF k2
<1>10. /\ Steady(k2, r2) /\ Only(k2, k1, ReadyQue \cup {"state", "schedtsk"})
       /\ k2.state = [k1.state EXCEPT ![1] = "READY"]
       /\ \A h \in OtherHead : k2.que[h] = k1.que[h]
  BY <1>9 DEF MadeReady, r2, p
<1>11. /\ k2.klocked = k1.klocked /\ k2.klockwait = k1.klockwait /\ k2.wtmeb = k1.wtmeb
       /\ k2.priority = k1.priority /\ k2.wercd = k1.wercd /\ DOMAIN k2 = KernelField
  BY <1>7, <1>10 DEF Only, KernelField, ReadyQue
<1>12. \A t \in Task : k2.state[t] = IF t = 1 THEN "READY" ELSE "NONEXIST"
  BY <1>6, <1>8, <1>10 DEF Steady, Ready, Kernel
<1>13. \A h \in OtherHead \ {FreeTcb} : k2.que[h] = <<>>
  BY <1>1, <1>6, <1>10, OtherHeads
<1>14. FirstTask(k2, r2)
  BY <1>3, <1>8, <1>10, <1>11, <1>12, <1>13, <1>15 DEF FirstTask, p
<1> QED BY <1>1, <1>14 DEF k2, k1, k0
=============================================================================
