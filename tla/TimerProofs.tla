---------------------------- MODULE TimerProofs ----------------------------
(***************************************************************************)
(* Proofs about Timer, for any width of the words, any period of the tick  *)
(* and any number of events.  Words wrap around, so the properties need    *)
(* two assumptions: ShortIntervals about the intervals that are asked for  *)
(* and RestartedInTime about handlers that are stopped.                    *)
(***************************************************************************)
EXTENDS Timer, SequenceFacts

(***************************************************************************)
(* Words.                                                                  *)
(***************************************************************************)
LEMMA ModulusHalves ==
    /\ Modulus \in Nat /\ ABSTIM_DIFF_MIN \in Nat /\ Modulus = 2 * ABSTIM_DIFF_MIN + 2
    /\ TIMER_PERIOD \in Nat /\ TIMER_PERIOD > 0 /\ TIMER_PERIOD < ABSTIM_DIFF_MIN
  BY TimerAssumption DEF ABSTIM_DIFF_MIN

LEMMA WordRange ==
    ASSUME NEW n \in Int
    PROVE  Word(n) \in 0..Modulus-1
  BY ModulusHalves DEF Word

LEMMA WordSmall ==
    ASSUME NEW n \in 0..Modulus-1
    PROVE  Word(n) = n
  BY ModulusHalves DEF Word

LEMMA WordNegative ==
    ASSUME NEW n \in -Modulus..-1
    PROVE  Word(n) = n + Modulus
  BY ModulusHalves DEF Word

\* Multiplication, alone.
LEMMA Distributes ==
    ASSUME NEW a \in Int, NEW b \in Int, NEW c \in Int
    PROVE  (a + b) * c = a * c + b * c /\ (-a) * c = -(a * c) /\ a * c \in Int
  OBVIOUS

LEMMA WordDivides ==
    ASSUME NEW n \in Int
    PROVE  n = (n \div Modulus) * Modulus + Word(n) /\ n \div Modulus \in Int
<1>1. Modulus \in Nat /\ Modulus > 0
  BY ModulusHalves
<1> QED BY <1>1 DEF Word

LEMMA WordIs ==
    ASSUME NEW m \in Int, NEW k \in Int, NEW r \in 0..Modulus-1, m = k * Modulus + r
    PROVE  Word(m) = r
<1>1. Modulus \in Nat /\ Modulus > 0
  BY ModulusHalves
<1> QED BY <1>1 DEF Word

\* A whole number of rounds leaves a word as it is.
LEMMA WordRounds ==
    ASSUME NEW n \in Int, NEW q \in Int, NEW m \in Int, m = n + q * Modulus
    PROVE  Word(m) = Word(n)
<1>1. Modulus \in Int
  BY ModulusHalves
<1> DEFINE k == n \div Modulus
           r == Word(n)
<1>2. n = k * Modulus + r /\ k \in Int /\ r \in 0..Modulus-1
  BY WordDivides, WordRange
<1> HIDE DEF k, r
<1>3. k + q \in Int /\ m = (k + q) * Modulus + r
  <2>1. /\ (k + q) * Modulus = k * Modulus + q * Modulus
        /\ k * Modulus \in Int /\ q * Modulus \in Int
    BY <1>1, <1>2, Distributes
  <2> QED BY <1>1, <1>2, <2>1
<1> QED BY <1>2, <1>3, WordIs DEF r

\* Words may be taken early or late in a sum.
LEMMA WordSum ==
    ASSUME NEW a \in Int, NEW b \in Int
    PROVE  Word(Word(a) + b) = Word(a + b) /\ Word(b - Word(a)) = Word(b - a)
<1> DEFINE q == a \div Modulus
           w == Word(a)
           m == q * Modulus
<1>1. q \in Int /\ a = m + w
  BY WordDivides
<1>2. w \in Int /\ Modulus \in Int
  BY WordRange, ModulusHalves
<1> HIDE DEF q, w
<1>3. m \in Int /\ -q \in Int /\ (-q) * Modulus = -m
  BY <1>1, <1>2, Distributes
<1> DEFINE x == w + b
           y == b - w
           u == a + b
           v == b - a
<1>4. /\ x \in Int /\ y \in Int /\ u \in Int /\ v \in Int
      /\ u = x + q * Modulus /\ v = y + (-q) * Modulus
  BY <1>1, <1>2, <1>3
<1> HIDE DEF m, x, y, u, v
<1>5. Word(u) = Word(x) /\ Word(v) = Word(y)
  BY <1>1, <1>3, <1>4, WordRounds
<1> QED BY <1>5 DEF w, x, y, u, v

(***************************************************************************)
(* Times that are within half of the words of the current one.             *)
(***************************************************************************)
Near == -ABSTIM_DIFF_MIN .. ABSTIM_DIFF_MIN + 1

\* knl_abstim_reached tells the sign of a near distance.
LEMMA ReachedBySign ==
    ASSUME NEW now \in Int, NEW d \in Near
    PROVE  AbstimReached(now, Word(now + d)) <=> d <= 0
<1>1. d \in Int /\ now + d \in Int /\ -d \in Int /\ now - (now + d) = -d
  BY ModulusHalves DEF Near
<1>2. Word(now - Word(now + d)) = Word(-d)
  BY <1>1, WordSum
<1>3. CASE d <= 0
  <2>1. -d \in 0..Modulus-1 /\ -d <= ABSTIM_DIFF_MIN
    BY <1>1, <1>3, ModulusHalves DEF Near
  <2> QED BY <1>2, <1>3, <2>1, WordSmall DEF AbstimReached
<1>4. CASE d > 0
  <2>1. -d \in -Modulus..-1 /\ ~(-d + Modulus <= ABSTIM_DIFF_MIN)
    BY <1>1, <1>4, ModulusHalves DEF Near
  <2> QED BY <1>1, <1>2, <1>4, <2>1, WordNegative DEF AbstimReached
<1> QED BY <1>1, <1>3, <1>4

\* knl_enqueue_tmeb compares near distances.
LEMMA OffsetOfWord ==
    ASSUME NEW now \in Int, NEW d \in Near
    PROVE  Word(Word(now + d) - (now - ABSTIM_DIFF_MIN)) = d + ABSTIM_DIFF_MIN
<1>1. /\ d \in Int /\ now + d \in Int /\ -(now - ABSTIM_DIFF_MIN) \in Int
      /\ (now + d) + (-(now - ABSTIM_DIFF_MIN)) = d + ABSTIM_DIFF_MIN
      /\ d + ABSTIM_DIFF_MIN \in 0..Modulus-1
  BY ModulusHalves DEF Near
<1>2. Word(now + d) \in Int
  BY <1>1, WordRange, ModulusHalves
<1>3. Word(now + d) - (now - ABSTIM_DIFF_MIN) = Word(now + d) + (-(now - ABSTIM_DIFF_MIN))
  BY <1>1, <1>2, ModulusHalves
<1>4. Word(Word(now + d) + (-(now - ABSTIM_DIFF_MIN))) = Word(d + ABSTIM_DIFF_MIN)
  BY <1>1, WordSum
<1> QED BY <1>1, <1>3, <1>4, WordSmall

\* knl_cyc_next_time of a handler that is due: the next time in its phase.
LEMMA NextTimeWhenDue ==
    ASSUME current_time \in Int, NEW d \in Near, d <= 0, NEW tim \in 1..ABSTIM_DIFF_MIN
    PROVE  /\ NextDue(d, tim) \in 1..tim
           /\ CycNextTime(Word(current_time + d), tim) = Word(current_time + NextDue(d, tim))
<1> DEFINE base == Word(current_time + d)
           n == (-d) \div tim
           r == (-d) % tim
           x == tim - r
<1>1. /\ d \in Int /\ tim \in Nat /\ tim > 0 /\ -d \in 0..ABSTIM_DIFF_MIN
      /\ current_time + d \in Int
  BY ModulusHalves DEF Near
<1>2. n \in Int /\ r \in 0..tim-1 /\ -d = n * tim + r
  BY <1>1
<1>3. x \in 1..tim /\ x - d = (n + 1) * tim
  BY <1>1, <1>2
<1>4. ASSUME NEW y \in 1..tim, NEW k \in Int, y - d = k * tim
      PROVE  y = x
  <2>1. y - x = (k - (n + 1)) * tim /\ k - (n + 1) \in Int
    BY <1>1, <1>2, <1>3, <1>4
  <2>2. k - (n + 1) = 0
    BY <1>1, <1>3, <2>1
  <2> QED BY <1>1, <1>3, <2>1, <2>2
<1>5. NextDue(d, tim) = x
  <2> HIDE DEF x, n, r
  <2>1. NextDue(d, tim) = CHOOSE y \in 0+1..0+tim : (y - d) % tim = 0
    BY <1>1 DEF NextDue
  <2>2. (x - d) % tim = 0
    BY <1>1, <1>2, <1>3
  <2>3. ASSUME NEW y \in 0+1..0+tim, (y - d) % tim = 0
        PROVE  y = x
    <3>1. y - d = ((y - d) \div tim) * tim /\ (y - d) \div tim \in Int
      BY <1>1, <2>3
    <3> QED BY <1>1, <1>4, <3>1
  <2>4. x \in 0+1..0+tim
    BY <1>1, <1>3
  <2> QED BY <2>1, <2>2, <2>3, <2>4
<1>6. base + tim \in Int /\ Word(base + tim) = Word(current_time + (d + tim))
  <2>1. base \in Int /\ (current_time + d) + tim = current_time + (d + tim)
    BY <1>1, WordRange, ModulusHalves
  <2> QED BY <1>1, <2>1, WordSum
<1>7. d + tim \in Near
  BY <1>1, ModulusHalves DEF Near
<1>8. CASE d + tim > 0
  <2>1. ~AbstimReached(current_time, Word(base + tim))
    BY <1>1, <1>6, <1>7, <1>8, ReachedBySign
  <2>2. CycNextTime(base, tim) = Word(current_time + (d + tim))
    BY <2>1, <1>6 DEF CycNextTime
  <2>3. d + tim = x
    <3>1. d + tim \in 1..tim /\ (d + tim) - d = 1 * tim
      BY <1>1, <1>8
    <3> QED BY <3>1, <1>4
  <2> QED BY <1>3, <1>5, <2>2, <2>3
<1>9. CASE d + tim <= 0
  <2>1. AbstimReached(current_time, Word(base + tim))
    BY <1>6, <1>7, <1>9, ReachedBySign
  <2>2. Word(current_time - base) = -d
    <3>1. current_time - (current_time + d) = -d /\ -d \in 0..Modulus-1
      BY <1>1, ModulusHalves
    <3> QED BY <1>1, <3>1, WordSum, WordSmall
  <2>3. CycNextTime(base, tim) = Word((n + 1) * tim + base)
    BY <2>1, <2>2 DEF CycNextTime
  <2>4. Word((n + 1) * tim + base) = Word(current_time + x)
    <3>1. base \in Int /\ (n + 1) * tim \in Int
      BY <1>1, <1>2, WordRange, ModulusHalves
    <3>2. (n + 1) * tim + base = base + (n + 1) * tim
      BY <3>1
    <3>3. (current_time + d) + (n + 1) * tim = current_time + x
      BY <1>1, <1>2, <1>3
    <3> HIDE DEF n, x
    <3>4. Word(base + (n + 1) * tim) = Word((current_time + d) + (n + 1) * tim)
      BY <1>1, <3>1, WordSum
    <3> QED BY <3>2, <3>3, <3>4
  <2> QED BY <1>3, <1>5, <2>3, <2>4
<1> QED BY <1>1, <1>8, <1>9

\* And of one whose first start is at the next tick.
LEMMA NextTimeWhenNew ==
    ASSUME current_time \in Int, NEW d \in 1..ABSTIM_DIFF_MIN, NEW tim \in 1..ABSTIM_DIFF_MIN,
           d + tim <= ABSTIM_DIFF_MIN + 1
    PROVE  /\ NextDue(d, tim) = d + tim
           /\ CycNextTime(Word(current_time + d), tim) = Word(current_time + NextDue(d, tim))
<1> DEFINE base == Word(current_time + d)
<1>1. d \in Nat /\ tim \in Nat /\ tim > 0 /\ d > 0 /\ current_time + d \in Int
  BY ModulusHalves
<1>2. NextDue(d, tim) = d + tim
  <2>1. NextDue(d, tim) = CHOOSE y \in d+1..d+tim : (y - d) % tim = 0
    BY <1>1 DEF NextDue
  <2>2. d + tim \in d+1..d+tim /\ ((d + tim) - d) % tim = 0
    BY <1>1
  <2>3. ASSUME NEW y \in d+1..d+tim, (y - d) % tim = 0
        PROVE  y = d + tim
    <3>1. y - d \in 1..tim /\ y - d = ((y - d) \div tim) * tim /\ (y - d) \div tim \in Int
      BY <1>1, <2>3
    <3>2. (y - d) \div tim = 1
      BY <1>1, <3>1
    <3> QED BY <1>1, <3>1, <3>2
  <2> QED BY <2>1, <2>2, <2>3
<1>3. base + tim \in Int /\ Word(base + tim) = Word(current_time + (d + tim))
  <2> DEFINE a == current_time + d
  <2>1. a \in Int /\ base = Word(a) /\ base \in Int /\ a + tim = current_time + (d + tim)
    BY <1>1, WordRange, ModulusHalves
  <2> HIDE DEF a, base
  <2>2. Word(Word(a) + tim) = Word(a + tim)
    BY <1>1, <2>1, WordSum
  <2> QED BY <1>1, <2>1, <2>2
<1>4. d + tim \in Near /\ ~(d + tim <= 0)
  BY <1>1, ModulusHalves DEF Near
<1>5. ~AbstimReached(current_time, Word(base + tim))
  BY <1>3, <1>4, ReachedBySign
<1> QED BY <1>2, <1>3, <1>5 DEF CycNextTime

(***************************************************************************)
(* The queue: in order of the true distances, which are near, and with the *)
(* words that belong to them.                                              *)
(***************************************************************************)
QueueOK(now, q, tm, d) ==
    /\ q \in Seq(TMEB) /\ IsInjective(q) /\ Ordered(q, d)
    /\ tm \in [TMEB -> 0..Modulus-1] /\ d \in [TMEB -> Int]
    /\ \A e \in TMEB : Contains(q, e) => d[e] \in Near /\ tm[e] = Word(now + d[e])

\* The queue does not see the times of events that are not in it.
LEMMA OtherTimes ==
    ASSUME NEW now, NEW q, NEW tm, NEW d, QueueOK(now, q, tm, d),
           NEW e \in TMEB, ~Contains(q, e), NEW w \in 0..Modulus-1, NEW x \in Int
    PROVE  QueueOK(now, q, [tm EXCEPT ![e] = w], [d EXCEPT ![e] = x])
<1> DEFINE d1 == [d EXCEPT ![e] = x]
<1>1. DOMAIN q = 1..Len(q) /\ \A j \in 1..Len(q) : q[j] \in TMEB
  BY LenProperties, ElementOfSeq DEF QueueOK
<1>2. \A j \in DOMAIN q : d1[q[j]] = d[q[j]]
  <2>1. \A j \in DOMAIN q : q[j] # e /\ q[j] \in TMEB
    BY <1>1 DEF Contains
  <2> QED BY <2>1 DEF QueueOK
<1>3. Ordered(q, d1)
  <2> HIDE DEF d1
  <2> QED BY <1>2 DEF QueueOK, Ordered
<1> QED BY <1>3 DEF QueueOK

\* knl_enqueue_tmeb keeps the order of the true distances.
LEMMA EnqueueKeepsOrder ==
    ASSUME current_time \in Int, NEW q, NEW tm, NEW d, QueueOK(current_time, q, tm, d),
           NEW e \in TMEB, ~Contains(q, e),
           d[e] \in Near, tm[e] = Word(current_time + d[e])
    PROVE  /\ QueueOK(current_time, Enqueue(q, tm, e), tm, d)
           /\ \A u : Contains(Enqueue(q, tm, e), u) <=> Contains(q, u) \/ u = e
<1> DEFINE n == Len(q)
           ofs == current_time - ABSTIM_DIFF_MIN
           I == {j \in 1..n : Word(tm[e] - ofs) < Word(tm[q[j]] - ofs)}
           r == Enqueue(q, tm, e)
<1>1. /\ n \in Nat /\ DOMAIN q = 1..n /\ \A j \in 1..n : q[j] \in TMEB
      /\ d \in [TMEB -> Int] /\ IsInjective(q) /\ Ordered(q, d) /\ q \in Seq(TMEB)
  BY LenProperties, ElementOfSeq DEF QueueOK
<1>2. /\ Word(tm[e] - ofs) = d[e] + ABSTIM_DIFF_MIN
      /\ \A j \in 1..n : Word(tm[q[j]] - ofs) = d[q[j]] + ABSTIM_DIFF_MIN
  <2>1. \A j \in 1..n : d[q[j]] \in Near /\ tm[q[j]] = Word(current_time + d[q[j]])
    BY <1>1 DEF QueueOK, Contains
  <2> QED BY <2>1, OffsetOfWord
<1>3. I = {j \in 1..n : d[e] < d[q[j]]}
  <2>1. ASSUME NEW j \in 1..n
        PROVE  Word(tm[e] - ofs) < Word(tm[q[j]] - ofs) <=> d[e] < d[q[j]]
    <3>1. d[e] \in Int /\ d[q[j]] \in Int
      BY <1>1
    <3> QED BY <1>2, <3>1, ModulusHalves
  <2> QED BY <2>1
<1>4. r = IF I = {} THEN Append(q, e) ELSE InsertAt(q, Min(I), e)
  <2>1. r = LET i == IF I # {} THEN Min(I) ELSE 0
            IN  IF i = 0 THEN Append(q, e) ELSE InsertAt(q, i, e)
    BY DEF Enqueue, SelectInSeq
  <2>2. I # {} => Min(I) \in 1..n
    <3>1. I \subseteq Nat /\ I \subseteq 1..n
      BY <1>1
    <3> HIDE DEF I
    <3>2. I # {} => \E x \in I : \A y \in I : x <= y
      BY <3>1, LeastElement
    <3> QED BY <3>1, <3>2 DEF Min
  <2> HIDE DEF I, r
  <2> QED BY <2>1, <2>2, <1>1
<1>5. CASE I = {}
  <2>1. ASSUME NEW j \in 1..n PROVE d[q[j]] <= d[e]
    <3>1. ~(d[e] < d[q[j]])
      BY <1>3, <1>5
    <3> QED BY <3>1, <1>1
  <2>2. /\ r \in Seq(TMEB) /\ IsInjective(r) /\ Ordered(r, d)
        /\ \A u : Contains(r, u) <=> Contains(q, u) \/ u = e
    <3> HIDE DEF I, r
    <3> QED BY <1>1, <1>4, <1>5, <2>1, AppendEntry
  <2> QED BY <2>2 DEF QueueOK
<1>6. CASE I # {}
  <2> DEFINE i == Min(I)
  <2>1. i \in I /\ \A j \in I : i <= j
    <3>1. I \subseteq Nat
      BY <1>1
    <3> HIDE DEF I
    <3>2. \E x \in I : \A y \in I : x <= y
      BY <3>1, <1>6, LeastElement
    <3> QED BY <3>2 DEF Min
  <2> HIDE DEF i
  <2>2. i \in 1..n+1 /\ i \in 1..n /\ d[e] < d[q[i]]
    BY <1>1, <1>3, <2>1
  <2>3. PlaceOf(q, i, e, d)
    <3>1. ASSUME NEW j \in 1..i-1 PROVE d[q[j]] <= d[e]
      <4>1. j \in 1..n /\ ~(i <= j)
        BY <2>2, <1>1
      <4>2. ~(d[e] < d[q[j]])
        BY <4>1, <1>3, <2>1
      <4> QED BY <4>1, <4>2, <1>1
    <3>2. ASSUME NEW j \in i..n PROVE d[e] <= d[q[j]]
      <4>1. j \in 1..n /\ (i = j \/ i < j) /\ d[q[i]] \in Int /\ d[q[j]] \in Int
        BY <2>2, <1>1
      <4>2. d[q[i]] <= d[q[j]]
        BY <4>1, <2>2, <1>1 DEF Ordered
      <4> QED BY <4>1, <4>2, <2>2, <1>1
    <3> QED BY <3>1, <3>2 DEF PlaceOf
  <2>4. r = InsertAt(q, i, e)
    BY <1>4, <1>6 DEF i
  <2>5. /\ r \in Seq(TMEB) /\ IsInjective(r) /\ Ordered(r, d)
        /\ \A u : Contains(r, u) <=> Contains(q, u) \/ u = e
    <3> HIDE DEF I, r
    <3> QED BY <1>1, <2>2, <2>3, <2>4, InsertEntry
  <2> QED BY <2>5 DEF QueueOK
<1> QED BY <1>5, <1>6

\* knl_timer_insert_abs
LEMMA InsertAbsQueue ==
    ASSUME current_time \in Int, NEW q, QueueOK(current_time, q, time, due),
           NEW e \in TMEB, ~Contains(q, e), NEW tm, NEW d \in Near,
           InsertAbs(q, e, tm, d), Word(tm) = Word(current_time + d)
    PROVE  /\ QueueOK(current_time, timer_queue', time', due')
           /\ \A u : Contains(timer_queue', u) <=> Contains(q, u) \/ u = e
           /\ time' = [time EXCEPT ![e] = Word(current_time + d)]
           /\ due' = [due EXCEPT ![e] = d]
<1>1. d \in Int /\ current_time + d \in Int
  BY ModulusHalves DEF Near
<1>2. /\ time' = [time EXCEPT ![e] = Word(current_time + d)]
      /\ due' = [due EXCEPT ![e] = d]
      /\ timer_queue' = Enqueue(q, time', e)
  BY DEF InsertAbs
<1>3. Word(current_time + d) \in 0..Modulus-1
  BY <1>1, WordRange
<1>4. QueueOK(current_time, q, time', due')
  BY <1>1, <1>2, <1>3, OtherTimes
<1>5. due'[e] \in Near /\ time'[e] = Word(current_time + due'[e])
  BY <1>2 DEF QueueOK
<1> DEFINE tm1 == time'
           d1 == due'
<1>6. QueueOK(current_time, q, tm1, d1) /\ d1[e] \in Near /\ tm1[e] = Word(current_time + d1[e])
  BY <1>4, <1>5
<1> HIDE DEF tm1, d1
<1>7. /\ QueueOK(current_time, Enqueue(q, tm1, e), tm1, d1)
      /\ \A u : Contains(Enqueue(q, tm1, e), u) <=> Contains(q, u) \/ u = e
  BY <1>6, EnqueueKeepsOrder
<1> QED BY <1>2, <1>7 DEF tm1, d1

\* knl_timer_delete
LEMMA DeleteQueue ==
    ASSUME QueueOK(current_time, timer_queue, time, due), NEW e \in TMEB, Contains(timer_queue, e)
    PROVE  /\ QueueOK(current_time, Delete(e), time, due)
           /\ \A u : Contains(Delete(e), u) <=> Contains(timer_queue, u) /\ u # e
<1> DEFINE r == Delete(e)
<1>1. r = RemoveAt(timer_queue, CHOOSE i \in DOMAIN timer_queue : timer_queue[i] = e)
  BY DEF Delete
<1> HIDE DEF r
<1>2. /\ timer_queue \in Seq(TMEB) /\ IsInjective(timer_queue) /\ Ordered(timer_queue, due)
  BY DEF QueueOK
<1>3. /\ r \in Seq(TMEB) /\ IsInjective(r) /\ Ordered(r, due)
      /\ \A u : Contains(r, u) <=> Contains(timer_queue, u) /\ u # e
  BY <1>1, <1>2, RemoveEntry
<1> QED BY <1>3 DEF QueueOK, r

LEMMA TailQueue ==
    ASSUME QueueOK(current_time, timer_queue, time, due), timer_queue # <<>>
    PROVE  /\ QueueOK(current_time, Tail(timer_queue), time, due)
           /\ Head(timer_queue) \in TMEB /\ Contains(timer_queue, Head(timer_queue))
           /\ \A u : Contains(Tail(timer_queue), u) <=>
                        Contains(timer_queue, u) /\ u # Head(timer_queue)
<1> DEFINE r == Tail(timer_queue)
           h == Head(timer_queue)
<1>1. timer_queue \in Seq(TMEB) /\ IsInjective(timer_queue) /\ Ordered(timer_queue, due)
  BY DEF QueueOK
<1>2. /\ r \in Seq(TMEB) /\ h \in TMEB /\ Contains(timer_queue, h)
      /\ IsInjective(r) /\ Ordered(r, due)
      /\ \A u : Contains(r, u) <=> Contains(timer_queue, u) /\ u # h
  BY <1>1, TailEntries
<1> HIDE DEF r, h
<1> QED BY <1>2 DEF QueueOK, r, h

(***************************************************************************)
(* The inductive invariant.                                                *)
(***************************************************************************)
Typed ==
    /\ current_time \in 0..Modulus-1
    /\ cyc \in [CYC -> [hdr : BOOLEAN, phs : BOOLEAN, sta : BOOLEAN, tim : Cyctim]]
    /\ alm \in [ALM -> [hdr : BOOLEAN, sta : BOOLEAN]]
    /\ at \in At

LinkedByState ==
    /\ \A c \in CYC : (Contains(timer_queue, c) <=> cyc[c].sta) /\ (cyc[c].sta => cyc[c].hdr)
    /\ \A a \in ALM : (Contains(timer_queue, a) <=> alm[a].sta) /\ (alm[a].sta => alm[a].hdr)

\* A handler that is stopped keeps its phase, and is not ahead of it by more
\* than half of the words.
PhaseTrue ==
    \A c \in CYC : Live(c) =>
        time[c] = Word(current_time + due[c]) /\ due[c] <= ABSTIM_DIFF_MIN + 1

\* Between ticks nothing is due, in the timer handler nothing for longer than
\* a tick.
NotYet ==
    \A e \in TMEB : Contains(timer_queue, e) =>
        due[e] > IF at = "none" THEN 0 ELSE -TIMER_PERIOD

TimerInv ==
    /\ Typed
    /\ QueueOK(current_time, timer_queue, time, due)
    /\ LinkedByState
    /\ PhaseTrue
    /\ NotYet

LEMMA InitInv == TimerInit => TimerInv
<1> SUFFICES ASSUME TimerInit PROVE TimerInv
  OBVIOUS
<1> USE DEF TimerInit
<1>1. Typed
  BY ModulusHalves DEF Typed, At
<1>2. \A e : ~Contains(timer_queue, e)
  BY DEF Contains
<1>3. QueueOK(current_time, timer_queue, time, due)
  <2>1. timer_queue \in Seq(TMEB) /\ DOMAIN timer_queue = {}
    OBVIOUS
  <2> QED BY <1>2, <2>1, ModulusHalves DEF QueueOK, IsInjective, Ordered
<1>4. LinkedByState
  BY <1>2 DEF LinkedByState
<1>5. PhaseTrue
  BY <1>2 DEF PhaseTrue, Live
<1>6. NotYet
  BY <1>2 DEF NotYet
<1> QED BY <1>1, <1>3, <1>4, <1>5, <1>6 DEF TimerInv

LEMMA TimeIsInt == ASSUME TimerInv PROVE current_time \in Int
  BY ModulusHalves DEF TimerInv, Typed

LEMMA Events ==
    /\ TSK \subseteq TMEB /\ CYC \subseteq TMEB /\ ALM \subseteq TMEB
    /\ TSK \cap CYC = {} /\ TSK \cap ALM = {} /\ CYC \cap ALM = {}
  BY TimerAssumption DEF TMEB

\* An event is put into the queue, perhaps after it has been taken out.
LEMMA InsertionStep ==
    ASSUME TimerInv, NEW e \in TMEB, NEW q,
           \/ q = timer_queue /\ ~Contains(timer_queue, e)
           \/ q = Delete(e) /\ Contains(timer_queue, e)
           \/ q = Tail(timer_queue) /\ timer_queue # <<>> /\ e = Head(timer_queue),
           NEW tm, NEW d \in Near, d > 0,
           InsertAbs(q, e, tm, d), Word(tm) = Word(current_time + d)
    PROVE  /\ QueueOK(current_time, timer_queue', time', due')
           /\ \A u : Contains(timer_queue', u) <=> Contains(timer_queue, u) \/ u = e
           /\ time' = [time EXCEPT ![e] = Word(current_time + d)]
           /\ due' = [due EXCEPT ![e] = d]
           /\ time'[e] = Word(current_time + due'[e]) /\ due'[e] = d
           /\ \A u \in TMEB : Contains(timer_queue', u) =>
                due'[u] > IF at = "none" THEN 0 ELSE -TIMER_PERIOD
<1>1. /\ QueueOK(current_time, q, time, due) /\ ~Contains(q, e)
      /\ \A u : u # e => (Contains(q, u) <=> Contains(timer_queue, u))
      /\ q # timer_queue => Contains(timer_queue, e)
  <2>1. QueueOK(current_time, timer_queue, time, due)
    BY DEF TimerInv
  <2>2. CASE q = timer_queue /\ ~Contains(timer_queue, e)
    BY <2>1, <2>2
  <2>3. CASE q = Delete(e) /\ Contains(timer_queue, e)
    <3>1. /\ QueueOK(current_time, Delete(e), time, due)
          /\ \A u : Contains(Delete(e), u) <=> Contains(timer_queue, u) /\ u # e
      BY <2>1, <2>3, DeleteQueue
    <3> QED BY <2>3, <3>1
  <2>4. CASE q = Tail(timer_queue) /\ timer_queue # <<>> /\ e = Head(timer_queue)
    <3>1. /\ QueueOK(current_time, Tail(timer_queue), time, due)
          /\ Contains(timer_queue, Head(timer_queue))
          /\ \A u : Contains(Tail(timer_queue), u) <=>
                      Contains(timer_queue, u) /\ u # Head(timer_queue)
      BY <2>1, <2>4, TailQueue
    <3> QED BY <2>4, <3>1
  <2> QED BY <2>2, <2>3, <2>4
<1>2. /\ QueueOK(current_time, timer_queue', time', due')
      /\ \A u : Contains(timer_queue', u) <=> Contains(q, u) \/ u = e
      /\ time' = [time EXCEPT ![e] = Word(current_time + d)]
      /\ due' = [due EXCEPT ![e] = d]
  BY <1>1, TimeIsInt, InsertAbsQueue
<1>3. time \in [TMEB -> 0..Modulus-1] /\ due \in [TMEB -> Int]
  BY DEF TimerInv, QueueOK
<1>4. time'[e] = Word(current_time + due'[e]) /\ due'[e] = d
  BY <1>2, <1>3
<1>5. ASSUME NEW u \in TMEB, Contains(timer_queue', u)
      PROVE  due'[u] > IF at = "none" THEN 0 ELSE -TIMER_PERIOD
  <2>1. CASE u = e
    BY <1>4, <2>1, ModulusHalves DEF Near
  <2>2. CASE u # e
    <3>1. Contains(timer_queue, u) /\ due'[u] = due[u]
      BY <1>1, <1>2, <1>3, <1>5, <2>2
    <3> QED BY <3>1 DEF TimerInv, NotYet
  <2> QED BY <2>1, <2>2
<1> QED BY <1>1, <1>2, <1>4, <1>5

\* An event is taken out of the queue.
LEMMA DeletionStep ==
    ASSUME TimerInv, NEW e \in TMEB, UNCHANGED <<time, due>>,
           \/ timer_queue' = Delete(e) /\ Contains(timer_queue, e)
           \/ timer_queue' = Tail(timer_queue) /\ timer_queue # <<>> /\ e = Head(timer_queue)
    PROVE  /\ QueueOK(current_time, timer_queue', time', due')
           /\ \A u : Contains(timer_queue', u) <=> Contains(timer_queue, u) /\ u # e
           /\ \A u \in TMEB : Contains(timer_queue', u) =>
                due'[u] > IF at = "none" THEN 0 ELSE -TIMER_PERIOD
<1>1. QueueOK(current_time, timer_queue, time, due)
  BY DEF TimerInv
<1>2. /\ QueueOK(current_time, timer_queue', time, due)
      /\ \A u : Contains(timer_queue', u) <=> Contains(timer_queue, u) /\ u # e
  <2>1. CASE timer_queue' = Delete(e) /\ Contains(timer_queue, e)
    <3>1. /\ QueueOK(current_time, Delete(e), time, due)
          /\ \A u : Contains(Delete(e), u) <=> Contains(timer_queue, u) /\ u # e
      BY <1>1, <2>1, DeleteQueue
    <3> QED BY <2>1, <3>1
  <2>2. CASE timer_queue' = Tail(timer_queue) /\ timer_queue # <<>> /\ e = Head(timer_queue)
    <3>1. /\ QueueOK(current_time, Tail(timer_queue), time, due)
          /\ \A u : Contains(Tail(timer_queue), u) <=>
                      Contains(timer_queue, u) /\ u # Head(timer_queue)
      BY <1>1, <2>2, TailQueue
    <3> QED BY <2>2, <3>1
  <2> QED BY <2>1, <2>2
<1> QED BY <1>2 DEF TimerInv, NotYet

\* The same for the whole invariant: a step that puts e into the queue makes
\* it a started handler or a set alarm, one that takes it out does not.
LEMMA AfterInsertion ==
    ASSUME TimerInv, Typed', NEW e \in TMEB, NEW q,
           \/ q = timer_queue /\ ~Contains(timer_queue, e)
           \/ q = Delete(e) /\ Contains(timer_queue, e)
           \/ q = Tail(timer_queue) /\ timer_queue # <<>> /\ e = Head(timer_queue),
           NEW tm, NEW d \in Near, d > 0,
           InsertAbs(q, e, tm, d), Word(tm) = Word(current_time + d),
           current_time' = current_time, at = "none" <=> at' = "none",
           \A c \in CYC : IF c = e THEN cyc'[c].sta /\ cyc'[c].hdr ELSE cyc'[c] = cyc[c],
           \A a \in ALM : IF a = e THEN alm'[a].sta /\ alm'[a].hdr ELSE alm'[a] = alm[a]
    PROVE  TimerInv'
<1> DEFINE low == IF at = "none" THEN 0 ELSE -TIMER_PERIOD
<1>1. /\ QueueOK(current_time, timer_queue', time', due')
      /\ \A u : Contains(timer_queue', u) <=> Contains(timer_queue, u) \/ u = e
      /\ time' = [time EXCEPT ![e] = Word(current_time + d)]
      /\ due' = [due EXCEPT ![e] = d]
      /\ time'[e] = Word(current_time + due'[e]) /\ due'[e] = d
      /\ \A u \in TMEB : Contains(timer_queue', u) => due'[u] > low
  BY InsertionStep
<1>2. QueueOK(current_time', timer_queue', time', due')
  BY <1>1
<1>3. LinkedByState'
  BY <1>1 DEF TimerInv, LinkedByState
<1>4. PhaseTrue'
  <2>1. ASSUME NEW c \in CYC, Live(c)'
        PROVE  time'[c] = Word(current_time' + due'[c]) /\ due'[c] <= ABSTIM_DIFF_MIN + 1
    <3>1. CASE c = e
      BY <1>1, <3>1 DEF Near
    <3>2. CASE c # e
      <4>1. time'[c] = time[c] /\ due'[c] = due[c]
        BY <1>1, <3>2, Events DEF TimerInv, QueueOK
      <4>2. Live(c)
        BY <1>1, <2>1, <3>2 DEF Live
      <4> QED BY <4>1, <4>2 DEF TimerInv, PhaseTrue
    <3> QED BY <3>1, <3>2
  <2> QED BY <2>1 DEF PhaseTrue
<1>5. NotYet'
  BY <1>1 DEF NotYet
<1> QED BY <1>2, <1>3, <1>4, <1>5 DEF TimerInv

LEMMA AfterDeletion ==
    ASSUME TimerInv, Typed', NEW e \in TMEB, UNCHANGED <<current_time, time, due>>,
           \/ timer_queue' = Delete(e) /\ Contains(timer_queue, e)
           \/ timer_queue' = Tail(timer_queue) /\ timer_queue # <<>> /\ e = Head(timer_queue),
           Contains(timer_queue, e), at = "none" <=> at' = "none",
           \A c \in CYC : IF c = e THEN ~cyc'[c].sta ELSE cyc'[c] = cyc[c],
           \A a \in ALM : IF a = e THEN ~alm'[a].sta ELSE alm'[a] = alm[a]
    PROVE  TimerInv'
<1> DEFINE low == IF at = "none" THEN 0 ELSE -TIMER_PERIOD
<1>1. /\ QueueOK(current_time, timer_queue', time', due')
      /\ \A u : Contains(timer_queue', u) <=> Contains(timer_queue, u) /\ u # e
      /\ \A u \in TMEB : Contains(timer_queue', u) => due'[u] > low
  BY DeletionStep
<1>2. QueueOK(current_time', timer_queue', time', due')
  BY <1>1
<1>3. LinkedByState'
  BY <1>1 DEF TimerInv, LinkedByState
<1>4. PhaseTrue'
  <2>1. ASSUME NEW c \in CYC, Live(c)'
        PROVE  Live(c)
    BY <1>1, <2>1 DEF Live
  <2> QED BY <2>1 DEF TimerInv, PhaseTrue
<1>5. NotYet'
  BY <1>1 DEF NotYet
<1> QED BY <1>2, <1>3, <1>4, <1>5 DEF TimerInv

\* A step that leaves the queue alone.
LEMMA AfterOther ==
    ASSUME TimerInv, Typed', UNCHANGED <<current_time, timer_queue, time, due>>,
           \A c \in CYC : /\ cyc'[c].sta = cyc[c].sta /\ (cyc'[c].sta => cyc'[c].hdr)
                          /\ cyc'[c].hdr => cyc'[c] = cyc[c],
           \A a \in ALM : alm'[a].sta = alm[a].sta /\ (alm'[a].sta => alm'[a].hdr),
           NotYet'
    PROVE  TimerInv'
<1>1. LinkedByState'
  BY DEF TimerInv, LinkedByState
<1>2. PhaseTrue'
  BY DEF TimerInv, PhaseTrue, Live
<1> QED BY <1>1, <1>2 DEF TimerInv

(***************************************************************************)
(* One lemma for each operation.                                           *)
(***************************************************************************)
LEMMA TimerInsertInv ==
    ASSUME ShortIntervals, TimerInv, NEW t \in TSK, NEW tmout \in Tmo, TimerInsert(t, tmout)
    PROVE  TimerInv'
<1> DEFINE d == tmout + TIMER_PERIOD
           tm == current_time + tmout + TIMER_PERIOD
<1>1. tmout \in 1..ABSTIM_DIFF_MIN /\ d <= ABSTIM_DIFF_MIN + 1
  BY TimerAssumption DEF ShortIntervals
<1>2. d \in Near /\ d > 0 /\ Word(tm) = Word(current_time + d)
  <2>1. tm = current_time + d
    BY <1>1, TimeIsInt, ModulusHalves
  <2> QED BY <1>1, <2>1, ModulusHalves DEF Near
<1>3. /\ InsertAbs(timer_queue, t, tm, d) /\ ~Contains(timer_queue, t)
      /\ UNCHANGED <<current_time, cyc, alm, at>>
  BY DEF TimerInsert
<1>4. Typed'
  BY <1>3 DEF TimerInv, Typed
<1> HIDE DEF d, tm
<1> QED BY <1>2, <1>3, <1>4, Events, AfterInsertion

LEMMA TimerDeleteInv ==
    ASSUME TimerInv, NEW t \in TSK, TimerDelete(t)
    PROVE  TimerInv'
<1>1. /\ timer_queue' = Delete(t) /\ Contains(timer_queue, t)
      /\ UNCHANGED <<current_time, time, cyc, alm, at, due>>
  BY DEF TimerDelete
<1>2. Typed'
  BY <1>1 DEF TimerInv, Typed
<1> QED BY <1>1, <1>2, Events, AfterDeletion

LEMMA DelCycInv ==
    ASSUME TimerInv, NEW c \in CYC, DelCyc(c)
    PROVE  TimerInv'
<1>1. /\ timer_queue' = IF cyc[c].sta THEN Delete(c) ELSE timer_queue
      /\ cyc' = [cyc EXCEPT ![c].hdr = FALSE, ![c].sta = FALSE]
      /\ UNCHANGED <<current_time, time, alm, at, due>>
  BY DEF DelCyc
<1>2. /\ Typed' /\ ~cyc'[c].sta /\ ~cyc'[c].hdr
      /\ \A x \in CYC : x # c => cyc'[x] = cyc[x]
  BY <1>1 DEF TimerInv, Typed
<1>3. CASE cyc[c].sta
  <2>1. Contains(timer_queue, c) /\ timer_queue' = Delete(c)
    BY <1>1, <1>3 DEF TimerInv, LinkedByState
  <2> QED BY <1>1, <1>2, <2>1, Events, AfterDeletion
<1>4. CASE ~cyc[c].sta
  <2>1. timer_queue' = timer_queue /\ NotYet'
    BY <1>1, <1>4 DEF TimerInv, NotYet
  <2>2. /\ \A x \in CYC : cyc[x].sta \in BOOLEAN /\ (cyc[x].sta => cyc[x].hdr)
        /\ \A x \in ALM : alm[x].sta => alm[x].hdr
    BY DEF TimerInv, Typed, LinkedByState
  <2>3. \A x \in CYC : /\ cyc'[x].sta = cyc[x].sta /\ (cyc'[x].sta => cyc'[x].hdr)
                       /\ cyc'[x].hdr => cyc'[x] = cyc[x]
    <3>1. cyc'[c].sta = cyc[c].sta
      BY <1>1, <1>4, <2>2 DEF TimerInv, Typed
    <3> QED BY <1>2, <2>2, <3>1
  <2> QED BY <1>1, <1>2, <2>1, <2>2, <2>3, AfterOther
<1> QED BY <1>3, <1>4

LEMMA StpCycInv ==
    ASSUME TimerInv, NEW c \in CYC, StpCyc(c)
    PROVE  TimerInv'
<1>1. /\ timer_queue' = Delete(c) /\ cyc[c].sta
      /\ cyc' = [cyc EXCEPT ![c].sta = FALSE]
      /\ UNCHANGED <<current_time, time, alm, at, due>>
  BY DEF StpCyc
<1>2. /\ Typed' /\ ~cyc'[c].sta
      /\ \A x \in CYC : x # c => cyc'[x] = cyc[x]
  BY <1>1 DEF TimerInv, Typed
<1>3. Contains(timer_queue, c)
  BY <1>1 DEF TimerInv, LinkedByState
<1> QED BY <1>1, <1>2, <1>3, Events, AfterDeletion

\* A handler that is created has no event; one with TA_PHS has a phase at once.
LEMMA CreCycInv ==
    ASSUME ShortIntervals, TimerInv, NEW c \in CYC, NEW phs \in BOOLEAN, NEW sta \in BOOLEAN,
           NEW tim \in Cyctim, NEW cycphs \in Cycphs, CreCyc(c, phs, sta, tim, cycphs)
    PROVE  TimerInv'
<1> DEFINE tm == current_time + cycphs + TIMER_PERIOD
           d == cycphs + TIMER_PERIOD
<1>1. /\ ~cyc[c].hdr
      /\ cyc' = [cyc EXCEPT ![c] = [hdr |-> TRUE, phs |-> phs, sta |-> sta, tim |-> tim]]
      /\ \/ /\ sta /\ cycphs = 0
            /\ InsertAbs(timer_queue, c, CycNextTime(Word(tm), tim), NextDue(d, tim))
         \/ sta /\ cycphs > 0 /\ InsertAbs(timer_queue, c, tm, d)
         \/ /\ ~sta
            /\ time' = [time EXCEPT ![c] = Word(tm)]
            /\ due' = [due EXCEPT ![c] = d]
            /\ UNCHANGED timer_queue
      /\ UNCHANGED <<current_time, alm, at>>
  BY DEF CreCyc
<1>2. /\ tim \in 1..ABSTIM_DIFF_MIN /\ tim + TIMER_PERIOD <= ABSTIM_DIFF_MIN + 1
      /\ cycphs \in Nat /\ d <= ABSTIM_DIFF_MIN + 1
  BY TimerAssumption DEF ShortIntervals
<1>3. d \in Near /\ d > 0 /\ tm = current_time + d
  BY <1>2, TimeIsInt, ModulusHalves DEF Near
<1>4. /\ Typed' /\ cyc'[c] = [hdr |-> TRUE, phs |-> phs, sta |-> sta, tim |-> tim]
      /\ \A x \in CYC : x # c => cyc'[x] = cyc[x]
  BY <1>1 DEF TimerInv, Typed
<1>5. ~Contains(timer_queue, c)
  BY <1>1 DEF TimerInv, LinkedByState
<1>6. CASE sta /\ cycphs = 0
  <2> DEFINE n == NextDue(d, tim)
             w == CycNextTime(Word(tm), tim)
  <2>1. d = TIMER_PERIOD /\ d \in 1..ABSTIM_DIFF_MIN /\ d + tim <= ABSTIM_DIFF_MIN + 1
    BY <1>2, <1>6, ModulusHalves
  <2>2. n = d + tim /\ CycNextTime(Word(current_time + d), tim) = Word(current_time + n)
    <3> HIDE DEF d
    <3> QED BY <1>2, <2>1, TimeIsInt, NextTimeWhenNew
  <2>3. n \in Near /\ n > 0
    BY <1>2, <2>1, <2>2, ModulusHalves DEF Near
  <2>4. Word(w) = Word(current_time + n)
    <3>1. w = Word(current_time + n) /\ current_time + n \in Int
      BY <1>3, <2>2, <2>3, TimeIsInt, ModulusHalves DEF Near
    <3> QED BY <3>1, WordRange, WordSmall
  <2>5. InsertAbs(timer_queue, c, w, n)
    BY <1>1, <1>6
  <2> HIDE DEF n, w, d, tm
  <2> QED BY <1>1, <1>4, <1>5, <1>6, <2>3, <2>4, <2>5, Events, AfterInsertion
<1>7. CASE sta /\ cycphs > 0
  <2>1. InsertAbs(timer_queue, c, tm, d)
    BY <1>1, <1>2, <1>7
  <2> HIDE DEF d, tm
  <2> QED BY <1>1, <1>3, <1>4, <1>5, <1>7, <2>1, Events, AfterInsertion
<1>8. CASE ~sta
  <2>1. /\ time' = [time EXCEPT ![c] = Word(tm)] /\ due' = [due EXCEPT ![c] = d]
        /\ timer_queue' = timer_queue
    BY <1>1, <1>8
  <2>2. d \in Int /\ tm \in Int /\ Word(tm) \in 0..Modulus-1
    BY <1>2, <1>3, TimeIsInt, ModulusHalves, WordRange
  <2> HIDE DEF d, tm
  <2>3. QueueOK(current_time, timer_queue, time', due')
    <3>1. QueueOK(current_time, timer_queue, time, due)
      BY DEF TimerInv
    <3> QED BY <1>5, <2>1, <2>2, <3>1, Events, OtherTimes
  <2>4. QueueOK(current_time', timer_queue', time', due')
    BY <1>1, <2>1, <2>3
  <2>5. time \in [TMEB -> 0..Modulus-1] /\ due \in [TMEB -> Int]
    BY DEF TimerInv, QueueOK
  <2>6. LinkedByState'
    BY <1>1, <1>4, <1>5, <1>8, <2>1 DEF TimerInv, LinkedByState
  <2>7. PhaseTrue'
    <3>1. time'[c] = Word(current_time' + due'[c]) /\ due'[c] <= ABSTIM_DIFF_MIN + 1
      BY <1>1, <1>3, <2>1, <2>5, Events DEF Near
    <3>2. ASSUME NEW x \in CYC, x # c, Live(x)'
          PROVE  time'[x] = Word(current_time' + due'[x]) /\ due'[x] <= ABSTIM_DIFF_MIN + 1
      <4>1. Live(x) /\ time'[x] = time[x] /\ due'[x] = due[x]
        BY <1>4, <2>1, <2>5, <3>2, Events DEF Live
      <4> QED BY <1>1, <4>1 DEF TimerInv, PhaseTrue
    <3> QED BY <3>1, <3>2 DEF PhaseTrue
  <2>8. NotYet'
    <3>1. \A x \in TMEB : Contains(timer_queue, x) => due'[x] = due[x]
      BY <1>5, <2>1, <2>5
    <3> QED BY <1>1, <2>1, <3>1 DEF TimerInv, NotYet
  <2> QED BY <1>4, <2>4, <2>6, <2>7, <2>8 DEF TimerInv
<1> QED BY <1>1, <1>6, <1>7, <1>8

\* A handler with TA_PHS is started in its phase, within half of the words of
\* the time it had; one without TA_PHS begins a new interval.
LEMMA StaCycInv ==
    ASSUME ShortIntervals, RestartedInTime, TimerInv, NEW c \in CYC, StaCyc(c)
    PROVE  TimerInv'
<1> DEFINE x == due[c]
           tim == cyc[c].tim
<1>1. /\ cyc[c].hdr
      /\ \/ /\ cyc[c].phs /\ ~cyc[c].sta
            /\ IF AbstimReached(current_time, time[c])
               THEN InsertAbs(timer_queue, c, CycNextTime(time[c], tim), NextDue(x, tim))
               ELSE InsertAbs(timer_queue, c, time[c], IF x > 0 THEN x ELSE NextDue(x, tim))
         \/ /\ ~cyc[c].phs
            /\ InsertAbs(IF cyc[c].sta THEN Delete(c) ELSE timer_queue, c,
                         current_time + tim + TIMER_PERIOD, tim + TIMER_PERIOD)
      /\ cyc' = [cyc EXCEPT ![c].sta = TRUE]
      /\ UNCHANGED <<current_time, alm, at>>
  BY DEF StaCyc
<1>2. /\ tim \in 1..ABSTIM_DIFF_MIN /\ tim + TIMER_PERIOD <= ABSTIM_DIFF_MIN + 1
  <2>1. tim \in Cyctim
    BY DEF TimerInv, Typed
  <2> QED BY <2>1, TimerAssumption DEF ShortIntervals
<1>3. /\ Typed' /\ cyc'[c].sta /\ cyc'[c].hdr
      /\ \A y \in CYC : y # c => cyc'[y] = cyc[y]
  BY <1>1 DEF TimerInv, Typed
<1>4. Contains(timer_queue, c) <=> cyc[c].sta
  BY DEF TimerInv, LinkedByState
<1> HIDE DEF x, tim
<1>5. CASE cyc[c].phs /\ ~cyc[c].sta
  <2>1. x \in Near /\ time[c] = Word(current_time + x)
    <3>1. Live(c)
      BY <1>1, <1>5 DEF Live
    <3>2. x \in Int /\ x >= -ABSTIM_DIFF_MIN /\ x <= ABSTIM_DIFF_MIN + 1
      BY <3>1, Events DEF x, RestartedInTime, TimerInv, PhaseTrue, QueueOK
    <3> QED BY <3>1, <3>2, ModulusHalves DEF x, Near, TimerInv, PhaseTrue
  <2>2. AbstimReached(current_time, time[c]) <=> x <= 0
    BY <2>1, TimeIsInt, ReachedBySign
  <2> DEFINE n == IF x > 0 THEN x ELSE NextDue(x, tim)
             w == IF x > 0 THEN time[c] ELSE CycNextTime(time[c], tim)
  <2>3. x \in Int
    BY <2>1, ModulusHalves DEF Near
  <2>4. InsertAbs(timer_queue, c, w, n)
    BY <1>1, <1>5, <2>2, <2>3
  <2>5. n \in Near /\ n > 0 /\ w = Word(current_time + n)
    <3>1. CASE x > 0
      BY <2>1, <3>1
    <3>2. CASE x <= 0
      <4>1. /\ NextDue(x, tim) \in 1..tim
            /\ CycNextTime(Word(current_time + x), tim) = Word(current_time + NextDue(x, tim))
        BY <1>2, <2>1, <3>2, TimeIsInt, NextTimeWhenDue
      <4>2. n = NextDue(x, tim) /\ w = CycNextTime(Word(current_time + x), tim)
        BY <2>1, <2>3, <3>2
      <4> HIDE DEF n, w
      <4>3. n \in 1..tim /\ w = Word(current_time + n)
        BY <4>1, <4>2
      <4> QED BY <1>2, <4>3, ModulusHalves DEF Near
    <3> QED BY <2>3, <3>1, <3>2
  <2> HIDE DEF n, w
  <2>6. Word(w) = Word(current_time + n)
    <3>1. current_time + n \in Int
      BY <2>5, TimeIsInt, ModulusHalves DEF Near
    <3> QED BY <2>5, <3>1, WordRange, WordSmall
  <2> QED BY <1>1, <1>3, <1>4, <1>5, <2>4, <2>5, <2>6, Events, AfterInsertion
<1>6. CASE ~cyc[c].phs
  <2> DEFINE q == IF cyc[c].sta THEN Delete(c) ELSE timer_queue
             tm == current_time + tim + TIMER_PERIOD
             d == tim + TIMER_PERIOD
  <2>1. InsertAbs(q, c, tm, d)
    BY <1>1, <1>6
  <2>2. d \in Near /\ d > 0 /\ Word(tm) = Word(current_time + d)
    <3>1. tm = current_time + d
      BY <1>2, TimeIsInt, ModulusHalves
    <3> QED BY <1>2, <3>1, ModulusHalves DEF Near
  <2>3. \/ q = timer_queue /\ ~Contains(timer_queue, c)
        \/ q = Delete(c) /\ Contains(timer_queue, c)
    BY <1>4
  <2> HIDE DEF q, tm, d
  <2> QED BY <1>1, <1>3, <2>1, <2>2, <2>3, Events, AfterInsertion
<1> QED BY <1>1, <1>5, <1>6

LEMMA CreAlmInv ==
    ASSUME TimerInv, NEW a \in ALM, CreAlm(a)
    PROVE  TimerInv'
<1>1. /\ ~alm[a].hdr /\ alm' = [alm EXCEPT ![a] = [hdr |-> TRUE, sta |-> FALSE]]
      /\ UNCHANGED <<current_time, timer_queue, time, cyc, at, due>>
  BY DEF CreAlm
<1>2. Typed' /\ NotYet'
  BY <1>1 DEF TimerInv, Typed, NotYet
<1>3. /\ \A x \in CYC : cyc[x].sta => cyc[x].hdr
      /\ \A x \in ALM : alm[x].sta \in BOOLEAN /\ (alm[x].sta => alm[x].hdr)
  BY DEF TimerInv, Typed, LinkedByState
<1>4. \A x \in ALM : alm'[x].sta = alm[x].sta /\ (alm'[x].sta => alm'[x].hdr)
  <2>1. alm'[a].sta = FALSE /\ \A x \in ALM : x # a => alm'[x] = alm[x]
    BY <1>1 DEF TimerInv, Typed
  <2> QED BY <1>1, <1>3, <2>1
<1> QED BY <1>1, <1>2, <1>3, <1>4, AfterOther

LEMMA DelAlmInv ==
    ASSUME TimerInv, NEW a \in ALM, DelAlm(a)
    PROVE  TimerInv'
<1>1. /\ timer_queue' = IF alm[a].sta THEN Delete(a) ELSE timer_queue
      /\ alm' = [alm EXCEPT ![a] = [hdr |-> FALSE, sta |-> FALSE]]
      /\ UNCHANGED <<current_time, time, cyc, at, due>>
  BY DEF DelAlm
<1>2. /\ Typed' /\ ~alm'[a].sta
      /\ \A x \in ALM : x # a => alm'[x] = alm[x]
  BY <1>1 DEF TimerInv, Typed
<1>3. CASE alm[a].sta
  <2>1. Contains(timer_queue, a) /\ timer_queue' = Delete(a)
    BY <1>1, <1>3 DEF TimerInv, LinkedByState
  <2> QED BY <1>1, <1>2, <2>1, Events, AfterDeletion
<1>4. CASE ~alm[a].sta
  <2>1. timer_queue' = timer_queue /\ NotYet'
    BY <1>1, <1>4 DEF TimerInv, NotYet
  <2>2. \A x \in ALM : alm'[x].sta = alm[x].sta /\ (alm'[x].sta => alm'[x].hdr)
    <3>1. alm'[a].sta = FALSE /\ alm[a].sta = FALSE
      BY <1>1, <1>4 DEF TimerInv, Typed
    <3> QED BY <1>2, <3>1 DEF TimerInv, LinkedByState
  <2>3. \A x \in CYC : cyc[x].sta => cyc[x].hdr
    BY DEF TimerInv, LinkedByState
  <2> QED BY <1>1, <1>2, <2>1, <2>2, <2>3, AfterOther
<1> QED BY <1>3, <1>4

LEMMA StpAlmInv ==
    ASSUME TimerInv, NEW a \in ALM, StpAlm(a)
    PROVE  TimerInv'
<1>1. /\ timer_queue' = Delete(a) /\ alm[a].sta
      /\ alm' = [alm EXCEPT ![a].sta = FALSE]
      /\ UNCHANGED <<current_time, time, cyc, at, due>>
  BY DEF StpAlm
<1>2. /\ Typed' /\ ~alm'[a].sta
      /\ \A x \in ALM : x # a => alm'[x] = alm[x]
  BY <1>1 DEF TimerInv, Typed
<1>3. Contains(timer_queue, a)
  BY <1>1 DEF TimerInv, LinkedByState
<1> QED BY <1>1, <1>2, <1>3, Events, AfterDeletion

LEMMA StaAlmInv ==
    ASSUME ShortIntervals, TimerInv, NEW a \in ALM, NEW almtim \in Almtim, StaAlm(a, almtim)
    PROVE  TimerInv'
<1> DEFINE q == IF alm[a].sta THEN Delete(a) ELSE timer_queue
           tm == current_time + almtim + TIMER_PERIOD
           d == almtim + TIMER_PERIOD
<1>1. /\ \/ almtim > 0 /\ InsertAbs(q, a, tm, d)
         \/ almtim = 0 /\ timer_queue' = q /\ UNCHANGED <<time, due>>
      /\ alm' = [alm EXCEPT ![a].sta = almtim > 0]
      /\ UNCHANGED <<current_time, cyc, at>>
  BY DEF StaAlm
<1>2. almtim \in Nat /\ d <= ABSTIM_DIFF_MIN + 1
  BY TimerAssumption, ModulusHalves DEF ShortIntervals
<1>3. /\ alm'[a].sta = (almtim > 0) /\ alm'[a].hdr = alm[a].hdr /\ alm[a].hdr
      /\ \A x \in ALM : x # a => alm'[x] = alm[x]
  BY <1>1, Zenon DEF TimerInv, Typed, StaAlm
<1>4. Typed'
  <2>1. (almtim > 0) \in BOOLEAN
    OBVIOUS
  <2> QED BY <1>1, <2>1, Zenon DEF TimerInv, Typed
<1>5. \/ q = timer_queue /\ ~Contains(timer_queue, a) /\ ~alm[a].sta
      \/ q = Delete(a) /\ Contains(timer_queue, a)
  BY DEF TimerInv, LinkedByState
<1>6. CASE almtim > 0
  <2>1. d \in Near /\ d > 0 /\ Word(tm) = Word(current_time + d)
    <3>1. tm = current_time + d
      BY <1>2, TimeIsInt, ModulusHalves
    <3> QED BY <1>2, <3>1, ModulusHalves DEF Near
  <2>2. InsertAbs(q, a, tm, d)
    BY <1>1, <1>6
  <2> HIDE DEF q, tm, d
  <2> QED BY <1>1, <1>3, <1>4, <1>5, <1>6, <2>1, <2>2, Events, AfterInsertion
<1>7. CASE almtim = 0
  <2>1. timer_queue' = q /\ UNCHANGED <<time, due>> /\ alm'[a].sta = FALSE
    <3>1. ~(almtim > 0)
      BY <1>7
    <3> HIDE DEF q, tm, d
    <3>2. ~alm'[a].sta
      BY <1>3, <3>1, Zenon
    <3>3. alm'[a].sta \in BOOLEAN
      BY <1>4 DEF Typed
    <3> QED BY <1>1, <3>1, <3>2, <3>3
  <2>2. CASE q = Delete(a) /\ Contains(timer_queue, a)
    <3> HIDE DEF q
    <3> QED BY <1>1, <1>3, <1>4, <2>1, <2>2, Events, AfterDeletion
  <2>3. CASE q = timer_queue /\ ~alm[a].sta
    <3>1. timer_queue' = timer_queue /\ NotYet'
      BY <1>1, <2>1, <2>3 DEF TimerInv, NotYet
    <3>2. \A x \in ALM : alm'[x].sta = alm[x].sta /\ (alm'[x].sta => alm'[x].hdr)
      <4>1. alm[a].sta = FALSE
        BY <2>3 DEF TimerInv, Typed
      <4> QED BY <1>3, <2>1, <4>1 DEF TimerInv, LinkedByState
    <3>3. \A x \in CYC : cyc[x].sta => cyc[x].hdr
      BY DEF TimerInv, LinkedByState
    <3> QED BY <1>1, <1>4, <2>1, <3>1, <3>2, <3>3, AfterOther
  <2> QED BY <1>5, <2>2, <2>3
<1> QED BY <1>2, <1>6, <1>7

\* A tick brings every time nearer by the same.
LEMMA TickInv ==
    ASSUME TimerInv, Tick
    PROVE  TimerInv'
<1>1. /\ at = "none" /\ at' = "loop"
      /\ current_time' = Word(current_time + TIMER_PERIOD)
      /\ due' = [e \in TMEB |-> IF Live(e) THEN due[e] - TIMER_PERIOD ELSE due[e]]
      /\ UNCHANGED <<timer_queue, time, cyc, alm>>
  BY DEF Tick
<1>2. /\ timer_queue \in Seq(TMEB) /\ IsInjective(timer_queue) /\ Ordered(timer_queue, due)
      /\ time \in [TMEB -> 0..Modulus-1] /\ due \in [TMEB -> Int]
      /\ \A e \in TMEB : Contains(timer_queue, e) =>
            due[e] \in Near /\ time[e] = Word(current_time + due[e])
  BY DEF TimerInv, QueueOK
<1>3. Typed'
  <2>1. current_time + TIMER_PERIOD \in Int
    BY TimeIsInt, ModulusHalves
  <2>2. current_time' \in 0..Modulus-1
    BY <1>1, <2>1, WordRange
  <2> QED BY <1>1, <2>2 DEF TimerInv, Typed, At
<1>4. ASSUME NEW e \in TMEB, Live(e), time[e] = Word(current_time + due[e])
      PROVE  due'[e] = due[e] - TIMER_PERIOD /\ time'[e] = Word(current_time' + due'[e])
  <2>1. due'[e] = due[e] - TIMER_PERIOD /\ due[e] \in Int
    BY <1>1, <1>2, <1>4
  <2> DEFINE s == current_time + TIMER_PERIOD
             b == due[e] - TIMER_PERIOD
  <2>2. s \in Int /\ b \in Int /\ s + b = current_time + due[e]
    BY <2>1, TimeIsInt, ModulusHalves
  <2> HIDE DEF s, b
  <2>3. Word(Word(s) + b) = Word(s + b)
    BY <2>2, WordSum
  <2> QED BY <1>1, <1>4, <2>1, <2>2, <2>3 DEF s, b
<1>5. \A e : Contains(timer_queue, e) => e \in TMEB
  <2>1. \A i \in 1..Len(timer_queue) : timer_queue[i] \in TMEB
    BY <1>2, ElementOfSeq
  <2> QED BY <2>1 DEF Contains
<1>6. \A e \in TMEB : Contains(timer_queue, e) =>
        /\ due'[e] = due[e] - TIMER_PERIOD /\ time'[e] = Word(current_time' + due'[e])
        /\ due'[e] \in Near /\ due'[e] > -TIMER_PERIOD
  <2>1. ASSUME NEW e \in TMEB, Contains(timer_queue, e)
        PROVE  /\ due'[e] = due[e] - TIMER_PERIOD /\ time'[e] = Word(current_time' + due'[e])
               /\ due'[e] \in Near /\ due'[e] > -TIMER_PERIOD
    <3>1. due'[e] = due[e] - TIMER_PERIOD /\ time'[e] = Word(current_time' + due'[e])
      BY <1>2, <1>4, <2>1 DEF Live
    <3>2. due[e] \in Near /\ due[e] > 0
      BY <1>1, <1>2, <2>1 DEF TimerInv, NotYet
    <3> QED BY <3>1, <3>2, ModulusHalves DEF Near
  <2> QED BY <2>1
<1>7. Ordered(timer_queue', due')
  <2>1. \A i \in DOMAIN timer_queue : timer_queue[i] \in TMEB /\ Contains(timer_queue, timer_queue[i])
    BY <1>2, LenProperties, ElementOfSeq DEF Contains
  <2>2. ASSUME NEW i \in DOMAIN timer_queue, NEW j \in DOMAIN timer_queue, i < j
        PROVE  due'[timer_queue[i]] <= due'[timer_queue[j]]
    <3>1. due[timer_queue[i]] <= due[timer_queue[j]]
      BY <1>2, <2>2 DEF Ordered
    <3>2. /\ due'[timer_queue[i]] = due[timer_queue[i]] - TIMER_PERIOD
          /\ due'[timer_queue[j]] = due[timer_queue[j]] - TIMER_PERIOD
          /\ due[timer_queue[i]] \in Int /\ due[timer_queue[j]] \in Int
      BY <1>2, <1>6, <2>1
    <3> QED BY <3>1, <3>2, ModulusHalves
  <2> QED BY <1>1, <2>2 DEF Ordered
<1>8. due' \in [TMEB -> Int]
  BY <1>1, <1>2, ModulusHalves
<1>9. QueueOK(current_time', timer_queue', time', due')
  BY <1>1, <1>2, <1>6, <1>7, <1>8 DEF QueueOK
<1>10. LinkedByState'
  BY <1>1 DEF TimerInv, LinkedByState
<1>11. PhaseTrue'
  <2>1. ASSUME NEW c \in CYC, Live(c)'
        PROVE  time'[c] = Word(current_time' + due'[c]) /\ due'[c] <= ABSTIM_DIFF_MIN + 1
    <3>1. Live(c) /\ c \in TMEB
      BY <1>1, <2>1, Events DEF Live
    <3>2. time[c] = Word(current_time + due[c]) /\ due[c] <= ABSTIM_DIFF_MIN + 1 /\ due[c] \in Int
      BY <1>2, <3>1 DEF TimerInv, PhaseTrue
    <3> QED BY <1>4, <3>1, <3>2, ModulusHalves
  <2> QED BY <2>1 DEF PhaseTrue
<1>12. NotYet'
  BY <1>1, <1>6 DEF NotYet
<1> QED BY <1>3, <1>9, <1>10, <1>11, <1>12 DEF TimerInv

\* The event that the timer handler starts has come, less than a tick ago.
LEMMA HeadDue ==
    ASSUME TimerInv, HeadReached
    PROVE  /\ timer_queue # <<>> /\ Head(timer_queue) \in TMEB
           /\ Contains(timer_queue, Head(timer_queue))
           /\ due[Head(timer_queue)] \in Near /\ due[Head(timer_queue)] <= 0
           /\ time[Head(timer_queue)] = Word(current_time + due[Head(timer_queue)])
<1> DEFINE h == Head(timer_queue)
<1>1. timer_queue # <<>> /\ AbstimReached(current_time, time[h])
  BY DEF HeadReached
<1>2. h \in TMEB /\ Contains(timer_queue, h)
  BY <1>1, TailQueue DEF TimerInv
<1> DEFINE d == due[h]
<1> HIDE DEF h
<1>3. d \in Near /\ time[h] = Word(current_time + d)
  BY <1>2 DEF TimerInv, QueueOK
<1> HIDE DEF d
<1>4. d <= 0
  BY <1>1, <1>3, TimeIsInt, ReachedBySign
<1> QED BY <1>1, <1>2, <1>3, <1>4 DEF h, d

LEMMA FireInv ==
    ASSUME TimerInv, Fire
    PROVE  TimerInv'
<1> DEFINE h == Head(timer_queue)
<1>1. /\ at = "loop" /\ HeadReached /\ current_time' = current_time
      /\ \/ h \in TSK /\ FireWait(h)
         \/ h \in CYC /\ FireCyc(h)
         \/ h \in ALM /\ FireAlm(h)
  BY DEF Fire
<1>2. /\ timer_queue # <<>> /\ h \in TMEB /\ Contains(timer_queue, h)
      /\ due[h] \in Near /\ due[h] <= 0 /\ time[h] = Word(current_time + due[h])
  BY <1>1, HeadDue
<1> HIDE DEF h
<1>3. CASE h \in TSK /\ FireWait(h)
  <2>1. /\ timer_queue' = Tail(timer_queue) /\ at' = "wait"
        /\ UNCHANGED <<time, cyc, alm, due>>
    BY <1>3 DEF FireWait
  <2>2. Typed' /\ (at = "none" <=> at' = "none")
    BY <1>1, <2>1 DEF TimerInv, Typed, At
  <2>3. h \notin CYC /\ h \notin ALM
    BY <1>3, Events
  <2> QED BY <1>1, <1>2, <2>1, <2>2, <2>3, AfterDeletion DEF h
<1>4. CASE h \in ALM /\ FireAlm(h)
  <2>1. /\ timer_queue' = Tail(timer_queue) /\ at' = "handler"
        /\ alm' = [alm EXCEPT ![h].sta = FALSE]
        /\ UNCHANGED <<time, cyc, due>>
    BY <1>4 DEF FireAlm
  <2>2. /\ Typed' /\ (at = "none" <=> at' = "none") /\ ~alm'[h].sta
        /\ \A a \in ALM : a # h => alm'[a] = alm[a]
    BY <1>1, <1>4, <2>1 DEF TimerInv, Typed, At
  <2>3. h \notin CYC
    BY <1>4, Events
  <2> QED BY <1>1, <1>2, <2>1, <2>2, <2>3, AfterDeletion DEF h
<1>5. CASE h \in CYC /\ FireCyc(h)
  <2> DEFINE x == due[h]
             tim == cyc[h].tim
             n == NextDue(x, tim)
             w == CycNextTime(time[h], tim)
  <2>1. /\ InsertAbs(Tail(timer_queue), h, w, n) /\ at' = "handler"
        /\ UNCHANGED <<cyc, alm>>
    BY <1>5 DEF FireCyc
  <2>2. Typed' /\ (at = "none" <=> at' = "none")
    BY <1>1, <2>1 DEF TimerInv, Typed, At
  <2>3. tim \in 1..ABSTIM_DIFF_MIN
    <3>1. tim \in Cyctim
      BY <1>5 DEF TimerInv, Typed
    <3> QED BY <3>1, TimerAssumption
  <2>4. cyc'[h].sta /\ cyc'[h].hdr
    BY <1>2, <1>5, <2>1 DEF TimerInv, LinkedByState
  <2>5. n \in 1..tim /\ w = Word(current_time + n)
    <3> HIDE DEF x, tim
    <3>1. x \in Near /\ x <= 0 /\ time[h] = Word(current_time + x)
      BY <1>2 DEF x
    <3> QED BY <2>3, <3>1, TimeIsInt, NextTimeWhenDue
  <2>6. h \notin ALM
    BY <1>5, Events
  <2> HIDE DEF n, w, tim
  <2>7. n \in Near /\ n > 0
    BY <2>3, <2>5, ModulusHalves DEF Near
  <2>8. Word(w) = Word(current_time + n)
    <3>1. current_time + n \in Int
      BY <2>7, TimeIsInt, ModulusHalves DEF Near
    <3> QED BY <2>5, <3>1, WordRange, WordSmall
  <2> QED BY <1>1, <1>2, <2>1, <2>2, <2>4, <2>6, <2>7, <2>8, AfterInsertion DEF h
<1> QED BY <1>1, <1>3, <1>4, <1>5

LEMMA HandlerReturnInv ==
    ASSUME TimerInv, HandlerReturn
    PROVE  TimerInv'
<1>1. /\ at # "none" /\ at' = "loop"
      /\ UNCHANGED <<current_time, timer_queue, time, cyc, alm, due>>
  BY DEF HandlerReturn
<1>2. Typed' /\ NotYet'
  BY <1>1 DEF TimerInv, Typed, At, NotYet
<1>3. /\ \A c \in CYC : cyc[c].sta => cyc[c].hdr
      /\ \A a \in ALM : alm[a].sta => alm[a].hdr
  BY DEF TimerInv, LinkedByState
<1> QED BY <1>1, <1>2, <1>3, AfterOther

\* The loop stops at an event that is yet to come, and so are all behind it.
LEMMA TickEndInv ==
    ASSUME TimerInv, TickEnd
    PROVE  TimerInv'
<1>1. /\ ~HeadReached /\ at' = "none"
      /\ UNCHANGED <<current_time, timer_queue, time, cyc, alm, due>>
  BY DEF TickEnd
<1>2. /\ timer_queue \in Seq(TMEB) /\ Ordered(timer_queue, due) /\ due \in [TMEB -> Int]
      /\ \A e \in TMEB : Contains(timer_queue, e) =>
            due[e] \in Near /\ time[e] = Word(current_time + due[e])
  BY DEF TimerInv, QueueOK
<1>3. ASSUME NEW e \in TMEB, Contains(timer_queue, e)
      PROVE  due[e] > 0
  <2>1. DOMAIN timer_queue = 1..Len(timer_queue) /\ Len(timer_queue) \in Nat
    BY <1>2, LenProperties
  <2>2. PICK i \in 1..Len(timer_queue) : timer_queue[i] = e
    BY <1>3 DEF Contains
  <2>3. timer_queue # <<>> /\ Head(timer_queue) = timer_queue[1]
    BY <1>2, <2>1, <2>2, HeadTailProperties, EmptySeq
  <2> DEFINE h == Head(timer_queue)
  <2>4. h \in TMEB /\ Contains(timer_queue, h)
    BY <2>3, TailQueue DEF TimerInv
  <2>5. due[h] <= due[e]
    <3>1. CASE i = 1
      BY <1>2, <2>2, <2>3, <3>1
    <3>2. CASE i # 1
      <4>1. 1 \in DOMAIN timer_queue /\ i \in DOMAIN timer_queue /\ 1 < i
        BY <2>1, <3>2
      <4> QED BY <1>2, <2>2, <2>3, <4>1 DEF Ordered
    <3> QED BY <3>1, <3>2
  <2> DEFINE d == due[h]
  <2>6. ~AbstimReached(current_time, time[h]) /\ d \in Near /\ time[h] = Word(current_time + d)
    BY <1>1, <1>2, <2>3, <2>4 DEF HeadReached
  <2> HIDE DEF h
  <2>7. d \in Int /\ due[e] \in Int
    BY <1>2, <2>4
  <2>8. ~(d <= 0)
    <3> HIDE DEF d
    <3> QED BY <2>6, TimeIsInt, ReachedBySign
  <2> QED BY <2>5, <2>7, <2>8
<1>4. Typed' /\ NotYet'
  BY <1>1, <1>3 DEF TimerInv, Typed, At, NotYet
<1>5. /\ \A c \in CYC : cyc[c].sta => cyc[c].hdr
      /\ \A a \in ALM : alm[a].sta => alm[a].hdr
  BY DEF TimerInv, LinkedByState
<1> QED BY <1>1, <1>4, <1>5, AfterOther

LEMMA NextInv ==
    ASSUME ShortIntervals, RestartedInTime, TimerInv, [TimerNext]_tvars
    PROVE  TimerInv'
<1>1. ASSUME TimeCall PROVE TimerInv'
  <2>1. ASSUME NEW t \in TSK, TimerDelete(t) PROVE TimerInv'
    BY <2>1, TimerDeleteInv
  <2>2. ASSUME NEW t \in TSK, NEW tmout \in Tmo, TimerInsert(t, tmout) PROVE TimerInv'
    BY <2>2, TimerInsertInv
  <2>3. ASSUME NEW c \in CYC, DelCyc(c) \/ StaCyc(c) \/ StpCyc(c) PROVE TimerInv'
    BY <2>3, DelCycInv, StaCycInv, StpCycInv
  <2>4. ASSUME NEW c \in CYC, NEW phs \in BOOLEAN, NEW sta \in BOOLEAN, NEW tim \in Cyctim,
               NEW cycphs \in Cycphs, CreCyc(c, phs, sta, tim, cycphs)
        PROVE  TimerInv'
    BY <2>4, CreCycInv
  <2>5. ASSUME NEW a \in ALM, CreAlm(a) \/ DelAlm(a) \/ StpAlm(a) PROVE TimerInv'
    BY <2>5, CreAlmInv, DelAlmInv, StpAlmInv
  <2>6. ASSUME NEW a \in ALM, NEW almtim \in Almtim, StaAlm(a, almtim) PROVE TimerInv'
    BY <2>6, StaAlmInv
  <2> QED BY <1>1, <2>1, <2>2, <2>3, <2>4, <2>5, <2>6 DEF TimeCall
<1>2. CASE Tick
  BY <1>2, TickInv
<1>3. CASE Fire
  BY <1>3, FireInv
<1>4. CASE HandlerReturn
  BY <1>4, HandlerReturnInv
<1>5. CASE TickEnd
  BY <1>5, TickEndInv
<1>6. CASE UNCHANGED tvars
  <2>1. UNCHANGED <<current_time, timer_queue, time, cyc, alm, at, due>>
    BY <1>6 DEF tvars
  <2>2. Typed' /\ NotYet'
    BY <2>1 DEF TimerInv, Typed, NotYet
  <2>3. /\ \A c \in CYC : cyc[c].sta => cyc[c].hdr
        /\ \A a \in ALM : alm[a].sta => alm[a].hdr
    BY DEF TimerInv, LinkedByState
  <2> QED BY <2>1, <2>2, <2>3, AfterOther
<1> QED BY <1>1, <1>2, <1>3, <1>4, <1>5, <1>6 DEF TimerNext

(***************************************************************************)
(* The theorems, for intervals that end within half of the words and       *)
(* behaviours that start a stopped handler with TA_PHS again within half   *)
(* of the words.                                                           *)
(***************************************************************************)
TimerRuns == TimerSpec /\ []RestartedInTime

\* The invariant: the words of the events in the queue are those of their
\* true times, which lie within half of the words of the current time.
THEOREM TimerInvariance ==
    ASSUME ShortIntervals
    PROVE  TimerRuns => []TimerInv
<1>1. TimerInit => TimerInv
  BY InitInv
<1>2. TimerInv /\ RestartedInTime /\ [TimerNext]_tvars => TimerInv'
  BY NextInv
<1> QED BY <1>1, <1>2, PTL DEF TimerSpec, TimerRuns

\* timer.c: the queue holds the events of waits, started cyclic handlers and
\* set alarms, each once, in the order of their true times, wherever the
\* words wrap around.
THEOREM QueueExact ==
    ASSUME ShortIntervals
    PROVE  TimerRuns => []TimerQueueExact
<1>1. TimerInv => TimerQueueExact
  BY DEF TimerInv, QueueOK, LinkedByState, Ordered, TimerQueueExact
<1> QED BY <1>1, TimerInvariance, PTL

\* knl_timer_handler: when it is done no event is left whose time has come.
THEOREM NothingOverdue ==
    ASSUME ShortIntervals
    PROVE  TimerRuns => []NoOverdueEvent
<1>1. ASSUME TimerInv PROVE NoOverdueEvent
  <2>1. ASSUME at = "none", NEW i \in DOMAIN timer_queue
        PROVE  due[timer_queue[i]] > 0
    <3>1. timer_queue[i] \in TMEB /\ Contains(timer_queue, timer_queue[i])
      BY <1>1, LenProperties, ElementOfSeq DEF TimerInv, QueueOK, Contains
    <3> QED BY <1>1, <2>1, <3>1 DEF TimerInv, NotYet
  <2> QED BY <2>1 DEF NoOverdueEvent
<1> QED BY <1>1, TimerInvariance, PTL

\* knl_cyc_next_time: a cyclic handler is started at its first time plus a
\* multiple of its interval, after late ticks, stops and starts too.
THEOREM PhasesKept ==
    ASSUME ShortIntervals
    PROVE  TimerRuns => []PhaseKept
<1>1. TimerInv => PhaseKept
  BY DEF TimerInv, PhaseTrue, PhaseKept
<1> QED BY <1>1, TimerInvariance, PTL

\* knl_timer_handler: no event is started before its time, counted from the
\* next tick on.
THEOREM NothingEarly ==
    ASSUME ShortIntervals
    PROVE  TimerRuns => NoEarlyEvent
<1>1. ASSUME TimerInv, [TimerNext]_tvars
      PROVE  [at = "loop" /\ at' # "none" => due[Head(timer_queue)] <= 0]_tvars
  <2>1. ASSUME at = "loop", at' # "none", TimerNext
        PROVE  due[Head(timer_queue)] <= 0
    <3>1. ~TimeCall
      BY <2>1 DEF TimeCall, TimerDelete, TimerInsert, DelCyc, StaCyc, StpCyc, CreCyc,
                  CreAlm, DelAlm, StpAlm, StaAlm, CanCall
    <3>2. ~Tick /\ ~HandlerReturn /\ ~TickEnd
      BY <2>1 DEF Tick, HandlerReturn, TickEnd
    <3>3. HeadReached
      BY <2>1, <3>1, <3>2 DEF TimerNext, Fire
    <3> QED BY <1>1, <3>3, HeadDue
  <2> QED BY <1>1, <2>1
<1> QED BY <1>1, TimerInvariance, PTL DEF TimerRuns, TimerSpec, NoEarlyEvent
=============================================================================
