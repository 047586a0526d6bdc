--------------------------- MODULE SequenceFacts ---------------------------
(***************************************************************************)
(* What the operations on queues do, for sequences over any set: the       *)
(* entries they keep, add and remove, and the order they leave.            *)
(***************************************************************************)
EXTENDS Integers, SequencesExt, SequenceTheorems, WellFoundedInduction, TLAPS

\* A set of naturals has a least element.
LEMMA LeastElement ==
    ASSUME NEW S \in SUBSET Nat, S # {}
    PROVE  \E x \in S : \A y \in S : x <= y
<1>1. PICK x \in S : \A y \in S : ~(<<y, x>> \in OpToRel(<, Nat))
  BY WFMin, NatLessThanWellFounded
<1>2. ASSUME NEW y \in S PROVE ~(y < x)
  <2>1. <<y, x>> \in Nat \X Nat /\ <<y, x>>[1] = y /\ <<y, x>>[2] = x
    OBVIOUS
  <2>2. ASSUME y < x PROVE <<y, x>> \in OpToRel(<, Nat)
    BY <2>1, <2>2, Zenon DEF OpToRel
  <2> QED BY <1>1, <2>2
<1> QED BY <1>2

\* Removing the i-th entry leaves the others, in their order.
LEMMA RemoveAtIndex ==
    ASSUME NEW S, NEW s \in Seq(S), NEW i \in 1..Len(s)
    PROVE  /\ RemoveAt(s, i) \in Seq(S)
           /\ Len(RemoveAt(s, i)) = Len(s) - 1
           /\ \A j \in 1..Len(s)-1 : RemoveAt(s, i)[j] = IF j < i THEN s[j] ELSE s[j+1]
<1> DEFINE front == SubSeq(s, 1, i-1)
           back == SubSeq(s, i+1, Len(s))
<1>1. /\ Len(s) \in Nat
      /\ \A j \in 1..Len(s) : s[j] \in S
  BY LenProperties, ElementOfSeq
<1>2. /\ front \in Seq(S)
      /\ Len(front) = i - 1
      /\ \A j \in 1..i-1 : front[j] = s[j]
  <2>1. \A j \in 1..i-1 : s[j] \in S
    BY <1>1
  <2>2. i - 1 \in Int /\ 1 \in Int
    BY <1>1
  <2> HIDE DEF front
  <2>3. /\ front \in Seq(S)
        /\ Len(front) = IF 1 <= i-1 THEN (i-1)-1+1 ELSE 0
        /\ \A j \in 1..(i-1)-1+1 : front[j] = s[1+j-1]
    BY <2>1, <2>2, SubSeqProperties DEF front
  <2> QED BY <2>3, <1>1
<1>3. /\ back \in Seq(S)
      /\ Len(back) = Len(s) - i
      /\ \A j \in 1..Len(s)-i : back[j] = s[i+j]
  <2>1. \A j \in i+1..Len(s) : s[j] \in S
    BY <1>1
  <2>2. i + 1 \in Int /\ Len(s) \in Int
    BY <1>1
  <2> HIDE DEF back
  <2>3. /\ back \in Seq(S)
        /\ Len(back) = IF i+1 <= Len(s) THEN Len(s)-(i+1)+1 ELSE 0
        /\ \A j \in 1..Len(s)-(i+1)+1 : back[j] = s[(i+1)+j-1]
    BY <2>1, <2>2, SubSeqProperties DEF back
  <2> QED BY <2>3, <1>1
<1>4. RemoveAt(s, i) = front \o back
  BY DEF RemoveAt
<1> HIDE DEF front, back
<1>5. /\ front \o back \in Seq(S)
      /\ Len(front \o back) = Len(front) + Len(back)
      /\ \A j \in 1..Len(front)+Len(back) :
            (front \o back)[j] = IF j <= Len(front) THEN front[j] ELSE back[j - Len(front)]
  BY <1>2, <1>3, ConcatProperties
<1>6. ASSUME NEW j \in 1..Len(s)-1
      PROVE  (front \o back)[j] = IF j < i THEN s[j] ELSE s[j+1]
  <2>1. /\ j \in 1..Len(front)+Len(back)
        /\ i \in Nat /\ j \in Nat
    BY <1>1, <1>2, <1>3
  <2>2. (front \o back)[j] = IF j <= i-1 THEN front[j] ELSE back[j - (i-1)]
    BY <2>1, <1>2, <1>5
  <2>3. CASE j < i
    <3>1. front[j] = s[j] /\ j <= i-1
      BY <2>1, <2>3, <1>2
    <3> QED BY <3>1, <2>2, <2>3
  <2>4. CASE ~(j < i)
    <3>1. j - (i-1) \in 1..Len(s)-i /\ ~(j <= i-1) /\ i + (j - (i-1)) = j+1
      BY <2>1, <2>4, <1>1
    <3>2. back[j - (i-1)] = s[i + (j - (i-1))]
      BY <3>1, <1>3
    <3> QED BY <3>1, <3>2, <2>2, <2>4
  <2> QED BY <2>3, <2>4
<1> QED BY <1>1, <1>2, <1>3, <1>4, <1>5, <1>6

\* Inserting an element at position i moves the ones from there on.
Inserted(s, i, e, r) ==
    /\ Len(r) = Len(s) + 1
    /\ \A j \in 1..i-1 : r[j] = s[j]
    /\ r[i] = e
    /\ \A j \in i+1..Len(s)+1 : r[j] = s[j-1]

LEMMA InsertAtIndex ==
    ASSUME NEW S, NEW s \in Seq(S), NEW i \in 1..Len(s)+1, NEW e \in S
    PROVE  /\ InsertAt(s, i, e) \in Seq(S)
           /\ Inserted(s, i, e, InsertAt(s, i, e))
<1> DEFINE front == SubSeq(s, 1, i-1)
           back == SubSeq(s, i, Len(s))
           left == front \o <<e>>
<1>1. /\ Len(s) \in Nat
      /\ \A j \in 1..Len(s) : s[j] \in S
  BY LenProperties, ElementOfSeq
<1>2. /\ front \in Seq(S)
      /\ Len(front) = i - 1
      /\ \A j \in 1..i-1 : front[j] = s[j]
  <2>1. \A j \in 1..i-1 : s[j] \in S
    BY <1>1
  <2>2. i - 1 \in Int /\ 1 \in Int
    BY <1>1
  <2> HIDE DEF front
  <2>3. /\ front \in Seq(S)
        /\ Len(front) = IF 1 <= i-1 THEN (i-1)-1+1 ELSE 0
        /\ \A j \in 1..(i-1)-1+1 : front[j] = s[1+j-1]
    BY <2>1, <2>2, SubSeqProperties DEF front
  <2> QED BY <2>3, <1>1
<1>3. /\ back \in Seq(S)
      /\ Len(back) = Len(s) - i + 1
      /\ \A j \in 1..Len(s)-i+1 : back[j] = s[i+j-1]
  <2>1. \A j \in i..Len(s) : s[j] \in S
    BY <1>1
  <2>2. i \in Int /\ Len(s) \in Int
    BY <1>1
  <2> HIDE DEF back
  <2>3. /\ back \in Seq(S)
        /\ Len(back) = IF i <= Len(s) THEN Len(s)-i+1 ELSE 0
        /\ \A j \in 1..Len(s)-i+1 : back[j] = s[i+j-1]
    BY <2>1, <2>2, SubSeqProperties DEF back
  <2> QED BY <2>3, <1>1
<1>4. InsertAt(s, i, e) = left \o back
  BY DEF InsertAt
<1> HIDE DEF front, back
<1>5. /\ left \in Seq(S)
      /\ Len(left) = i
      /\ \A j \in 1..i : left[j] = IF j < i THEN s[j] ELSE e
  <2>1. <<e>> \in Seq(S) /\ Len(<<e>>) = 1 /\ <<e>>[1] = e
    OBVIOUS
  <2>2. /\ left \in Seq(S)
        /\ Len(left) = (i - 1) + 1
        /\ \A j \in 1..(i-1)+1 :
             left[j] = IF j <= i-1 THEN front[j] ELSE <<e>>[j - (i-1)]
    BY <1>2, <2>1, ConcatProperties
  <2> QED BY <1>1, <1>2, <2>1, <2>2
<1> HIDE DEF left
<1>6. /\ left \o back \in Seq(S)
      /\ Len(left \o back) = i + (Len(s) - i + 1)
      /\ \A j \in 1..i + (Len(s) - i + 1) :
            (left \o back)[j] = IF j <= i THEN left[j] ELSE back[j - i]
  <2>1. /\ left \o back \in Seq(S)
        /\ Len(left \o back) = Len(left) + Len(back)
        /\ \A j \in 1..Len(left) + Len(back) :
             (left \o back)[j] = IF j <= Len(left) THEN left[j] ELSE back[j - Len(left)]
    BY <1>3, <1>5, ConcatProperties
  <2> QED BY <2>1, <1>3, <1>5
<1>7. ASSUME NEW j \in 1..Len(s)+1
      PROVE  (left \o back)[j] = IF j < i THEN s[j] ELSE IF j = i THEN e ELSE s[j-1]
  <2>1. i \in Nat /\ j \in Nat /\ j \in 1..i + (Len(s) - i + 1)
    BY <1>1
  <2>2. CASE j <= i
    BY <2>1, <2>2, <1>5, <1>6
  <2>3. CASE ~(j <= i)
    <3>1. j - i \in 1..Len(s)-i+1 /\ i + (j - i) - 1 = j - 1
      BY <2>1, <2>3, <1>1
    <3> QED BY <3>1, <2>1, <2>3, <1>3, <1>6
  <2> QED BY <2>2, <2>3
<1>8. /\ \A j \in 1..i-1 : (left \o back)[j] = s[j]
      /\ (left \o back)[i] = e
      /\ \A j \in i+1..Len(s)+1 : (left \o back)[j] = s[j-1]
  <2>1. /\ \A j \in 1..i-1 : j \in 1..Len(s)+1 /\ j < i
        /\ i \in 1..Len(s)+1 /\ ~(i < i)
        /\ \A j \in i+1..Len(s)+1 : j \in 1..Len(s)+1 /\ ~(j < i) /\ j # i
    BY <1>1
  <2> QED BY <1>7, <2>1
<1> QED BY <1>1, <1>4, <1>6, <1>8 DEF Inserted

(***************************************************************************)
(* Queues without duplicates, in the order that a function d gives them.   *)
(***************************************************************************)
Ordered(s, d) == \A i, j \in DOMAIN s : i < j => d[s[i]] <= d[s[j]]

\* The operations that keep the entries of s in place: entry j of r is entry
\* f[j] of s, with f increasing.
LEMMA Subsequence ==
    ASSUME NEW S, NEW s \in Seq(S), NEW r \in Seq(S), NEW d,
           NEW f \in [1..Len(r) -> 1..Len(s)],
           \A j \in 1..Len(r) : r[j] = s[f[j]],
           \A j, k \in 1..Len(r) : j < k => f[j] < f[k],
           IsInjective(s)
    PROVE  IsInjective(r) /\ (Ordered(s, d) => Ordered(r, d))
<1>1. /\ DOMAIN s = 1..Len(s) /\ DOMAIN r = 1..Len(r)
      /\ Len(s) \in Nat /\ Len(r) \in Nat
  BY LenProperties
<1>2. ASSUME NEW j \in 1..Len(r), NEW k \in 1..Len(r), r[j] = r[k]
      PROVE  j = k
  <2>1. s[f[j]] = s[f[k]] /\ f[j] \in DOMAIN s /\ f[k] \in DOMAIN s
    BY <1>1, <1>2
  <2>2. f[j] = f[k]
    BY <2>1 DEF IsInjective
  <2>3. ~(j < k) /\ ~(k < j)
    BY <2>2, <1>1
  <2> QED BY <2>3, <1>1
<1>3. ASSUME Ordered(s, d), NEW j \in 1..Len(r), NEW k \in 1..Len(r), j < k
      PROVE  d[r[j]] <= d[r[k]]
  <2>1. f[j] < f[k] /\ f[j] \in DOMAIN s /\ f[k] \in DOMAIN s
    BY <1>1, <1>3
  <2> QED BY <2>1, <1>3 DEF Ordered
<1> QED BY <1>1, <1>2, <1>3 DEF IsInjective, Ordered

LEMMA RemoveEntry ==
    ASSUME NEW S, NEW s \in Seq(S), NEW d, NEW e, IsInjective(s), Contains(s, e),
           NEW r, r = RemoveAt(s, CHOOSE i \in DOMAIN s : s[i] = e)
    PROVE  /\ r \in Seq(S) /\ Len(r) = Len(s) - 1
           /\ IsInjective(r) /\ (Ordered(s, d) => Ordered(r, d))
           /\ \A u : Contains(r, u) <=> Contains(s, u) /\ u # e
<1> DEFINE n == Len(s)
<1>1. DOMAIN s = 1..n /\ n \in Nat
  BY LenProperties
<1>2. PICK i \in 1..n : s[i] = e /\ r = RemoveAt(s, i)
  <2>1. \E i \in DOMAIN s : s[i] = e
    BY <1>1 DEF Contains
  <2> QED BY <1>1, <2>1
<1>3. /\ r \in Seq(S) /\ Len(r) = n - 1
      /\ \A j \in 1..n-1 : r[j] = IF j < i THEN s[j] ELSE s[j+1]
  BY <1>2, RemoveAtIndex
<1> DEFINE f == [j \in 1..n-1 |-> IF j < i THEN j ELSE j + 1]
<1>4. /\ f \in [1..Len(r) -> 1..Len(s)]
      /\ \A j \in 1..Len(r) : r[j] = s[f[j]]
      /\ \A j, k \in 1..Len(r) : j < k => f[j] < f[k]
  <2>1. i \in Nat /\ \A j \in 1..n-1 : f[j] = IF j < i THEN j ELSE j + 1
    BY <1>1
  <2>2. \A j \in 1..n-1 : f[j] \in 1..n
    BY <1>1, <2>1
  <2>3. \A j \in 1..n-1 : r[j] = s[f[j]]
    BY <1>3, <2>1
  <2>4. \A j, k \in 1..n-1 : j < k => f[j] < f[k]
    BY <1>1, <2>1
  <2>5. f \in [1..n-1 -> 1..n]
    BY <2>2
  <2> HIDE DEF f
  <2> QED BY <1>3, <2>3, <2>4, <2>5
<1>5. IsInjective(r) /\ (Ordered(s, d) => Ordered(r, d))
  <2> HIDE DEF f
  <2> QED BY <1>3, <1>4, Subsequence
<1>6. ASSUME NEW u
      PROVE  Contains(r, u) <=> Contains(s, u) /\ u # e
  <2>1. ASSUME NEW j \in 1..n-1, r[j] = u
        PROVE  Contains(s, u) /\ u # e
    <3>1. f[j] \in 1..n /\ s[f[j]] = u
      BY <1>3, <1>4, <2>1
    <3>2. f[j] # i
      BY <1>1
    <3> HIDE DEF f
    <3> QED BY <3>1, <3>2, <1>1, <1>2 DEF Contains, IsInjective
  <2>2. ASSUME NEW j \in 1..n, s[j] = u, u # e
        PROVE  Contains(r, u)
    <3>1. CASE j < i
      <4>1. j \in 1..n-1 /\ r[j] = u
        BY <1>1, <1>3, <2>2, <3>1
      <4> QED BY <4>1, <1>3 DEF Contains
    <3>2. CASE ~(j < i)
      <4>1. j # i
        BY <1>2, <2>2
      <4>2. j-1 \in 1..n-1 /\ ~(j-1 < i) /\ (j-1)+1 = j
        BY <1>1, <3>2, <4>1
      <4>3. r[j-1] = u
        BY <1>3, <4>2, <2>2
      <4> QED BY <4>2, <4>3, <1>3 DEF Contains
    <3> QED BY <3>1, <3>2
  <2> QED BY <2>1, <2>2, <1>3 DEF Contains
<1> QED BY <1>3, <1>5, <1>6

LEMMA TailEntries ==
    ASSUME NEW S, NEW s \in Seq(S), NEW d, s # <<>>, IsInjective(s)
    PROVE  /\ Tail(s) \in Seq(S) /\ Head(s) = s[1] /\ Head(s) \in S /\ Contains(s, Head(s))
           /\ IsInjective(Tail(s)) /\ (Ordered(s, d) => Ordered(Tail(s), d))
           /\ \A u : Contains(Tail(s), u) <=> Contains(s, u) /\ u # Head(s)
<1> DEFINE n == Len(s)
           r == Tail(s)
<1>1. DOMAIN s = 1..n /\ n \in Nat \ {0}
  BY LenProperties, EmptySeq
<1>2. /\ r \in Seq(S) /\ Len(r) = n - 1
      /\ \A j \in 1..n-1 : r[j] = s[j+1]
      /\ Head(s) = s[1] /\ Head(s) \in S
  BY HeadTailProperties, <1>1
<1> HIDE DEF r
<1> DEFINE f == [j \in 1..n-1 |-> j + 1]
<1>3. /\ f \in [1..Len(r) -> 1..Len(s)]
      /\ \A j \in 1..Len(r) : r[j] = s[f[j]]
      /\ \A j, k \in 1..Len(r) : j < k => f[j] < f[k]
  BY <1>1, <1>2
<1>4. IsInjective(r) /\ (Ordered(s, d) => Ordered(r, d))
  <2> HIDE DEF f
  <2> QED BY <1>2, <1>3, Subsequence
<1>5. ASSUME NEW u
      PROVE  Contains(r, u) <=> Contains(s, u) /\ u # Head(s)
  <2>1. ASSUME NEW j \in 1..n-1, r[j] = u
        PROVE  Contains(s, u) /\ u # Head(s)
    <3>1. j + 1 \in 1..n /\ s[j+1] = u /\ j + 1 # 1 /\ 1 \in 1..n
      BY <1>1, <1>2, <2>1
    <3> QED BY <3>1, <1>1, <1>2 DEF Contains, IsInjective
  <2>2. ASSUME NEW j \in 1..n, s[j] = u, u # Head(s)
        PROVE  Contains(r, u)
    <3>1. j # 1
      BY <1>2, <2>2
    <3>2. j-1 \in 1..n-1 /\ (j-1)+1 = j
      BY <1>1, <3>1
    <3>3. r[j-1] = u
      BY <1>2, <3>2, <2>2
    <3> QED BY <3>2, <3>3, <1>2 DEF Contains
  <2> QED BY <2>1, <2>2, <1>2 DEF Contains
<1>6. Contains(s, Head(s))
  BY <1>1, <1>2 DEF Contains
<1> QED BY <1>2, <1>4, <1>5, <1>6 DEF r

\* The place of e among the entries of s: after those that are not later,
\* before those that are not earlier.
PlaceOf(s, i, e, d) ==
    /\ \A j \in 1..i-1 : d[s[j]] <= d[e]
    /\ \A j \in i..Len(s) : d[e] <= d[s[j]]

LEMMA InsertEntry ==
    ASSUME NEW S, NEW s \in Seq(S), NEW e \in S, NEW d \in [S -> Int],
           IsInjective(s), ~Contains(s, e), NEW i \in 1..Len(s)+1,
           NEW r, r = InsertAt(s, i, e)
    PROVE  /\ r \in Seq(S) /\ Len(r) = Len(s) + 1 /\ IsInjective(r)
           /\ \A u : Contains(r, u) <=> Contains(s, u) \/ u = e
           /\ Ordered(s, d) /\ PlaceOf(s, i, e, d) => Ordered(r, d)
<1> DEFINE n == Len(s)
<1>1. DOMAIN s = 1..n /\ n \in Nat /\ i \in Nat /\ \A j \in 1..n : s[j] \in S
  BY LenProperties, ElementOfSeq
<1>2. /\ r \in Seq(S) /\ Len(r) = n + 1
      /\ \A j \in 1..n+1 : r[j] = IF j < i THEN s[j] ELSE IF j = i THEN e ELSE s[j-1]
  <2>1. r \in Seq(S) /\ Inserted(s, i, e, r)
    BY InsertAtIndex
  <2>2. /\ Len(r) = n + 1
        /\ \A j \in 1..i-1 : r[j] = s[j]
        /\ r[i] = e
        /\ \A j \in i+1..n+1 : r[j] = s[j-1]
    BY <2>1 DEF Inserted
  <2> QED BY <1>1, <2>1, <2>2
<1>3. DOMAIN r = 1..n+1
  BY <1>2, LenProperties
<1>4. \A j \in 1..n : s[j] # e
  BY DEF Contains
<1>5. ASSUME NEW j \in 1..n+1, NEW k \in 1..n+1, r[j] = r[k]
      PROVE  j = k
  <2> DEFINE g(l) == IF l < i THEN l ELSE l - 1
  <2>1. \A l \in 1..n+1 : l # i => g(l) \in 1..n /\ r[l] = s[g(l)]
    BY <1>1, <1>2
  <2>2. r[i] = e
    BY <1>2, <1>1
  <2>3. CASE j = i \/ k = i
    BY <2>1, <2>2, <2>3, <1>4, <1>5
  <2>4. CASE j # i /\ k # i
    <3>1. g(j) \in 1..n /\ g(k) \in 1..n /\ s[g(j)] = s[g(k)]
      BY <2>1, <2>4, <1>5
    <3>2. g(j) = g(k)
      BY <3>1, <1>1 DEF IsInjective
    <3> QED BY <3>2, <2>4, <1>1
  <2> QED BY <2>3, <2>4
<1>6. ASSUME NEW u
      PROVE  Contains(r, u) <=> Contains(s, u) \/ u = e
  <2>1. ASSUME NEW j \in 1..n+1, r[j] = u
        PROVE  Contains(s, u) \/ u = e
    <3>1. CASE j < i
      <4>1. j \in 1..n /\ s[j] = u
        BY <1>1, <1>2, <2>1, <3>1
      <4> QED BY <4>1 DEF Contains
    <3>2. CASE j = i
      BY <1>2, <2>1, <3>2
    <3>3. CASE j > i
      <4>1. j - 1 \in 1..n /\ s[j-1] = u
        BY <1>1, <1>2, <2>1, <3>3
      <4> QED BY <4>1 DEF Contains
    <3> QED BY <3>1, <3>2, <3>3, <1>1
  <2>2. ASSUME NEW j \in 1..n, s[j] = u
        PROVE  Contains(r, u)
    <3>1. CASE j < i
      <4>1. j \in 1..n+1 /\ r[j] = u
        BY <1>1, <1>2, <2>2, <3>1
      <4> QED BY <4>1, <1>2 DEF Contains
    <3>2. CASE ~(j < i)
      <4>1. j+1 \in 1..n+1 /\ ~(j+1 < i) /\ j+1 # i /\ (j+1)-1 = j
        BY <1>1, <3>2
      <4>2. r[j+1] = u
        BY <4>1, <1>2, <2>2
      <4> QED BY <4>1, <4>2, <1>2 DEF Contains
    <3> QED BY <3>1, <3>2
  <2>3. Contains(r, e)
    BY <1>1, <1>2 DEF Contains
  <2> QED BY <2>1, <2>2, <2>3, <1>2 DEF Contains
<1>7. ASSUME Ordered(s, d), PlaceOf(s, i, e, d),
             NEW j \in 1..n+1, NEW k \in 1..n+1, j < k
      PROVE  d[r[j]] <= d[r[k]]
  <2>0. /\ \A l \in 1..i-1 : d[s[l]] <= d[e]
        /\ \A l \in i..n : d[e] <= d[s[l]]
    BY <1>7 DEF PlaceOf
  <2>1. \A l \in 1..n : d[s[l]] \in Int
    BY <1>1
  <2>2. \A l, m \in 1..n : l < m => d[s[l]] <= d[s[m]]
    BY <1>1, <1>7 DEF Ordered
  <2>3. CASE k < i
    <3>1. j \in 1..n /\ k \in 1..n /\ r[j] = s[j] /\ r[k] = s[k]
      BY <1>1, <1>2, <1>7, <2>3
    <3> QED BY <3>1, <2>2, <1>7
  <2>4. CASE k = i
    <3>1. j \in 1..i-1 /\ r[j] = s[j] /\ r[k] = e
      BY <1>1, <1>2, <1>7, <2>4
    <3> QED BY <3>1, <2>0
  <2>5. CASE j < i /\ k > i
    <3>0. j \in Nat /\ k \in Nat
      BY <1>1
    <3>1. j \in 1..i-1 /\ k-1 \in i..n /\ ~(k < i) /\ k # i
      BY <3>0, <1>1, <2>5
    <3>3. r[j] = s[j] /\ r[k] = s[k-1]
      BY <3>1, <1>2, <2>5
    <3>2. j \in 1..n /\ k-1 \in 1..n /\ j < k-1
      BY <3>1, <1>1
    <3> QED BY <3>1, <3>2, <3>3, <2>2
  <2>6. CASE j = i
    <3>1. k-1 \in i..n /\ r[j] = e /\ r[k] = s[k-1]
      BY <1>1, <1>2, <1>7, <2>6
    <3> QED BY <3>1, <2>0
  <2>7. CASE j > i
    <3>1. j-1 \in 1..n /\ k-1 \in 1..n /\ j-1 < k-1 /\ r[j] = s[j-1] /\ r[k] = s[k-1]
      BY <1>1, <1>2, <1>7, <2>7
    <3> QED BY <3>1, <2>2
  <2> QED BY <2>3, <2>4, <2>5, <2>6, <2>7, <1>1
<1> QED BY <1>2, <1>3, <1>5, <1>6, <1>7 DEF IsInjective, Ordered

\* Appending is inserting at the end.
LEMMA AppendEntry ==
    ASSUME NEW S, NEW s \in Seq(S), NEW e \in S, NEW d \in [S -> Int],
           IsInjective(s), ~Contains(s, e)
    PROVE  /\ Append(s, e) \in Seq(S) /\ Len(Append(s, e)) = Len(s) + 1
           /\ IsInjective(Append(s, e))
           /\ \A u : Contains(Append(s, e), u) <=> Contains(s, u) \/ u = e
           /\ (Ordered(s, d) /\ \A j \in 1..Len(s) : d[s[j]] <= d[e])
                => Ordered(Append(s, e), d)
<1> DEFINE n == Len(s)
           a == Append(s, e)
           b == InsertAt(s, n + 1, e)
<1>1. n \in Nat /\ n + 1 \in 1..n+1
  BY LenProperties
<1>2. /\ a \in Seq(S) /\ Len(a) = n + 1
      /\ \A j \in 1..n : a[j] = s[j]
      /\ a[n+1] = e
  BY AppendProperties
<1>3. /\ b \in Seq(S) /\ Len(b) = n + 1
      /\ \A j \in 1..n : b[j] = s[j]
      /\ b[n+1] = e
  <2> DEFINE i == n + 1
  <2>1. i \in 1..Len(s)+1 /\ i - 1 = n
    BY <1>1
  <2> HIDE DEF i
  <2>2. /\ InsertAt(s, i, e) \in Seq(S)
        /\ Inserted(s, i, e, InsertAt(s, i, e))
    BY <2>1, InsertAtIndex
  <2> QED BY <2>1, <2>2 DEF Inserted, i
<1> HIDE DEF a, b
<1>4. \A j \in 1..n+1 : a[j] = b[j]
  <2>1. ASSUME NEW j \in 1..n+1 PROVE j \in 1..n \/ j = n+1
    BY <1>1
  <2> QED BY <1>2, <1>3, <2>1
<1>5. a = b
  BY <1>2, <1>3, <1>4, SeqEqual
<1>6. /\ b \in Seq(S) /\ Len(b) = n + 1 /\ IsInjective(b)
      /\ \A u : Contains(b, u) <=> Contains(s, u) \/ u = e
      /\ Ordered(s, d) /\ PlaceOf(s, n + 1, e, d) => Ordered(b, d)
  <2> DEFINE i == n + 1
  <2>1. i \in 1..Len(s)+1 /\ b = InsertAt(s, i, e)
    BY <1>1 DEF b
  <2> HIDE DEF i
  <2>2. /\ b \in Seq(S) /\ Len(b) = Len(s) + 1 /\ IsInjective(b)
        /\ \A u : Contains(b, u) <=> Contains(s, u) \/ u = e
        /\ Ordered(s, d) /\ PlaceOf(s, i, e, d) => Ordered(b, d)
    BY <2>1, InsertEntry
  <2> QED BY <2>2 DEF i
<1>7. (\A j \in 1..n : d[s[j]] <= d[e]) => PlaceOf(s, n + 1, e, d)
  BY <1>1 DEF PlaceOf
<1> QED BY <1>5, <1>6, <1>7 DEF a

\* An entry that becomes the first one.
LEMMA PushEntry ==
    ASSUME NEW S, NEW s \in Seq(S), NEW e \in S, IsInjective(s), ~Contains(s, e)
    PROVE  /\ <<e>> \o s \in Seq(S) /\ <<e>> \o s # <<>> /\ Len(<<e>> \o s) = Len(s) + 1
           /\ IsInjective(<<e>> \o s)
           /\ \A u : Contains(<<e>> \o s, u) <=> Contains(s, u) \/ u = e
<1> DEFINE n == Len(s)
           r == <<e>> \o s
<1>1. /\ n \in Nat /\ DOMAIN s = 1..n
      /\ \A j \in 1..n : s[j] \in S
  BY LenProperties, ElementOfSeq
<1>2. /\ r \in Seq(S) /\ Len(r) = n + 1 /\ r[1] = e
      /\ \A j \in 2..n+1 : r[j] = s[j-1]
  <2>1. <<e>> \in Seq(S) /\ Len(<<e>>) = 1 /\ <<e>>[1] = e
    OBVIOUS
  <2>2. /\ r \in Seq(S) /\ Len(r) = Len(<<e>>) + n
        /\ \A j \in 1..Len(<<e>>)+n : r[j] = IF j <= Len(<<e>>) THEN <<e>>[j] ELSE s[j-Len(<<e>>)]
    BY <2>1, ConcatProperties
  <2> HIDE DEF r
  <2> QED BY <2>1, <2>2, <1>1
<1>3. DOMAIN r = 1..n+1
  BY <1>2, LenProperties
<1> HIDE DEF r
<1>4. r # <<>>
  BY <1>1, <1>2
<1>5. \A j \in 1..n : s[j] # e
  BY <1>1 DEF Contains
<1>6. ASSUME NEW a \in 1..n+1, NEW b \in 1..n+1, r[a] = r[b]
      PROVE  a = b
  <2>1. CASE a = 1 \/ b = 1
    <3>1. \A j \in 2..n+1 : r[j] # e
      <4> TAKE j \in 2..n+1
      <4>1. j-1 \in 1..n /\ r[j] = s[j-1]
        BY <1>1, <1>2
      <4> QED BY <4>1, <1>5
    <3> QED BY <2>1, <3>1, <1>1, <1>2, <1>6
  <2>2. CASE a # 1 /\ b # 1
    <3>1. a-1 \in 1..n /\ b-1 \in 1..n /\ s[a-1] = s[b-1]
      BY <2>2, <1>1, <1>2, <1>6
    <3>2. a-1 = b-1
      BY <3>1, <1>1 DEF IsInjective
    <3> QED BY <3>2
  <2> QED BY <2>1, <2>2
<1>7. ASSUME NEW u
      PROVE  Contains(r, u) <=> Contains(s, u) \/ u = e
  <2>1. ASSUME Contains(r, u) PROVE Contains(s, u) \/ u = e
    <3>1. PICK j \in 1..n+1 : r[j] = u
      BY <2>1, <1>3 DEF Contains
    <3>2. CASE j = 1
      BY <3>1, <3>2, <1>2
    <3>3. CASE j # 1
      <4>1. j-1 \in 1..n /\ s[j-1] = u
        BY <3>1, <3>3, <1>1, <1>2
      <4> QED BY <4>1, <1>1 DEF Contains
    <3> QED BY <3>2, <3>3
  <2>2. ASSUME Contains(s, u) PROVE Contains(r, u)
    <3>1. PICK j \in 1..n : s[j] = u
      BY <2>2, <1>1 DEF Contains
    <3>2. j+1 \in 1..n+1 /\ r[j+1] = u
      BY <3>1, <1>1, <1>2
    <3> QED BY <3>2, <1>3 DEF Contains
  <2>3. Contains(r, e)
    BY <1>1, <1>2, <1>3 DEF Contains
  <2> QED BY <2>1, <2>2, <2>3
<1>8. IsInjective(r)
  BY <1>3, <1>6 DEF IsInjective
<1> QED BY <1>2, <1>4, <1>7, <1>8 DEF r
=============================================================================
