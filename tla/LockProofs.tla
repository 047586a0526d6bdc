----------------------------- MODULE LockProofs -----------------------------
(***************************************************************************)
(* The fast lock and the fast multi-lock of the library exclude, lose no   *)
(* unlock and open again, for any number of tasks, priorities and locks:   *)
(* whatever is preempted, suspended, released or terminated between the    *)
(* counter or the bit and the object of the kernel.                        *)
(*                                                                         *)
(* The kernel's part is SyncProofs.  A call on a task leaves every wait    *)
(* as it is; a wait begins in tk_wai_sem and tk_wai_flg, and ends in       *)
(* tk_sig_sem and tk_set_flg, when it is released or times out, or with    *)
(* its task.                                                               *)
(***************************************************************************)
EXTENDS FastLock, FastMLock, SyncProofs, FiniteSetTheorems

\* The hooks of the waits are those of semaphores and event flags.
LockHooks ==
    /\ \A k, t : ChgPriHook(k, t) = LockChgPri(k, t)
    /\ \A k, o, wspec : RelWaiHook(k, o, wspec) = LockRelWai(k, o, wspec)

(***************************************************************************)
(* The queue of a semaphore with at most one task that can be served.      *)
(***************************************************************************)
\* Nobody gets units when the first task needs more than there are.
LEMMA ServeNobody ==
    ASSUME NEW k, NEW s, k.que[s] \in Seq(Task), "CNT" \notin k.sematr[s],
           k.que[s] = <<>> \/ k.semcnt[s] < k.winfo[k.que[s][1]]
    PROVE  Serve(k, s) = k
<1> DEFINE q == k.que[s]
           N == Len(q)
           A == Looking(k)
           B == Done(k)
           w == [n \in 0..N |-> IF n = 0 THEN A ELSE B]
<1>1. N \in Nat /\ N \in 0..N /\ A.k = k /\ B.k = k
  <2>1. N \in Nat /\ N \in 0..N
    OBVIOUS
  <2> QED BY <2>1, Found
<1>2. /\ \A n \in 1..N : ServeNext(B, s, q[n]) = B
      /\ N > 0 => ServeNext(A, s, q[1]) = B
  <2>1. N > 0 => k.semcnt[s] < k.winfo[q[1]]
    OBVIOUS
  <2> HIDE DEF q, N
  <2> QED BY <2>1, ServeNextIs DEF q
<1> HIDE DEF A, B
<1>3. ServeSteps(w, k, s, q)
  <2>1. ASSUME NEW n \in 0..N
        PROVE  w[n] = IF n = 0 THEN A ELSE ServeNext(w[n-1], s, q[n])
    <3>1. CASE n = 0
      BY <3>1
    <3>2. CASE n = 1
      BY <1>2, <3>2
    <3>3. CASE n \notin {0, 1}
      <4>1. n - 1 \in 0..N /\ n - 1 # 0 /\ n \in 1..N
        BY <1>1, <3>3
      <4> QED BY <1>2, <3>3, <4>1
    <3> QED BY <3>1, <3>2, <3>3
  <2>2. w = [n \in 0..N |-> w[n]]
    OBVIOUS
  <2> HIDE DEF w
  <2> QED BY <2>1, <2>2 DEF ServeSteps, A, Looking
<1> HIDE DEF w
<1>4. Serve(k, s) = w[N].k
  BY <1>3, ServeIs
<1> QED BY <1>1, <1>4 DEF w

\* The first task gets what it needs, and the second needs more than is left.
LEMMA ServeFirst ==
    ASSUME NEW k, NEW s, k.que[s] \in Seq(Task), k.que[s] # <<>>, "CNT" \notin k.sematr[s],
           ~(k.semcnt[s] < k.winfo[k.que[s][1]]),
           NEW k1, k1 = Given(k, s, k.que[s][1]),
           k1.sematr[s] = k.sematr[s],
           Len(k.que[s]) > 1 => k1.semcnt[s] < k1.winfo[k.que[s][2]]
    PROVE  Serve(k, s) = k1
<1> DEFINE q == k.que[s]
           N == Len(q)
           A == Looking(k)
           B == Looking(k1)
           C == Done(k1)
           w == [n \in 0..N |-> IF n = 0 THEN A ELSE IF n = 1 THEN B ELSE C]
<1>1. N \in Nat /\ N \in 0..N /\ N # 0 /\ B.k = k1 /\ C.k = k1
  <2>1. N \in Nat /\ N \in 0..N /\ N # 0
    OBVIOUS
  <2> QED BY <2>1, Found
<1>2. ServeNext(A, s, q[1]) = B
  BY ServeNextIs
<1>3. N > 1 => ServeNext(B, s, q[2]) = C
  BY ServeNextIs
<1>4. \A n \in 1..N : ServeNext(C, s, q[n]) = C
  BY ServeNextIs
<1> HIDE DEF A, B, C
<1>5. ServeSteps(w, k, s, q)
  <2>1. ASSUME NEW n \in 0..N
        PROVE  w[n] = IF n = 0 THEN A ELSE ServeNext(w[n-1], s, q[n])
    <3>1. CASE n = 0
      BY <3>1
    <3>2. CASE n = 1
      BY <1>2, <3>2
    <3>3. CASE n = 2
      BY <1>1, <1>3, <3>3
    <3>4. CASE n \notin {0, 1, 2}
      <4>1. n - 1 \in 0..N /\ n - 1 \notin {0, 1} /\ n \in 1..N
        BY <1>1, <3>4
      <4> QED BY <1>4, <3>4, <4>1
    <3> QED BY <3>1, <3>2, <3>3, <3>4
  <2>2. w = [n \in 0..N |-> w[n]]
    OBVIOUS
  <2> HIDE DEF w
  <2> QED BY <2>1, <2>2 DEF ServeSteps, A, Looking
<1> HIDE DEF w
<1>6. Serve(k, s) = w[N].k
  BY <1>5, ServeIs
<1> QED BY <1>1, <1>6 DEF w

(***************************************************************************)
(* The queue of an event flag with at most one task that can be served.    *)
(***************************************************************************)
\* Nobody is released when no condition is met.
LEMMA ServeFlgNobody ==
    ASSUME NEW k, NEW f, NEW q, q = k.que[f], q \in Seq(Task),
           \A i \in 1..Len(q) : ~Cond(k.flgptn[f], k.winfo[q[i]])
    PROVE  ServeFlg(k, f) = k
<1> DEFINE N == Len(q)
           A == Looking(k)
           w == [n \in 0..N |-> A]
<1>1. N \in Nat /\ N \in 0..N /\ A.k = k
  <2>1. N \in Nat /\ N \in 0..N
    OBVIOUS
  <2> QED BY <2>1, Found
<1>2. \A n \in 1..N : ServeFlgNext(A, f, q[n]) = A
  BY ServeFlgNextIs
<1> HIDE DEF A
<1>3. ServeFlgSteps(w, k, f, q)
  <2>1. ASSUME NEW n \in 0..N
        PROVE  w[n] = IF n = 0 THEN A ELSE ServeFlgNext(w[n-1], f, q[n])
    <3>1. CASE n = 0
      BY <3>1
    <3>2. CASE n # 0
      <4>1. n - 1 \in 0..N /\ n \in 1..N
        BY <1>1, <3>2
      <4> QED BY <1>2, <3>2, <4>1
    <3> QED BY <3>1, <3>2
  <2>2. w = [n \in 0..N |-> w[n]]
    OBVIOUS
  <2> HIDE DEF w
  <2> QED BY <2>1, <2>2 DEF ServeFlgSteps, A, Looking
<1> HIDE DEF w
<1>4. ServeFlg(k, f) = w[N].k
  BY <1>3, ServeFlgIs
<1> QED BY <1>1, <1>4 DEF w

\* The i-th task is released, and the conditions of the others are not met,
\* of those before it with the whole pattern, behind it with what is left.
LEMMA ServeFlgOne ==
    ASSUME NEW k, NEW f, NEW q, q = k.que[f], q \in Seq(Task), NEW i \in 1..Len(q),
           \A j \in 1..Len(q) : j < i => ~Cond(k.flgptn[f], k.winfo[q[j]]),
           Cond(k.flgptn[f], k.winfo[q[i]]),
           NEW k1, k1 = Freed(k, f, q[i]),
           \A j \in 1..Len(q) : j > i => ~Cond(k1.flgptn[f], k1.winfo[q[j]])
    PROVE  ServeFlg(k, f) = k1
<1> DEFINE N == Len(q)
           A == Looking(k)
           B == IF Left(k, f, q[i]) = {} THEN Done(k1) ELSE Looking(k1)
           w == [n \in 0..N |-> IF n < i THEN A ELSE B]
<1>1. N \in Nat /\ N \in 0..N /\ ~(N < i) /\ i # 0 /\ B.k = k1
  <2>1. N \in Nat /\ N \in 0..N /\ ~(N < i) /\ i # 0
    OBVIOUS
  <2> QED BY <2>1, Found
<1>2. \A n \in 1..N : n < i => ServeFlgNext(A, f, q[n]) = A
  BY ServeFlgNextIs
<1>3. ServeFlgNext(A, f, q[i]) = B
  BY ServeFlgNextIs DEF AfterFreed
<1>4. \A n \in 1..N : n > i => ServeFlgNext(B, f, q[n]) = B
  <2>1. ASSUME NEW n \in 1..N, n > i
        PROVE  /\ ServeFlgNext(Done(k1), f, q[n]) = Done(k1)
               /\ ServeFlgNext(Looking(k1), f, q[n]) = Looking(k1)
    <3>1. ~Cond(k1.flgptn[f], k1.winfo[q[n]])
      BY <2>1
    <3> QED BY ONLY <3>1, ServeFlgNextIs
  <2> QED BY <2>1
<1> HIDE DEF A, B
<1>5. ServeFlgSteps(w, k, f, q)
  <2>1. ASSUME NEW n \in 0..N
        PROVE  w[n] = IF n = 0 THEN A ELSE ServeFlgNext(w[n-1], f, q[n])
    <3>1. CASE n = 0
      BY <3>1
    <3>2. CASE n # 0
      <4>1. n - 1 \in 0..N /\ n \in 1..N /\ w[n-1] = IF n - 1 < i THEN A ELSE B
        BY <1>1, <3>2
      <4>2. n < i => n - 1 < i
        BY <1>1
      <4>3. n > i => ~(n - 1 < i) /\ ~(n < i)
        BY <1>1
      <4>4. n = i => n - 1 < i /\ ~(n < i)
        BY <1>1
      <4>5. n < i \/ n = i \/ n > i
        BY <1>1
      <4> QED BY <1>2, <1>3, <1>4, <3>2, <4>1, <4>2, <4>3, <4>4, <4>5
    <3> QED BY <3>1, <3>2
  <2>2. w = [n \in 0..N |-> w[n]]
    OBVIOUS
  <2> HIDE DEF w
  <2> QED BY <2>1, <2>2 DEF ServeFlgSteps, A, Looking
<1> HIDE DEF w
<1>6. ServeFlg(k, f) = w[N].k
  BY <1>5, ServeFlgIs
<1> QED BY <1>1, <1>6 DEF w

(***************************************************************************)
(* Counting tasks by where they are in the library.                        *)
(***************************************************************************)
TasksAt(p, P) == {t \in Task : p[t] \in P}

LEMMA TasksAtFinite ==
    ASSUME NEW p, NEW P
    PROVE  /\ IsFiniteSet(TasksAt(p, P)) /\ Cardinality(TasksAt(p, P)) \in Nat
           /\ Cardinality(TasksAt(p, P)) = 0 <=> \A t \in Task : p[t] \notin P
<1>1. IsFiniteSet(Task)
  BY NumTaskAssumption, FS_Interval DEF Task
<1>2. TasksAt(p, P) \in SUBSET Task
  BY DEF TasksAt
<1> SUFFICES ASSUME NEW S, S = TasksAt(p, P)
             PROVE  /\ IsFiniteSet(S) /\ Cardinality(S) \in Nat
                    /\ Cardinality(S) = 0 <=> S = {}
  BY DEF TasksAt
<1> QED BY <1>1, <1>2, FS_Subset, FS_CardinalityType, FS_EmptySet

NumAt(p, P) == Cardinality(TasksAt(p, P))

\* Task t has gone to x.
Moves(p, q, P, t, x) ==
    /\ NumAt(p, P) \in Nat /\ NumAt(q, P) \in Nat
    /\ x \in P /\ p[t] \in P => NumAt(q, P) = NumAt(p, P) /\ NumAt(p, P) # 0
    /\ x \in P /\ p[t] \notin P => NumAt(q, P) = NumAt(p, P) + 1
    /\ x \notin P /\ p[t] \in P => NumAt(q, P) = NumAt(p, P) - 1 /\ NumAt(p, P) # 0
    /\ x \notin P /\ p[t] \notin P => NumAt(q, P) = NumAt(p, P)

LEMMA CountMoves ==
    ASSUME NEW p, DOMAIN p = Task, NEW P, NEW t \in Task, NEW x, NEW q, q = [p EXCEPT ![t] = x]
    PROVE  Moves(p, q, P, t, x)
<1>1. NumAt(p, P) \in Nat /\ NumAt(q, P) \in Nat
  BY TasksAtFinite DEF NumAt
<1> SUFFICES ASSUME NEW S, S = TasksAt(p, P), NEW T, T = TasksAt(q, P)
             PROVE  /\ x \in P /\ p[t] \in P => Cardinality(T) = Cardinality(S) /\ Cardinality(S) # 0
                    /\ x \in P /\ p[t] \notin P => Cardinality(T) = Cardinality(S) + 1
                    /\ x \notin P /\ p[t] \in P
                       => Cardinality(T) = Cardinality(S) - 1 /\ Cardinality(S) # 0
                    /\ x \notin P /\ p[t] \notin P => Cardinality(T) = Cardinality(S)
  BY <1>1 DEF NumAt, Moves
<1>2. /\ IsFiniteSet(S)
      /\ Cardinality(S) = 0 <=> \A u \in Task : p[u] \notin P
  BY TasksAtFinite
<1>3. t \in S <=> p[t] \in P
  BY DEF TasksAt
<1>4. CASE x \in P
  <2>1. T = S \cup {t}
    BY <1>4 DEF TasksAt
  <2>2. Cardinality(T) = IF t \in S THEN Cardinality(S) ELSE Cardinality(S) + 1
    BY <1>2, <2>1, FS_AddElement
  <2> QED BY <1>2, <1>3, <1>4, <2>2
<1>5. CASE x \notin P
  <2>1. T = S \ {t}
    BY <1>5 DEF TasksAt
  <2>2. /\ IsFiniteSet(S \ {t})
        /\ Cardinality(S \ {t}) = IF t \in S THEN Cardinality(S) - 1 ELSE Cardinality(S)
    BY ONLY <1>2, FS_RemoveElement
  <2> QED BY <1>2, <1>3, <1>5, <2>1, <2>2
<1> QED BY <1>4, <1>5

(***************************************************************************)
(* The fast lock: the tasks w that wait, the units n of the semaphore, the *)
(* places p of the tasks and the counter c agree.                          *)
(***************************************************************************)
\* The tasks that cnt counts.
Entering == {"wai", "in"}

Holder(w, p, t) == p[t] = "sig" \/ (p[t] = "in" /\ t \notin w)

Agree(w, n, p, c) ==
    /\ p \in [Task -> PC] /\ c \in Int /\ n \in {0, 1} /\ w \subseteq Task
    /\ \A t \in w : p[t] = "in" /\ n = 0
    /\ c + 1 >= NumAt(p, Entering)
    /\ n = 1 => c >= 0
    /\ \A t \in Task : p[t] = "sig" => c >= 0
    /\ \A t, u \in Task : Holder(w, p, t) /\ Holder(w, p, u) => t = u
    /\ \A t \in Task : Holder(w, p, t) => n = 0
    /\ (\A t \in Task : ~Holder(w, p, t)) => IF c = -1 THEN n = 0 ELSE n = 1
    /\ w # {} => \E t \in Task : Holder(w, p, t)

LEMMA PCs ==
    /\ "out" \in PC /\ "wai" \in PC /\ "in" \in PC /\ "sig" \in PC
    /\ \A x : x \in Entering <=> x = "wai" \/ x = "in"
  BY DEF PC, Entering

LEMMA EnteringCounted ==
    ASSUME NEW p
    PROVE  /\ NumAt(p, Entering) \in Nat
           /\ NumAt(p, Entering) = 0 <=> \A u \in Task : p[u] \notin Entering
  BY TasksAtFinite DEF NumAt

\* The counter is incremented.
LEMMA AgreeLock ==
    ASSUME NEW w, NEW n, NEW p, NEW c, Agree(w, n, p, c), NEW t \in Task, p[t] = "out",
           NEW q, q = [p EXCEPT ![t] = IF c + 1 > 0 THEN "wai" ELSE "in"]
    PROVE  Agree(w, n, q, c + 1)
<1> DEFINE x == IF c + 1 > 0 THEN "wai" ELSE "in"
           m == NumAt(p, Entering)
<1>1. /\ p \in [Task -> PC] /\ c \in Int /\ n \in {0, 1} /\ w \subseteq Task
      /\ \A u \in w : p[u] = "in" /\ n = 0
      /\ c + 1 >= m
      /\ n = 1 => c >= 0
      /\ \A u \in Task : p[u] = "sig" => c >= 0
      /\ \A u, v \in Task : Holder(w, p, u) /\ Holder(w, p, v) => u = v
      /\ \A u \in Task : Holder(w, p, u) => n = 0
      /\ (\A u \in Task : ~Holder(w, p, u)) => IF c = -1 THEN n = 0 ELSE n = 1
      /\ w # {} => \E u \in Task : Holder(w, p, u)
  BY DEF Agree
<1>0. m \in Nat
  BY EnteringCounted
<1>2. NumAt(q, Entering) = m + 1
  <2>1. x \in Entering /\ p[t] \notin Entering
    BY PCs
  <2>2. Moves(p, q, Entering, t, x)
    <3>1. DOMAIN p = Task /\ q = [p EXCEPT ![t] = x] /\ t \in Task
      BY <1>1
    <3> HIDE DEF x
    <3> QED BY ONLY <3>1, CountMoves
  <2> QED BY <2>1, <2>2 DEF Moves
<1>3. /\ q \in [Task -> PC] /\ q[t] = x /\ x \in Entering
      /\ \A u \in Task \ {t} : q[u] = p[u]
  BY <1>0, <1>1, PCs
<1>4. t \notin w /\ ~Holder(w, p, t) /\ \A u \in Task \ {t} : Holder(w, q, u) <=> Holder(w, p, u)
  BY <1>0, <1>1, <1>3 DEF Holder
<1>5. CASE c = -1
  <2>1. x = "in" /\ c + 1 = 0
    BY <1>5
  <2> HIDE DEF x, m
  <2>2. m = 0 /\ n = 0
    BY <1>0, <1>1, <1>5
  <2>3. \A u \in Task : p[u] \notin Entering
    BY <2>2, EnteringCounted DEF m
  <2>4. \A u \in Task : ~Holder(w, p, u)
    BY <1>0, <1>1, <1>5, <2>3, PCs DEF Holder
  <2>5. Holder(w, q, t)
    BY <1>3, <1>4, <2>1 DEF Holder
  <2>6. w = {}
    BY <1>0, <1>1, <2>4
  <2>7. c + 1 = 0 /\ c + 1 \in Int /\ (c + 1) + 1 >= m + 1 /\ c + 1 >= 0
    BY <1>5, <2>2
  <2>8. \A u \in Task : Holder(w, q, u) <=> u = t
    BY <1>4, <2>4, <2>5
  <2>9. w \subseteq Task /\ q \in [Task -> PC]
    BY <1>1, <1>3
  <2> QED BY <1>2, <2>2, <2>5, <2>6, <2>7, <2>8, <2>9 DEF Agree
<1>6. CASE c # -1
  <2>1. c >= 0 /\ c + 1 > 0
    BY <1>0, <1>1, <1>6
  <2>2. x = "wai"
    BY <2>1
  <2> HIDE DEF x, m
  <2>3. ~Holder(w, q, t)
    BY <1>3, <2>2 DEF Holder
  <2>4. \A u \in Task : Holder(w, q, u) <=> Holder(w, p, u)
    BY <1>4, <2>3
  <2>5. \A u \in w : q[u] = "in" /\ n = 0
    BY <1>0, <1>1, <1>3, <1>4
  <2>6. (\A u \in Task : ~Holder(w, q, u)) => n = 1
    BY <1>0, <1>1, <1>6, <2>4
  <2>7. c + 1 # -1 /\ c + 1 \in Int /\ (c + 1) + 1 >= m + 1 /\ c + 1 >= 0
    BY <1>0, <1>1, <2>1
  <2> QED BY <1>0, <1>1, <1>2, <1>3, <2>4, <2>5, <2>6, <2>7 DEF Agree
<1> QED BY <1>5, <1>6

\* The unit of the semaphore is taken, or the task begins to wait.
LEMMA AgreeWait ==
    ASSUME NEW w, NEW n, NEW p, NEW c, Agree(w, n, p, c), NEW t \in Task, p[t] = "wai",
           NEW q, q = [p EXCEPT ![t] = "in"]
    PROVE  /\ n = 1 => w = {} /\ Agree(w, 0, q, c)
           /\ n = 0 => Agree(w \cup {t}, 0, q, c)
<1> DEFINE m == NumAt(p, Entering)
<1>1. /\ p \in [Task -> PC] /\ c \in Int /\ n \in {0, 1} /\ w \subseteq Task
      /\ \A u \in w : p[u] = "in" /\ n = 0
      /\ c + 1 >= m
      /\ \A u \in Task : p[u] = "sig" => c >= 0
      /\ \A u, v \in Task : Holder(w, p, u) /\ Holder(w, p, v) => u = v
      /\ \A u \in Task : Holder(w, p, u) => n = 0
      /\ (\A u \in Task : ~Holder(w, p, u)) => IF c = -1 THEN n = 0 ELSE n = 1
      /\ w # {} => \E u \in Task : Holder(w, p, u)
  BY DEF Agree
<1>0. m \in Nat
  BY EnteringCounted
<1>2. NumAt(q, Entering) = m /\ m # 0
  <2>1. "in" \in Entering /\ p[t] \in Entering
    BY PCs
  <2>2. Moves(p, q, Entering, t, "in")
    BY <1>1, CountMoves
  <2> QED BY <2>1, <2>2 DEF Moves
<1> HIDE DEF m
<1>3. /\ q \in [Task -> PC] /\ q[t] = "in" /\ t \notin w
      /\ \A u \in Task \ {t} : q[u] = p[u]
  BY <1>0, <1>1, PCs
<1>4. c >= 0
  BY <1>0, <1>1, <1>2
<1>5. ASSUME n = 1 PROVE w = {} /\ Agree(w, 0, q, c)
  <2>1. w = {} /\ \A u \in Task : ~Holder(w, p, u)
    BY <1>0, <1>1, <1>5
  <2>2. \A u \in Task : Holder(w, q, u) <=> u = t
    BY <1>3, <2>1 DEF Holder
  <2>3. \A u \in Task : q[u] # "sig"
    BY <1>3, <2>1 DEF Holder
  <2> QED BY <1>0, <1>1, <1>2, <1>3, <1>4, <2>1, <2>2, <2>3 DEF Agree
<1>6. ASSUME n = 0 PROVE Agree(w \cup {t}, 0, q, c)
  <2> DEFINE x == w \cup {t}
  <2>1. PICK u \in Task : Holder(w, p, u)
    BY <1>0, <1>1, <1>4, <1>6
  <2>2. \A v \in Task : Holder(x, q, v) <=> Holder(w, p, v)
    BY <1>3 DEF Holder
  <2>3. \A v \in x : q[v] = "in"
    BY <1>0, <1>1, <1>3
  <2>4. x \subseteq Task
    BY <1>0, <1>1
  <2> HIDE DEF x
  <2> QED BY <1>0, <1>1, <1>2, <1>3, <1>4, <1>6, <2>1, <2>2, <2>3, <2>4 DEF Agree, x
<1> QED BY <1>5, <1>6

\* The counter is decremented.
LEMMA AgreeUnlock ==
    ASSUME NEW w, NEW n, NEW p, NEW c, Agree(w, n, p, c), NEW t \in Task, p[t] = "in", t \notin w,
           NEW q, q = [p EXCEPT ![t] = IF c > 0 THEN "sig" ELSE "out"]
    PROVE  Agree(w, n, q, c - 1)
<1> DEFINE x == IF c > 0 THEN "sig" ELSE "out"
           m == NumAt(p, Entering)
<1>1. /\ p \in [Task -> PC] /\ c \in Int /\ n \in {0, 1} /\ w \subseteq Task
      /\ \A u \in w : p[u] = "in" /\ n = 0
      /\ c + 1 >= m
      /\ \A u, v \in Task : Holder(w, p, u) /\ Holder(w, p, v) => u = v
      /\ \A u \in Task : Holder(w, p, u) => n = 0
  BY DEF Agree
<1>0. m \in Nat
  BY EnteringCounted
<1>2. NumAt(q, Entering) = m - 1 /\ m # 0
  <2>1. x \notin Entering /\ p[t] \in Entering
    BY PCs
  <2>2. Moves(p, q, Entering, t, x)
    <3>1. DOMAIN p = Task /\ q = [p EXCEPT ![t] = x] /\ t \in Task
      BY <1>1
    <3> HIDE DEF x
    <3> QED BY ONLY <3>1, CountMoves
  <2> QED BY <2>1, <2>2 DEF Moves
<1>3. /\ q \in [Task -> PC] /\ q[t] = x
      /\ \A u \in Task \ {t} : q[u] = p[u]
  BY <1>0, <1>1, PCs
<1>4. n = 0 /\ \A u \in Task : Holder(w, p, u) <=> u = t
  <2>1. Holder(w, p, t)
    BY DEF Holder
  <2> QED BY <1>0, <1>1, <2>1
<1>5. \A u \in Task \ {t} : ~Holder(w, q, u) /\ q[u] # "sig"
  BY <1>3, <1>4 DEF Holder
<1>6. CASE c > 0
  <2>1. x = "sig"
    BY <1>6
  <2> HIDE DEF x, m
  <2>2. Holder(w, q, t)
    BY <1>3, <2>1 DEF Holder
  <2>3. c - 1 \in Int /\ c - 1 >= 0 /\ (c - 1) + 1 >= m - 1
    BY <1>0, <1>1, <1>6
  <2>4. \A u \in w : q[u] = "in" /\ n = 0
    BY <1>0, <1>1, <1>3, <1>4
  <2> QED BY <1>0, <1>1, <1>2, <1>3, <1>4, <1>5, <2>2, <2>3, <2>4 DEF Agree
<1>7. CASE ~(c > 0)
  <2>1. x = "out"
    BY <1>7
  <2> HIDE DEF x, m
  <2>2. m = 1 /\ c = 0
    BY <1>0, <1>1, <1>2, <1>7
  <2>3. ~Holder(w, q, t) /\ q[t] # "sig"
    BY <1>3, <2>1 DEF Holder
  <2>4. \A u \in Task : q[u] \notin Entering
    <3>1. NumAt(q, Entering) = 0
      BY <1>2, <2>2
    <3> QED BY ONLY <3>1, EnteringCounted
  <2>5. w = {}
    <3>1. SUFFICES ASSUME NEW u \in w PROVE FALSE
      OBVIOUS
    <3>2. u \in Task /\ p[u] = "in" /\ u # t
      BY <1>1
    <3>3. q[u] = "in"
      BY <1>3, <3>2
    <3> QED BY <2>4, <3>2, <3>3, PCs
  <2>6. c - 1 = -1 /\ c - 1 \in Int /\ (c - 1) + 1 >= m - 1 /\ NumAt(q, Entering) = m - 1
    BY <1>2, <2>2
  <2>7. \A u \in Task : ~Holder(w, q, u) /\ q[u] # "sig"
    BY <1>5, <2>3
  <2>8. n = 0 /\ n \in {0, 1} /\ q \in [Task -> PC]
    BY <1>1, <1>3, <1>4
  <2> SUFFICES ASSUME NEW d, d = c - 1 PROVE Agree(w, n, q, d)
    OBVIOUS
  <2>9. d = -1 /\ d \in Int /\ d + 1 >= NumAt(q, Entering)
    BY <2>6
  <2> QED BY ONLY <2>5, <2>7, <2>8, <2>9 DEF Agree
<1> QED BY <1>6, <1>7

\* The semaphore is signalled: u is let in, or the unit stays.
LEMMA AgreeSignal ==
    ASSUME NEW w, NEW n, NEW p, NEW c, Agree(w, n, p, c), NEW t \in Task, p[t] = "sig",
           NEW q, q = [p EXCEPT ![t] = "out"]
    PROVE  /\ n = 0
           /\ w = {} => Agree(w, 1, q, c)
           /\ \A u \in w : Agree(w \ {u}, 0, q, c)
<1> DEFINE m == NumAt(p, Entering)
<1>1. /\ p \in [Task -> PC] /\ c \in Int /\ n \in {0, 1} /\ w \subseteq Task
      /\ \A u \in w : p[u] = "in" /\ n = 0
      /\ c + 1 >= m /\ c >= 0
      /\ \A u, v \in Task : Holder(w, p, u) /\ Holder(w, p, v) => u = v
      /\ \A u \in Task : Holder(w, p, u) => n = 0
  BY DEF Agree
<1>0. m \in Nat
  BY EnteringCounted
<1>2. NumAt(q, Entering) = m
  <2>1. "out" \notin Entering /\ p[t] \notin Entering
    BY PCs
  <2>2. Moves(p, q, Entering, t, "out")
    BY <1>1, CountMoves
  <2> QED BY <2>1, <2>2 DEF Moves
<1> HIDE DEF m
<1>3. /\ q \in [Task -> PC] /\ q[t] = "out"
      /\ \A u \in Task \ {t} : q[u] = p[u]
  BY <1>0, <1>1, PCs
<1>4. n = 0 /\ \A u \in Task : Holder(w, p, u) <=> u = t
  <2>1. Holder(w, p, t)
    BY DEF Holder
  <2> QED BY <1>0, <1>1, <2>1
<1>5. \A u \in Task : ~Holder(w, q, u) /\ q[u] # "sig"
  BY <1>3, <1>4 DEF Holder
<1>6. c # -1 /\ c + 1 >= NumAt(q, Entering)
  BY <1>0, <1>1, <1>2
<1>7. ASSUME w = {} PROVE Agree(w, 1, q, c)
  BY <1>0, <1>1, <1>3, <1>5, <1>6, <1>7 DEF Agree
<1>8. ASSUME NEW u \in w PROVE Agree(w \ {u}, 0, q, c)
  <2> DEFINE x == w \ {u}
  <2>1. q[u] = "in" /\ u \notin x /\ x \subseteq Task /\ u \in Task
    BY <1>0, <1>1, <1>3
  <2>2. \A v \in Task : Holder(x, q, v) <=> v = u
    BY <1>5, <2>1 DEF Holder
  <2>3. \A v \in x : q[v] = "in"
    BY <1>0, <1>1, <1>3
  <2> HIDE DEF x
  <2> QED BY <1>0, <1>1, <1>3, <1>5, <1>6, <2>1, <2>2, <2>3 DEF Agree, x
<1> QED BY <1>4, <1>7, <1>8

\* A task that does not hold the lock is gone.
LEMMA AgreeTerminate ==
    ASSUME NEW w, NEW n, NEW p, NEW c, Agree(w, n, p, c), NEW t \in Task,
           p[t] \in {"out", "wai"} \/ t \in w,
           NEW q, q = [p EXCEPT ![t] = "out"]
    PROVE  Agree(w \ {t}, n, q, c)
<1> DEFINE m == NumAt(p, Entering)
           x == w \ {t}
<1>1. /\ p \in [Task -> PC] /\ c \in Int /\ n \in {0, 1} /\ w \subseteq Task
      /\ \A u \in w : p[u] = "in" /\ n = 0
      /\ c + 1 >= m
      /\ n = 1 => c >= 0
      /\ \A u \in Task : p[u] = "sig" => c >= 0
      /\ \A u, v \in Task : Holder(w, p, u) /\ Holder(w, p, v) => u = v
      /\ \A u \in Task : Holder(w, p, u) => n = 0
      /\ (\A u \in Task : ~Holder(w, p, u)) => IF c = -1 THEN n = 0 ELSE n = 1
      /\ w # {} => \E u \in Task : Holder(w, p, u)
  BY DEF Agree
<1>0. m \in Nat
  BY EnteringCounted
<1>2. c + 1 >= NumAt(q, Entering)
  <2> DEFINE l == NumAt(q, Entering)
  <2>1. "out" \notin Entering
    BY PCs
  <2>2. Moves(p, q, Entering, t, "out")
    BY <1>1, CountMoves
  <2>3. l \in Nat /\ (l = m \/ l = m - 1)
    BY <2>1, <2>2 DEF Moves
  <2> HIDE DEF l, m
  <2> QED BY <1>0, <1>1, <2>3 DEF l
<1> HIDE DEF m
<1>3. /\ q \in [Task -> PC] /\ q[t] = "out"
      /\ \A u \in Task \ {t} : q[u] = p[u]
  BY <1>0, <1>1, PCs
<1>4. ~Holder(w, p, t)
  BY <1>0, <1>1 DEF Holder
<1>5. \A u \in Task : Holder(x, q, u) <=> Holder(w, p, u)
  BY <1>3, <1>4 DEF Holder
<1>6. (\A u \in x : q[u] = "in" /\ n = 0) /\ x \subseteq Task /\ (x # {} => w # {})
  BY <1>0, <1>1, <1>3
<1>7. \A u \in Task : q[u] = "sig" => c >= 0
  BY <1>0, <1>1, <1>3
<1> HIDE DEF x
<1> QED BY <1>0, <1>1, <1>2, <1>3, <1>5, <1>6, <1>7 DEF Agree, x

(***************************************************************************)
(* The kernel of a fast lock: every task that waits, waits for one unit of *)
(* its semaphore.                                                          *)
(***************************************************************************)
SemField == {"semid", "sematr", "semcnt", "maxsem"}

LockSem(k) ==
    /\ SemField \subseteq DOMAIN k
    /\ k.semid[id] /\ k.sematr[id] = {"TPRI"} /\ k.maxsem[id] = 1
    /\ id \in DOMAIN k.semcnt

WaitsForLock(k, t) == k.wid[t] = id /\ k.winfo[t] = 1 /\ k.wspec[t] = "sem_tpri"

LockState(k) ==
    /\ KState(k) /\ LockSem(k)
    /\ \A t \in Task : k.state[t] \in WaitBit => WaitsForLock(k, t)

Waiting(k) == {t \in Task : k.state[t] \in WaitBit}

LEMMA LockObject ==
    /\ id \in WaitQ /\ id # NoObj /\ SemField \cap TaskField = {} /\ SemField \cap KernelField = {}
    /\ "sem_tpri" \in WSpec
  BY LockAssumption, SemaphoreAssumption DEF SemField, TaskField, KernelField, WaitField, WSpec

LEMMA LockSemKept ==
    ASSUME NEW k, LockSem(k), NEW k1, Only(k1, k, TaskField)
    PROVE  LockSem(k1) /\ k1.semcnt = k.semcnt
<1>1. \A f \in SemField : f \in DOMAIN k \ TaskField
  BY LockObject DEF LockSem
<1> QED BY <1>1 DEF LockSem, SemField, Only

\* The queue of the semaphore: those that wait.
LEMMA LockQueue ==
    ASSUME NEW k, LockState(k)
    PROVE  /\ k.que[id] \in Seq(Task)
           /\ \A i \in 1..Len(k.que[id]) : k.que[id][i] \in Waiting(k) /\ k.winfo[k.que[id][i]] = 1
           /\ IsInjective(k.que[id])
           /\ k.que[id] = <<>> <=> Waiting(k) = {}
<1> DEFINE q == k.que[id]
<1>1. /\ q \in Seq(Task) /\ IsInjective(q)
      /\ \A t \in Task : InRing(q, t) <=> k.wid[t] = id
  BY LockObject, RingHasWaiters DEF LockState
<1>2. \A t \in Task : k.wid[t] = id <=> t \in Waiting(k)
  BY LockObject DEF LockState, WaitsForLock, Waiting, KState, WaitsOnly
<1> HIDE DEF q
<1>3. \A i \in 1..Len(q) : q[i] \in Task /\ InRing(q, q[i])
  BY <1>1 DEF InRing
<1>4. \A i \in 1..Len(q) : q[i] \in Waiting(k) /\ k.winfo[q[i]] = 1
  BY <1>1, <1>2, <1>3 DEF Waiting, LockState, WaitsForLock
<1>5. ASSUME q = <<>> PROVE Waiting(k) = {}
  BY <1>1, <1>2, <1>5 DEF InRing, Waiting
<1>6. ASSUME q # <<>> PROVE Waiting(k) # {}
  <2>1. 1 \in 1..Len(q)
    BY <1>1, <1>6
  <2> QED BY <1>4, <2>1
<1> QED BY <1>1, <1>4, <1>5, <1>6 DEF q

LEMMA LockQuiet ==
    ASSUME NEW k, LockState(k), Waiting(k) = {} \/ k.semcnt[id] = 0
    PROVE  Serve(k, id) = k /\ SemRelWai(k, id) = k
<1>1. "CNT" \notin k.sematr[id]
  BY DEF LockState, LockSem
<1>2. k.que[id] \in Seq(Task)
  BY LockQueue
<1>3. k.que[id] = <<>> \/ k.semcnt[id] < k.winfo[k.que[id][1]]
  <2>1. CASE Waiting(k) = {}
    BY <2>1, LockQueue
  <2>2. CASE k.que[id] # <<>> /\ k.semcnt[id] = 0
    <3>1. 1 \in 1..Len(k.que[id])
      BY <1>2, <2>2
    <3>2. k.winfo[k.que[id][1]] = 1
      BY <3>1, LockQueue
    <3> QED BY <2>2, <3>2
  <2> QED BY <2>1, <2>2
<1>4. Serve(k, id) = k
  BY <1>1, <1>2, <1>3, ServeNobody
<1> QED BY <1>1, <1>4 DEF SemRelWai

\* No wait begins or ends.
LEMMA LockUndisturbed ==
    ASSUME NEW k, LockState(k), NEW k1, Undisturbed(k1, k)
    PROVE  LockState(k1) /\ Waiting(k1) = Waiting(k) /\ k1.semcnt = k.semcnt
<1>1. KState(k1) /\ Only(k1, k, TaskField) /\ \A u \in Task : Kept(k1, k, u)
  BY DEF Undisturbed
<1>2. LockSem(k1) /\ k1.semcnt = k.semcnt
  BY <1>1, LockSemKept DEF LockState
<1> QED BY <1>1, <1>2 DEF LockState, WaitsForLock, Waiting, Kept

\* The wait of one task ends.
LEMMA LockOneLess ==
    ASSUME NEW k, LockState(k), NEW t \in Task, NEW k1, Concerns(k1, k, t),
           k1.state[t] \notin WaitBit
    PROVE  LockState(k1) /\ Waiting(k1) = Waiting(k) \ {t} /\ k1.semcnt = k.semcnt
<1>1. KState(k1) /\ Only(k1, k, TaskField) /\ \A u \in Task \ {t} : SameTask(k1, k, u)
  BY DEF Concerns
<1>2. LockSem(k1) /\ k1.semcnt = k.semcnt
  BY <1>1, LockSemKept DEF LockState
<1> QED BY <1>1, <1>2 DEF LockState, WaitsForLock, Waiting, SameTask

\* The count of the semaphore is set.
LEMMA LockCount ==
    ASSUME NEW k, LockState(k), NEW v, NEW k1, k1 = [k EXCEPT !.semcnt[id] = v]
    PROVE  /\ LockState(k1) /\ Waiting(k1) = Waiting(k) /\ k1.semcnt[id] = v
           /\ k1.que = k.que /\ k1.winfo = k.winfo
<1>1. DOMAIN k1 = DOMAIN k /\ \A f \in DOMAIN k \ {"semcnt"} : k1[f] = k[f]
  OBVIOUS
<1>2. SemField \subseteq DOMAIN k /\ id \in DOMAIN k.semcnt
  BY DEF LockState, LockSem
<1>3. k1.semcnt = [k.semcnt EXCEPT ![id] = v]
  BY <1>2 DEF SemField
<1>4. LockSem(k1) /\ k1.semcnt[id] = v
  BY <1>1, <1>2, <1>3 DEF LockState, LockSem, SemField
<1>5. /\ TaskField \subseteq DOMAIN k /\ "semcnt" \notin TaskField
      /\ k.wercd = [u \in Task |-> k.wercd[u]] /\ DOMAIN k.wercd = Task
  BY StateFacts, LockObject DEF LockState, TaskField, SemField, WaitTypes
<1>6. /\ TaskField \subseteq DOMAIN k1 /\ \A f \in TaskField : k1[f] = k[f]
  BY <1>1, <1>5
<1>7. /\ KState(k1) /\ k1.state = k.state /\ k1.wid = k.wid /\ k1.winfo = k.winfo
      /\ k1.wspec = k.wspec /\ k1.que = k.que
  <2>1. KState(k) /\ k1.wercd = k.wercd
    BY <1>6 DEF LockState, TaskField, KernelField
  <2> QED BY ONLY <1>5, <1>6, <2>1, OtherFields
<1> QED BY <1>4, <1>7 DEF LockState, WaitsForLock, Waiting

\* tk_sig_sem: the unit stays, or the first task of the queue gets it.
Signalled(k1, k) ==
    /\ LockState(k1)
    /\ Waiting(k) = {} => Waiting(k1) = {} /\ k1.semcnt[id] = 1
    /\ Waiting(k) # {} => /\ k1.semcnt[id] = 0
                          /\ \E u \in Waiting(k) : Waiting(k1) = Waiting(k) \ {u}

LEMMA LockSignalled ==
    ASSUME NEW k, LockState(k), k.semcnt[id] = 0
    PROVE  Signalled(Serve([k EXCEPT !.semcnt[id] = @ + 1], id), k)
<1> DEFINE k0 == [k EXCEPT !.semcnt[id] = @ + 1]
<1>1. /\ LockState(k0) /\ Waiting(k0) = Waiting(k) /\ k0.semcnt[id] = 1
      /\ k0.que = k.que /\ k0.winfo = k.winfo
  <2>1. k0 = [k EXCEPT !.semcnt[id] = 1]
    OBVIOUS
  <2> HIDE DEF k0
  <2>2. LockState(k)
    OBVIOUS
  <2> QED BY ONLY <2>1, <2>2, LockCount
<1> SUFFICES Signalled(Serve(k0, id), k)
  OBVIOUS
<1> HIDE DEF k0
<1>2. CASE Waiting(k) = {}
  <2>1. Serve(k0, id) = k0
    BY <1>1, <1>2, LockQuiet
  <2> QED BY <1>1, <1>2, <2>1 DEF Signalled
<1>3. CASE Waiting(k) # {}
  <2> DEFINE q == k0.que[id]
             t == q[1]
             ke == EndWait(k0, t, "E_OK")
             k1 == [ke EXCEPT !.semcnt[id] = @ - k0.winfo[t]]
  <2>1. /\ q \in Seq(Task) /\ q # <<>> /\ IsInjective(q)
        /\ \A i \in 1..Len(q) : q[i] \in Waiting(k0) /\ k0.winfo[q[i]] = 1
    BY <1>1, <1>3, LockQueue
  <2>2. t \in Task /\ k0.state[t] \in WaitBit /\ k0.winfo[t] = 1
    <3>1. 1 \in 1..Len(q)
      BY <2>1
    <3> QED BY <2>1, <3>1 DEF Waiting
  <2> HIDE DEF q, t
  <2>3. WaitOver(ke, k0, t, "E_OK")
    BY <1>1, <2>2, EndWaitState DEF LockState
  <2> HIDE DEF ke
  <2>4. Concerns(ke, k0, t) /\ ke.state[t] \notin WaitBit
    BY <2>3, ATaskWaits DEF WaitOver
  <2>5. LockState(ke) /\ Waiting(ke) = Waiting(k0) \ {t} /\ ke.semcnt = k0.semcnt
    BY <1>1, <2>2, <2>4, LockOneLess
  <2>6. k1 = [ke EXCEPT !.semcnt[id] = 0]
    <3>1. ke.semcnt[id] - k0.winfo[t] = 0
      BY <1>1, <2>2, <2>5
    <3> QED BY <3>1
  <2> HIDE DEF k1
  <2>7. /\ LockState(k1) /\ Waiting(k1) = Waiting(ke) /\ k1.semcnt[id] = 0
        /\ k1.winfo = ke.winfo
    BY <2>5, <2>6, LockCount
  <2>8. Serve(k0, id) = k1
    <3>1. "CNT" \notin k0.sematr[id] /\ k1.sematr[id] = k0.sematr[id]
      BY <1>1, <2>7 DEF LockState, LockSem
    <3>2. ~(k0.semcnt[id] < k0.winfo[t])
      BY <1>1, <2>2
    <3>3. ASSUME Len(q) > 1 PROVE k1.semcnt[id] < k1.winfo[q[2]]
      <4>1. q[2] \in Task /\ q[2] # t /\ k0.winfo[q[2]] = 1
        <5>1. 1 \in 1..Len(q) /\ 2 \in 1..Len(q) /\ 1 \in DOMAIN q /\ 2 \in DOMAIN q
          BY <2>1, <3>3
        <5> QED BY <2>1, <5>1 DEF IsInjective, Waiting, t
      <4>2. ke.winfo[q[2]] = k0.winfo[q[2]]
        BY <2>4, <4>1 DEF Concerns, SameTask
      <4> QED BY <2>7, <4>1, <4>2
    <3> QED BY <2>1, <3>1, <3>2, <3>3, ServeFirst DEF q, t, k1, ke, Given
  <2>9. t \in Waiting(k) /\ Waiting(k1) = Waiting(k) \ {t}
    BY <1>1, <2>2, <2>5, <2>7 DEF Waiting
  <2> QED BY <1>3, <2>7, <2>8, <2>9 DEF Signalled
<1> QED BY <1>2, <1>3

\* tk_wai_sem: there is a unit and nobody waits, or the task begins to wait.
LEMMA LockWaited ==
    ASSUME NEW k, LockState(k), NEW t \in Task, k.state[t] = "READY"
    PROVE  LET k1 == WaitForSem(k, t, id, 1, "FEVR")
           IN  LockState(k1) /\ Waiting(k1) = Waiting(k) \cup {t} /\ k1.semcnt = k.semcnt
<1> DEFINE k1 == WaitForSem(k, t, id, 1, "FEVR")
<1>1. "TPRI" \in k.sematr[id] /\ KState(k)
  BY DEF LockState, LockSem
<1>2. PICK tpri : tpri = ("TPRI" \in k.sematr[id])
  OBVIOUS
<1>3. k1 = GcbMakeWait(k, t, id, id, tpri, "sem_tpri", 1, "FEVR")
  BY <1>1, <1>2 DEF WaitForSem
<1>4. WaitBegun(k1, k, t, id, "sem_tpri", 1)
  BY <1>1, <1>3, LockObject, GcbMakeWaitState
<1> HIDE DEF k1
<1>5. /\ KState(k1) /\ Only(k1, k, TaskField)
      /\ \A u \in Task \ {t} : SameTask(k1, k, u)
      /\ k1.state[t] \in WaitBit /\ WaitsForLock(k1, t)
  BY <1>4, ATaskWaits DEF WaitBegun, Concerns, WaitsForLock
<1>6. LockSem(k1) /\ k1.semcnt = k.semcnt
  BY <1>5, LockSemKept DEF LockState
<1>7. LockState(k1)
  BY <1>5, <1>6 DEF LockState, WaitsForLock, SameTask
<1>8. Waiting(k1) = Waiting(k) \cup {t}
  BY <1>5 DEF Waiting, SameTask
<1> QED BY <1>6, <1>7, <1>8 DEF k1

\* A task that may wait is terminated.
LEMMA LockTerminated ==
    ASSUME LockHooks, NEW k, LockState(k), NEW t \in Task, k.state[t] \in Alive,
           Waiting(k) # {} => k.semcnt[id] = 0
    PROVE  LET k0 == [Detach(k, t) EXCEPT !.wid[t] = NoObj, !.winfo[t] = NoInfo]
               k1 == IF k.state[t] \in WaitBit THEN RelWaiHook(k0, k.wid[t], k.wspec[t]) ELSE k0
               k2 == MakeDormant(k1, t)
           IN  LockState(k2) /\ Waiting(k2) = Waiting(k) \ {t} /\ k2.semcnt = k.semcnt
<1> DEFINE k0 == [Detach(k, t) EXCEPT !.wid[t] = NoObj, !.winfo[t] = NoInfo]
           k1 == IF k.state[t] \in WaitBit THEN RelWaiHook(k0, k.wid[t], k.wspec[t]) ELSE k0
           k2 == MakeDormant(k0, t)
<1>1. KState(k)
  BY DEF LockState
<1>2. TakenOut(k0, k, t)
  BY <1>1, DetachState DEF Withdrawn
<1> HIDE DEF k0
<1>3. k1 = k0
  <2>1. CASE k.state[t] \notin WaitBit
    BY <2>1
  <2>2. CASE k.state[t] \in WaitBit
    <3>1. k.wid[t] = id /\ k.wspec[t] = "sem_tpri" /\ t \in Waiting(k)
      BY <2>2 DEF LockState, WaitsForLock, Waiting
    <3>2. RelWaiHook(k0, id, "sem_tpri") = SemRelWai(k0, id)
      <4>1. "sem_tpri" \in SemWSpec
        BY DEF SemWSpec
      <4> QED BY <4>1 DEF LockHooks, LockRelWai
    <3>3. Concerns(k0, k, t)
      BY <1>1, <1>2, <2>2, TakenOutWaiting
    <3>4. "CNT" \notin k0.sematr[id] /\ k0.semcnt = k.semcnt
      BY <3>3, LockSemKept DEF Concerns, LockState, LockSem
    <3>5. k0.que[id] \in Seq(Task) /\ \A u \in Task : InRing(k0.que[id], u) => k0.wid[u] = id
      BY <3>3, LockObject, RingHasWaiters DEF Concerns
    <3>6. \A u \in Task : k0.wid[u] = id => k0.winfo[u] = 1
      <4>1. k0.wid[t] # id
        BY <1>2, LockObject DEF TakenOut
      <4> SUFFICES ASSUME NEW u \in Task, k0.wid[u] = id PROVE k0.winfo[u] = 1
        OBVIOUS
      <4>2. SameTask(k0, k, u)
        BY <3>3, <4>1 DEF Concerns
      <4>3. k.wid[u] = id /\ k0.winfo[u] = k.winfo[u]
        BY <4>2 DEF SameTask
      <4> QED BY <1>1, <4>3, LockObject DEF LockState, WaitsForLock, KState, WaitsOnly
    <3>7. k0.que[id] = <<>> \/ k0.semcnt[id] < k0.winfo[k0.que[id][1]]
      <4>1. SUFFICES ASSUME k0.que[id] # <<>> PROVE k0.semcnt[id] < k0.winfo[k0.que[id][1]]
        OBVIOUS
      <4>2. k0.que[id][1] \in Task /\ InRing(k0.que[id], k0.que[id][1])
        BY <3>5, <4>1 DEF InRing
      <4>3. k0.winfo[k0.que[id][1]] = 1 /\ k0.semcnt[id] = 0
        BY <3>1, <3>4, <3>5, <3>6, <4>2
      <4> QED BY <4>3
    <3>8. Serve(k0, id) = k0
      BY <3>4, <3>5, <3>7, ServeNobody
    <3>9. SemRelWai(k0, id) = k0
      BY <3>4, <3>8 DEF SemRelWai
    <3> QED BY <2>2, <3>1, <3>2, <3>9
  <2> QED BY <2>1, <2>2
<1>4. Dormant(k2, k, t)
  BY <1>1, <1>2, DormantState
<1> HIDE DEF k2
<1>5. Concerns(k2, k, t) /\ k2.state[t] \notin WaitBit
  BY <1>4, ATaskWaits DEF Dormant
<1>6. LockState(k2) /\ Waiting(k2) = Waiting(k) \ {t} /\ k2.semcnt = k.semcnt
  BY <1>5, LockOneLess
<1> HIDE DEF k1
<1>7. MakeDormant(k1, t) = k2
  BY <1>3 DEF k2
<1> QED BY <1>6, <1>7 DEF k1, k0

\* A task that waits for the lock has a new priority.
LEMMA LockReordered ==
    ASSUME LockHooks, NEW k, LockState(k), NEW t \in Waiting(k), NEW p \in Pri,
           k.semcnt[id] = 0
    PROVE  LET k1 == ChgPriHook([k EXCEPT !.priority[t] = p], t)
           IN  LockState(k1) /\ Waiting(k1) = Waiting(k) /\ k1.semcnt = k.semcnt
<1> DEFINE k0 == [k EXCEPT !.priority[t] = p]
           k2 == GcbChangePri(k0, t, k0.wid[t])
<1>1. /\ KState(k) /\ t \in Task /\ k.state[t] \in WaitBit
      /\ k.wid[t] = id /\ k.wspec[t] = "sem_tpri" /\ id # NoObj
  BY LockObject DEF LockState, WaitsForLock, Waiting
<1>2. k0.wid[t] = id /\ k0.wspec[t] = "sem_tpri"
  BY <1>1
<1>3. Undisturbed(k2, k)
  BY <1>1, WaiterPriorityState
<1>4. ChgPriHook(k0, t) = SemRelWai(k2, id)
  <2>1. ChgPriHook(k0, t) = LockChgPri(k0, t)
    BY DEF LockHooks
  <2> HIDE DEF k0
  <2>2. LockChgPri(k0, t) = SemChgPri(k0, t)
    BY <1>2 DEF LockChgPri
  <2> QED BY <1>2, <2>1, <2>2 DEF SemChgPri
<1> HIDE DEF k2
<1>5. LockState(k2) /\ Waiting(k2) = Waiting(k) /\ k2.semcnt = k.semcnt
  BY <1>3, LockUndisturbed
<1>6. SemRelWai(k2, id) = k2
  BY <1>5, LockQuiet
<1> HIDE DEF k0
<1> QED BY <1>4, <1>5, <1>6 DEF k0

LEMMA WithFieldsKept ==
    ASSUME NEW k, NEW r, NEW f \in DOMAIN k
    PROVE  WithFields(k, r)[f] = k[f]
  BY DEF WithFields

FlgField == {"flgid", "flgatr", "flgptn"}

LEMMA FlgObject ==
    /\ mid \in WaitQ /\ mid # NoObj /\ FlgField \cap TaskField = {}
    /\ "flg_tpri" \in WSpec
  BY MLockAssumption, EventFlagAssumption DEF FlgField, TaskField, KernelField, WaitField, WSpec

LEMMA FreeLockObjects ==
    ASSUME NEW k0, FirstState(k0), DOMAIN k0 = TaskField,
           NEW k, k = WithFreeEventFlags(WithFreeSemaphores(k0))
    PROVE  /\ FirstState(k) /\ SemField \cup FlgField \subseteq DOMAIN k
           /\ \A f \in SemField : DOMAIN k[f] = SEM
           /\ \A f \in FlgField : DOMAIN k[f] = FLG
<1> DEFINE r1 == [semid |-> [s \in SEM |-> FALSE], sematr |-> [s \in SEM |-> {}],
                  semcnt |-> [s \in SEM |-> 0], maxsem |-> [s \in SEM |-> 0]]
           r2 == [flgid |-> [f \in FLG |-> FALSE], flgatr |-> [f \in FLG |-> {}],
                  flgptn |-> [f \in FLG |-> {}]]
           k1 == WithFields(k0, r1)
<1>1. k = WithFields(k1, r2)
  BY DEF WithFreeEventFlags, WithFreeSemaphores
<1>2. /\ DOMAIN r1 = SemField
      /\ \A f \in SemField : DOMAIN r1[f] = SEM
  BY DEF SemField
<1>3. /\ DOMAIN r2 = FlgField
      /\ \A f \in FlgField : DOMAIN r2[f] = FLG
  BY DEF FlgField
<1> HIDE DEF r1, r2, k1
<1>4. /\ DOMAIN k1 = TaskField \cup SemField
      /\ \A f \in TaskField : k1[f] = k0[f]
      /\ \A f \in SemField : k1[f] = r1[f]
  BY <1>2, LockObject DEF WithFields, k1
<1>5. FlgField \cap SemField = {} /\ FlgField \cap TaskField = {}
  BY FlgObject DEF SemField, FlgField
<1>6. /\ DOMAIN k = TaskField \cup SemField \cup FlgField
      /\ \A f \in TaskField : k[f] = k0[f]
      /\ \A f \in SemField : k[f] = r1[f]
      /\ \A f \in FlgField : k[f] = r2[f]
  BY <1>1, <1>3, <1>4, <1>5 DEF WithFields
<1>7. FirstState(k)
  BY <1>6, FirstStateKept
<1> QED BY <1>2, <1>3, <1>6, <1>7 DEF SemField

(***************************************************************************)
(* The fast lock.                                                          *)
(***************************************************************************)
\* The inductive invariant.
LockInv ==
    /\ LockState(kn) /\ TaskControl
    /\ Agree(Waiting(kn), kn.semcnt[id], pc, cnt)

LEMMA LockFirst == LockInit => LockInv
<1> SUFFICES ASSUME LockInit PROVE LockInv
  OBVIOUS
<1> DEFINE k0 == MakeReady(CreateTcb(InitKernel, 0), 1)
           k1 == WithNoWait(k0)
           k2 == WithFreeEventFlags(WithFreeSemaphores(k1))
           F == {"semid", "sematr", "semcnt", "maxsem"}
<1>1. kn = [k2 EXCEPT !.semid[id] = TRUE, !.sematr[id] = {"TPRI"}, !.semcnt[id] = 0,
                      !.maxsem[id] = 1]
  BY DEF LockInit, CreateLock, WithFreeLockObjects
<1>2. FirstState(k1) /\ DOMAIN k1 = TaskField
  <2>1. PICK r : FirstTask(k0, r)
    BY FirstTaskReady
  <2> HIDE DEF k0
  <2> QED BY <2>1, NoWaitState
<1> HIDE DEF k1
<1>3. FirstState(k2) /\ SemField \subseteq DOMAIN k2 /\ \A f \in SemField : DOMAIN k2[f] = SEM
  BY <1>2, FreeLockObjects
<1> HIDE DEF k2
<1>4. /\ DOMAIN kn = DOMAIN k2 /\ \A f \in DOMAIN k2 \ SemField : kn[f] = k2[f]
  BY <1>1 DEF SemField
<1>5. LockSem(kn) /\ kn.semcnt[id] = 0
  BY <1>1, <1>3, LockAssumption DEF LockSem, SemField
<1>6. FirstState(kn)
  <2>1. TaskField \subseteq DOMAIN k2
    BY <1>3, StateFacts DEF FirstState, TaskField
  <2> QED BY <1>3, <1>4, <2>1, FirstStateKept, LockObject
<1>7. Waiting(kn) = {} /\ LockState(kn)
  BY <1>5, <1>6, ATaskWaits DEF Waiting, FirstState, LockState
<1>8. TaskControl
  BY DEF LockInit, TaskControl, InTask
<1>9. pc = [t \in Task |-> "out"] /\ cnt = -1
  BY DEF LockInit
<1>10. NumAt(pc, Entering) = 0
  <2>1. \A t \in Task : pc[t] \notin Entering
    BY <1>9, PCs
  <2> QED BY ONLY <2>1, EnteringCounted
<1>11. Agree({}, 0, pc, cnt)
  BY <1>9, <1>10 DEF Agree, Holder, PC
<1> QED BY <1>5, <1>7, <1>8, <1>11 DEF LockInv

\* The task in execution is in the library, and does not wait.
LEMMA AtTask ==
    ASSUME TaskControl, NEW at, At(at)
    PROVE  ctxtsk \in Task /\ pc[ctxtsk] = at /\ kn.state[ctxtsk] = "READY" /\ ctxtsk \notin Waiting(kn)
  BY ATaskWaits DEF TaskControl, At, InTask, Waiting

LEMMA ControlUnchanged ==
    ASSUME TaskControl, UNCHANGED vars
    PROVE  TaskControl'
  BY DEF TaskControl, InTask, vars

LEMMA LockKept ==
    ASSUME LockInv, Lock
    PROVE  LockInv'
<1>1. ctxtsk \in Task /\ pc[ctxtsk] = "out"
  BY AtTask DEF LockInv, Lock
<1>2. /\ cnt' = cnt + 1 /\ UNCHANGED vars
      /\ pc' = [pc EXCEPT ![ctxtsk] = IF cnt + 1 > 0 THEN "wai" ELSE "in"]
  BY DEF Lock, Goto
<1>3. Agree(Waiting(kn), kn.semcnt[id], pc', cnt + 1)
  BY <1>1, <1>2, AgreeLock DEF LockInv
<1> QED BY <1>2, <1>3, ControlUnchanged DEF LockInv, vars

LEMMA LockWaitKept ==
    ASSUME LockInv, LockWait
    PROVE  LockInv'
<1> DEFINE t == ctxtsk
           w == Waiting(kn)
           n == kn.semcnt[id]
<1>1. /\ t \in Task /\ pc[t] = "wai" /\ kn.state[t] = "READY"
      /\ pc' = [pc EXCEPT ![t] = "in"] /\ cnt' = cnt
  BY AtTask DEF LockInv, LockWait, Goto
<1>2. n \in {0, 1} /\ LockState(kn) /\ Agree(w, n, pc, cnt)
  BY DEF LockInv, Agree
<1>3. n = 1 => w = {} /\ Agree(w, 0, pc', cnt)
  BY <1>1, <1>2, AgreeWait
<1>4. n = 0 => Agree(w \cup {t}, 0, pc', cnt)
  BY <1>1, <1>2, AgreeWait
<1>5. CASE n = 1
  <2> DEFINE k1 == [kn EXCEPT !.semcnt[id] = @ - 1]
  <2>1. kn.que[id] = <<>>
    BY <1>2, <1>3, <1>5, LockQueue
  <2>2. SystemCall("task", k1)
    BY <1>5, <2>1 DEF LockWait, WaiSem, IsTop
  <2>3. k1 = [kn EXCEPT !.semcnt[id] = 0]
    BY <1>5
  <2> HIDE DEF k1
  <2>4. LockState(k1) /\ Waiting(k1) = Waiting(kn) /\ k1.semcnt[id] = 0
    BY ONLY <1>2, <2>3, LockCount
  <2>5. TaskControl' /\ kn' = k1
    BY <2>2, <2>4, CallControl DEF LockInv, LockState
  <2> QED BY <1>1, <1>3, <1>5, <2>4, <2>5 DEF LockInv
<1>6. CASE n = 0
  <2> DEFINE k1 == WaitForSem(kn, t, id, 1, "FEVR")
  <2>1. SystemCall("task", k1)
    BY <1>6 DEF LockWait, WaiSem
  <2>2. LockState(k1) /\ Waiting(k1) = w \cup {t} /\ k1.semcnt[id] = 0
    BY <1>1, <1>2, <1>6, LockWaited
  <2> HIDE DEF k1
  <2>3. TaskControl' /\ kn' = k1
    BY <2>1, <2>2, CallControl DEF LockInv, LockState
  <2> QED BY <1>1, <1>4, <1>6, <2>2, <2>3 DEF LockInv
<1> QED BY <1>2, <1>5, <1>6

LEMMA UnlockKept ==
    ASSUME LockInv, Unlock
    PROVE  LockInv'
<1>1. ctxtsk \in Task /\ pc[ctxtsk] = "in" /\ ctxtsk \notin Waiting(kn)
  BY AtTask DEF LockInv, Unlock
<1>2. /\ cnt' = cnt - 1 /\ UNCHANGED vars
      /\ pc' = [pc EXCEPT ![ctxtsk] = IF cnt > 0 THEN "sig" ELSE "out"]
  BY DEF Unlock, Goto
<1>3. Agree(Waiting(kn), kn.semcnt[id], pc', cnt - 1)
  BY <1>1, <1>2, AgreeUnlock DEF LockInv
<1> QED BY <1>2, <1>3, ControlUnchanged DEF LockInv, vars

LEMMA UnlockSignalKept ==
    ASSUME LockInv, UnlockSignal
    PROVE  LockInv'
<1> DEFINE w == Waiting(kn)
           n == kn.semcnt[id]
           k1 == Serve([kn EXCEPT !.semcnt[id] = @ + 1], id)
<1>1. /\ ctxtsk \in Task /\ pc[ctxtsk] = "sig"
      /\ pc' = [pc EXCEPT ![ctxtsk] = "out"] /\ cnt' = cnt
  BY AtTask DEF LockInv, UnlockSignal, Goto
<1>2. LockState(kn) /\ Agree(w, n, pc, cnt)
  BY DEF LockInv
<1>3. /\ n = 0
      /\ w = {} => Agree(w, 1, pc', cnt)
      /\ \A u \in w : Agree(w \ {u}, 0, pc', cnt)
  <2> HIDE DEF w, n, k1
  <2>1. n = 0
    BY ONLY <1>1, <1>2, AgreeSignal
  <2>2. w = {} => Agree(w, 1, pc', cnt)
    BY ONLY <1>1, <1>2, AgreeSignal
  <2>3. \A u \in w : Agree(w \ {u}, 0, pc', cnt)
    BY ONLY <1>1, <1>2, AgreeSignal
  <2> QED BY <2>1, <2>2, <2>3
<1>4. SystemCall("task", k1)
  BY <1>2, <1>3 DEF UnlockSignal, SigSem, LockState, LockSem
<1>5. Signalled(k1, kn)
  BY <1>2, <1>3, LockSignalled
<1> HIDE DEF k1
<1>6. TaskControl' /\ kn' = k1
  BY <1>4, <1>5, CallControl DEF LockInv, Signalled, LockState
<1> QED BY <1>1, <1>3, <1>5, <1>6 DEF Signalled, LockInv

LEMMA TerminateKept ==
    ASSUME LockHooks, LockInv, NEW t \in Task, Terminate(t)
    PROVE  LockInv'
<1> DEFINE w == Waiting(kn)
           n == kn.semcnt[id]
           k0 == [Detach(kn, t) EXCEPT !.wid[t] = NoObj, !.winfo[t] = NoInfo]
           k1 == IF kn.state[t] \in WaitBit THEN RelWaiHook(k0, kn.wid[t], kn.wspec[t]) ELSE k0
           k2 == MakeDormant(k1, t)
<1>1. /\ pc[t] \in {"out", "wai"} \/ t \in w
      /\ pc' = [pc EXCEPT ![t] = "out"] /\ cnt' = cnt
  BY DEF Terminate, Blocked, Waiting
<1>2. kn.state[t] \in Alive /\ SystemCall("task", k2)
  BY DEF Terminate, TerTskWait
<1>3. LockState(kn) /\ Agree(w, n, pc, cnt) /\ (w # {} => n = 0)
  BY DEF LockInv, Agree
<1>4. Agree(w \ {t}, n, pc', cnt)
  BY <1>1, <1>3, AgreeTerminate
<1>5. LockState(k2) /\ Waiting(k2) = w \ {t} /\ k2.semcnt = kn.semcnt
  BY <1>2, <1>3, LockTerminated
<1> HIDE DEF k2
<1>6. TaskControl' /\ kn' = k2
  BY <1>2, <1>5, CallControl DEF LockInv, LockState
<1> QED BY <1>1, <1>4, <1>5, <1>6 DEF LockInv

\* What interrupt handlers, the dispatcher and tasks outside do meanwhile.
LEMMA MeanwhileKept ==
    ASSUME LockHooks, LockInv, Meanwhile
    PROVE  LockInv'
<1>1. cnt' = cnt /\ pc' = pc /\ LockState(kn) /\ TaskControl /\ KState(kn)
  BY DEF Meanwhile, LockInv, LockState
<1>2. ASSUME LockState(kn'), Waiting(kn') = Waiting(kn), kn'.semcnt = kn.semcnt, TaskControl'
      PROVE  LockInv'
  BY <1>1, <1>2 DEF LockInv
<1>3. ASSUME TaskControl', Undisturbed(kn', kn) PROVE LockInv'
  BY <1>1, <1>2, <1>3, LockUndisturbed
<1>4. CASE TaskStep
  BY <1>1, <1>3, <1>4, TaskStepKeeps
<1>5. CASE DispatchSwitch
  <2>1. TaskControl' /\ KState(kn') /\ Only(kn', kn, {"wercd"})
    BY <1>1, <1>5, DispatchSwitchKeeps
  <2>2. /\ kn'.state = kn.state /\ kn'.wid = kn.wid /\ kn'.winfo = kn.winfo
        /\ kn'.wspec = kn.wspec
    BY <1>1, <2>1, StateFacts DEF Only, KernelField, WaitField
  <2>3. Only(kn', kn, TaskField)
    BY <2>1 DEF Only, TaskField, KernelField
  <2>4. LockSem(kn') /\ kn'.semcnt = kn.semcnt
    BY <1>1, <2>3, LockSemKept DEF LockState
  <2>5. LockState(kn') /\ Waiting(kn') = Waiting(kn)
    BY <1>1, <2>1, <2>2, <2>4 DEF LockState, WaitsForLock, Waiting
  <2> QED BY <1>2, <2>1, <2>4, <2>5
<1>6. ASSUME NEW t \in Task, NEW p \in Pri, ChgPriWait("hdr", t, p) PROVE LockInv'
  <2>1. CASE kn.state[t] \notin WaitBit
    BY <1>1, <1>3, <1>6, <2>1, ChgPriWaitKeeps
  <2>2. CASE kn.state[t] \in WaitBit
    <3>1. PICK k : /\ Undisturbed(k, kn)
                   /\ SystemCall("hdr", ChgPriHook([k EXCEPT !.priority[t] = p], t))
      BY <1>1, <1>6, <2>2, ChgPriWaitKeeps
    <3>2. LockState(k) /\ Waiting(k) = Waiting(kn) /\ k.semcnt = kn.semcnt
      BY <1>1, <3>1, LockUndisturbed
    <3>3. t \in Waiting(k) /\ k.semcnt[id] = 0
      BY <2>2, <3>2 DEF Waiting, LockInv, Agree
    <3> DEFINE k1 == ChgPriHook([k EXCEPT !.priority[t] = p], t)
    <3>4. LockState(k1) /\ Waiting(k1) = Waiting(k) /\ k1.semcnt = k.semcnt
      BY <3>2, <3>3, LockReordered
    <3>5. SystemCall("hdr", k1)
      BY <3>1
    <3> HIDE DEF k1
    <3>6. TaskControl' /\ kn' = k1
      BY <1>1, <3>4, <3>5, CallControl DEF LockState
    <3> QED BY <1>2, <3>2, <3>4, <3>6
  <2> QED BY <2>1, <2>2
<1>7. Interrupted \/ OutsideCreate => TaskStep \/ \E t \in Task, p \in Pri : ChgPriWait("hdr", t, p)
  BY DEF Interrupted, OutsideCreate, TaskStep, Caller
<1> QED BY <1>4, <1>5, <1>6, <1>7 DEF Meanwhile

LEMMA LockStep == LockHooks /\ LockInv /\ [LockNext]_lvars => LockInv'
<1> SUFFICES ASSUME LockHooks, LockInv, [LockNext]_lvars PROVE LockInv'
  OBVIOUS
<1>1. CASE Lock
  BY <1>1, LockKept
<1>2. CASE LockWait
  BY <1>2, LockWaitKept
<1>3. CASE Unlock
  BY <1>3, UnlockKept
<1>4. CASE UnlockSignal
  BY <1>4, UnlockSignalKept
<1>5. ASSUME NEW t \in Task, Terminate(t) PROVE LockInv'
  BY <1>5, TerminateKept
<1>6. CASE Meanwhile
  BY <1>6, MeanwhileKept
<1>7. CASE UNCHANGED lvars
  <2>1. UNCHANGED vars /\ cnt' = cnt /\ pc' = pc
    BY <1>7 DEF lvars, vars
  <2> QED BY <2>1, ControlUnchanged DEF LockInv, vars
<1> QED BY <1>1, <1>2, <1>3, <1>4, <1>5, <1>6, <1>7 DEF LockNext

LEMMA SmallSet ==
    ASSUME NEW S, S \subseteq Task, \A t, u \in S : t = u
    PROVE  /\ IsFiniteSet(S) /\ Cardinality(S) = IF S = {} THEN 0 ELSE 1
<1>1. CASE S = {}
  BY <1>1, FS_EmptySet
<1>2. CASE S # {}
  <2>1. PICK t : S = {t}
    BY <1>2
  <2> QED BY <1>2, <2>1, FS_Singleton
<1> QED BY <1>1, <1>2

LEMMA LockInvExact == LockInv => LockExact
<1> SUFFICES ASSUME LockInv PROVE LockExact
  OBVIOUS
<1> DEFINE w == Waiting(kn)
           n == kn.semcnt[id]
<1>1. \A t \in Task : /\ Holder(w, pc, t) <=> Inside(t) \/ pc[t] = "sig"
                      /\ Blocked(t) => t \in w
  BY DEF Holder, Inside, Blocked, Waiting
<1>2. Agree(w, n, pc, cnt) /\ w \subseteq Task
  BY DEF LockInv, Waiting
<1>3. LockTypeOK
  <2>1. NumAt(pc, Entering) = Cardinality({t \in Task : pc[t] \in {"wai", "in"}})
    BY DEF NumAt, TasksAt, Entering
  <2> QED BY <1>2, <2>1 DEF LockTypeOK, Agree
<1>4. FastLockExclusive
  <2> DEFINE S == {t \in Task : Inside(t) \/ pc[t] = "sig"}
  <2>1. \A t, u \in S : t = u
    BY <1>1, <1>2 DEF Agree
  <2>2. S # {} => n = 0
    BY <1>1, <1>2 DEF Agree
  <2>3. n \in {0, 1} /\ S \subseteq Task
    BY <1>2 DEF Agree
  <2> HIDE DEF S, n
  <2>4. Cardinality(S) = IF S = {} THEN 0 ELSE 1
    BY <2>1, <2>3, SmallSet
  <2>5. Cardinality(S) + n <= 1
    BY <2>2, <2>3, <2>4
  <2> QED BY <2>5 DEF FastLockExclusive, S, n
<1>5. FreeLockOpen
  BY <1>1, <1>2 DEF FreeLockOpen, Agree
<1>6. NoLostUnlock
  BY <1>1, <1>2 DEF NoLostUnlock, Agree
<1> QED BY <1>3, <1>4, <1>5, <1>6 DEF LockExact

\* fastlock.c, for any number of tasks: the counter, the semaphore and the
\* tasks agree whatever is preempted, suspended, created, reprioritized or
\* terminated between the counter and tk_wai_sem or tk_sig_sem.  At most one
\* task has the lock or is about to have it, with none the lock is open, and
\* the tk_sig_sem that lets a waiting task in is never left out.
THEOREM LockSpecExact ==
    ASSUME LockHooks
    PROVE  LockSpec => []LockExact
<1>1. LockInit => LockInv
  BY LockFirst
<1>2. LockInv /\ [LockNext]_lvars => LockInv'
  BY LockStep
<1>3. LockInv => LockExact
  BY LockInvExact
<1> QED BY <1>1, <1>2, <1>3, PTL DEF LockSpec

(***************************************************************************)
(* The fast multi-lock: the tasks w that wait, the pattern P of the event  *)
(* flag, the locks F that are taken, the counter c, the lock numbers o and *)
(* the places p of the tasks, and the tasks R whose wait ended with E_OK.  *)
(***************************************************************************)
MEntering == {"bts", "flg", "wai", "got", "fail"}       \* the tasks wai counts
Holding == {"got", "in"}
Trying == {"bts", "got", "in", "unl", "set"}

\* Task u has the lock n, gives it back, or will try to take it.
Witness(w, R, p, o, u, n) ==
    o[u] = n /\ (p[u] \in Trying \/ (p[u] = "wai" /\ u \notin w /\ u \in R))

MPlaces(o, p) ==
    /\ p \in [Task -> MPC] /\ o \in [Task -> FlgBit \cup {NoLock}]
    /\ \A t \in Task : p[t] # "out" => o[t] \in FlgBit

MTypes(w, F, c) == w \subseteq Task /\ F \subseteq FlgBit /\ c \in Int

MHolders(F, o, p) ==
    /\ \A n \in F : \E t \in Task : p[t] \in Holding /\ o[t] = n
    /\ \A t \in Task : p[t] \in Holding => o[t] \in F
    /\ \A t, u \in Task : p[t] \in Holding /\ p[u] \in Holding /\ o[t] = o[u] => t = u

MCounted(c, p) == c >= NumAt(p, MEntering)

\* For a task that waits, or is about to, there is the bit of the event flag
\* or another task.
MServed(w, P, o, p, R) ==
    /\ \A t \in w : p[t] = "wai" /\ o[t] \notin P
    /\ \A t \in Task : p[t] = "flg" \/ t \in w
                       => o[t] \in P \/ \E u \in Task : Witness(w, R, p, o, u, o[t])

MAgree(w, P, F, c, o, p, R) ==
    /\ MTypes(w, F, c) /\ MPlaces(o, p)
    /\ MHolders(F, o, p) /\ MCounted(c, p) /\ MServed(w, P, o, p, R)

\* Task t goes to x with the lock number y.
Goes(q, p, o1, o, t, x, y) ==
    q = [p EXCEPT ![t] = x] /\ o1 = [o EXCEPT ![t] = y]

Elsewhere(q, p, o1, o, t) == \A u \in Task \ {t} : q[u] = p[u] /\ o1[u] = o[u]

LEMMA GoesPlaces ==
    ASSUME NEW o, NEW p, MPlaces(o, p), NEW t \in Task,
           NEW x \in MPC, NEW y \in FlgBit \cup {NoLock}, x # "out" => y \in FlgBit,
           NEW q, NEW o1, Goes(q, p, o1, o, t, x, y)
    PROVE  MPlaces(o1, q) /\ Elsewhere(q, p, o1, o, t) /\ q[t] = x /\ o1[t] = y
  BY DEF MPlaces, Goes, Elsewhere

GoesOn(q, p, o, t, x) ==
    Goes(q, p, o, o, t, x, o[t]) /\ MPlaces(o, q) /\ Elsewhere(q, p, o, o, t) /\ q[t] = x

LEMMA GoesInPlace ==
    ASSUME NEW o, NEW p, MPlaces(o, p), NEW t \in Task, p[t] # "out", NEW x \in MPC,
           NEW q, q = [p EXCEPT ![t] = x]
    PROVE  GoesOn(q, p, o, t, x)
  BY DEF Goes, MPlaces, Elsewhere, GoesOn

LEMMA GoesHolders ==
    ASSUME NEW F, NEW o, NEW p, MHolders(F, o, p), NEW t \in Task, p[t] \notin Holding,
           NEW q, NEW o1, Elsewhere(q, p, o1, o, t), q[t] \notin Holding
    PROVE  MHolders(F, o1, q)
<1>1. \A u \in Task : q[u] \in Holding <=> p[u] \in Holding
  BY DEF Elsewhere
<1>2. \A u \in Task : p[u] \in Holding => o1[u] = o[u]
  BY DEF Elsewhere
<1> QED BY <1>1, <1>2 DEF MHolders

LEMMA GoesCounted ==
    ASSUME NEW c \in Int, NEW o, NEW p, MPlaces(o, p), MCounted(c, p),
           NEW t \in Task, NEW x, NEW y, NEW q, NEW o1, Goes(q, p, o1, o, t, x, y)
    PROVE  /\ MCounted(c + 1, q)
           /\ x \notin MEntering \/ p[t] \in MEntering => MCounted(c, q)
           /\ x \notin MEntering /\ p[t] \in MEntering => MCounted(c - 1, q)
<1> SUFFICES ASSUME NEW m, m = NumAt(p, MEntering), NEW l, l = NumAt(q, MEntering)
             PROVE  /\ c + 1 >= l
                    /\ x \notin MEntering \/ p[t] \in MEntering => c >= l
                    /\ x \notin MEntering /\ p[t] \in MEntering => c - 1 >= l
  BY DEF MCounted
<1>1. c >= m /\ DOMAIN p = Task /\ q = [p EXCEPT ![t] = x]
  BY DEF MPlaces, MCounted, Goes
<1>2. Moves(p, q, MEntering, t, x)
  BY ONLY <1>1, t \in Task, CountMoves
<1> QED BY <1>1, <1>2 DEF Moves

\* Task t goes elsewhere, and what it served is served.
Serves(w, P, R, o, p, w1, P1, R1, o1, q, t) ==
    /\ w \subseteq Task /\ Elsewhere(q, p, o1, o, t)
    /\ w1 \ {t} \subseteq w /\ \A u \in w1 \ {t} : o[u] \notin P1
    /\ \A u \in Task \ {t} : p[u] = "wai" /\ u \notin w /\ u \in R => u \in R1
    /\ t \in w1 => q[t] = "wai" /\ o1[t] \notin P1
    /\ q[t] = "flg" \/ t \in w1
       => o1[t] \in P1 \/ \E v \in Task : Witness(w1, R1, q, o1, v, o1[t])
    /\ \A u \in Task \ {t} :
          (p[u] = "flg" \/ u \in w1) /\ (o[u] \in P \/ Witness(w, R, p, o, t, o[u]))
          => o[u] \in P1 \/ \E v \in Task : Witness(w1, R1, q, o1, v, o[u])

LEMMA GoesServed ==
    ASSUME NEW w, NEW P, NEW R, NEW o, NEW p, MServed(w, P, o, p, R), NEW t \in Task,
           NEW w1, NEW P1, NEW R1, NEW o1, NEW q, Serves(w, P, R, o, p, w1, P1, R1, o1, q, t)
    PROVE  MServed(w1, P1, o1, q, R1)
<1>0. Elsewhere(q, p, o1, o, t) /\ w \subseteq Task /\ w1 \ {t} \subseteq w
  BY DEF Serves
<1>1. ASSUME NEW u \in w1 PROVE q[u] = "wai" /\ o1[u] \notin P1
  <2>1. CASE u = t
    BY <2>1 DEF Serves
  <2>2. CASE u # t
    <3>1. u \in w /\ u \in Task \ {t}
      BY <1>0, <2>2
    <3> QED BY <1>0, <3>1 DEF MServed, Elsewhere, Serves
  <2> QED BY <2>1, <2>2
<1>2. ASSUME NEW u \in Task, q[u] = "flg" \/ u \in w1
      PROVE  o1[u] \in P1 \/ \E v \in Task : Witness(w1, R1, q, o1, v, o1[u])
  <2>1. CASE u = t
    BY <1>2, <2>1 DEF Serves
  <2>2. CASE u # t
    <3>1. u \in Task \ {t} /\ o1[u] = o[u] /\ (p[u] = "flg" \/ u \in w1) /\ (u \in w1 => u \in w)
      BY <1>0, <1>2, <2>2 DEF Elsewhere
    <3>2. CASE o[u] \in P \/ Witness(w, R, p, o, t, o[u])
      BY <3>1, <3>2 DEF Serves
    <3>3. CASE ~(o[u] \in P \/ Witness(w, R, p, o, t, o[u]))
      <4>1. PICK v \in Task : Witness(w, R, p, o, v, o[u])
        BY <3>1, <3>3 DEF MServed
      <4>2. v \in Task \ {t} /\ q[v] = p[v] /\ o1[v] = o[v] /\ (v \in w1 => v \in w)
        BY <1>0, <3>3, <4>1 DEF Elsewhere
      <4>3. Witness(w1, R1, q, o1, v, o[u])
        BY <4>1, <4>2 DEF Witness, Serves
      <4> QED BY <3>1, <4>3
    <3> QED BY <3>2, <3>3
  <2> QED BY <2>1, <2>2
<1> QED BY <1>1, <1>2 DEF MServed

\* lock->wai is incremented.
LEMMA MAgreeInc ==
    ASSUME NEW w, NEW P, NEW F, NEW c, NEW o, NEW p, NEW R, MAgree(w, P, F, c, o, p, R),
           NEW t \in Task, t \notin w, p[t] = "out", NEW n \in FlgBit,
           NEW q, NEW o1, Goes(q, p, o1, o, t, "bts", n)
    PROVE  MAgree(w, P, F, c + 1, o1, q, R)
<1>1. /\ w \subseteq Task /\ c \in Int /\ MTypes(w, F, c + 1)
      /\ MPlaces(o, p) /\ MHolders(F, o, p) /\ MCounted(c, p) /\ MServed(w, P, o, p, R)
  BY DEF MAgree, MTypes
<1>2. MPlaces(o1, q) /\ Elsewhere(q, p, o1, o, t) /\ q[t] = "bts" /\ o1[t] = n
  <2>1. "bts" \in MPC /\ n \in FlgBit \cup {NoLock}
    BY DEF MPC
  <2> QED BY <1>1, <2>1, GoesPlaces
<1>3. MHolders(F, o1, q)
  BY <1>1, <1>2, GoesHolders DEF Holding
<1>4. MCounted(c + 1, q)
  BY <1>1, GoesCounted
<1>5. Serves(w, P, R, o, p, w, P, R, o1, q, t)
  BY <1>1, <1>2 DEF Serves, Witness, Trying, MServed
<1>6. MServed(w, P, o1, q, R)
  BY <1>1, <1>5, GoesServed
<1> QED BY <1>1, <1>2, <1>3, <1>4, <1>6 DEF MAgree

\* lock->flg: the bit was set, so somebody has the lock.
LEMMA MAgreeTaken ==
    ASSUME NEW w, NEW P, NEW F, NEW c, NEW o, NEW p, NEW R, MAgree(w, P, F, c, o, p, R),
           NEW t \in Task, t \notin w, p[t] = "bts", o[t] \in F,
           NEW q, q = [p EXCEPT ![t] = "flg"]
    PROVE  MAgree(w, P, F, c, o, q, R)
<1>1. /\ w \subseteq Task /\ c \in Int /\ MTypes(w, F, c) /\ o[t] \in FlgBit
      /\ MPlaces(o, p) /\ MHolders(F, o, p) /\ MCounted(c, p) /\ MServed(w, P, o, p, R)
  BY DEF MAgree, MTypes, MPlaces
<1>0. GoesOn(q, p, o, t, "flg")
  <2>1. "flg" \in MPC
    BY DEF MPC
  <2> QED BY <1>1, <2>1, GoesInPlace
<1>2. MPlaces(o, q) /\ Elsewhere(q, p, o, o, t) /\ q[t] = "flg" /\ Goes(q, p, o, o, t, "flg", o[t])
  BY ONLY <1>0 DEF GoesOn
<1>3. MHolders(F, o, q)
  BY <1>1, <1>2, GoesHolders DEF Holding
<1>4. MCounted(c, q)
  <2>1. p[t] \in MEntering
    BY DEF MEntering
  <2> QED BY <1>1, <1>2, <2>1, GoesCounted
<1>5. Serves(w, P, R, o, p, w, P, R, o, q, t)
  <2>1. PICK v \in Task : p[v] \in Holding /\ o[v] = o[t]
    BY <1>1 DEF MHolders
  <2>2. v # t /\ q[v] = p[v]
    BY <1>2, <2>1 DEF Holding, Elsewhere
  <2>3. Witness(w, R, q, o, v, o[t])
    BY <2>1, <2>2 DEF Witness, Holding, Trying
  <2>4. \A n : Witness(w, R, p, o, t, n) => n = o[t]
    BY DEF Witness
  <2> QED BY <1>1, <1>2, <2>3, <2>4 DEF Serves, MServed
<1>6. MServed(w, P, o, q, R)
  BY <1>1, <1>5, GoesServed
<1> QED BY <1>1, <1>2, <1>3, <1>4, <1>6 DEF MAgree

\* The bit was not set: the task has the lock.
LEMMA MAgreeGot ==
    ASSUME NEW w, NEW P, NEW F, NEW c, NEW o, NEW p, NEW R, MAgree(w, P, F, c, o, p, R),
           NEW t \in Task, t \notin w, p[t] = "bts", o[t] \notin F,
           NEW q, q = [p EXCEPT ![t] = "got"]
    PROVE  MAgree(w, P, F \cup {o[t]}, c, o, q, R)
<1>1. /\ w \subseteq Task /\ c \in Int /\ MTypes(w, F, c) /\ o[t] \in FlgBit
      /\ MPlaces(o, p) /\ MHolders(F, o, p) /\ MCounted(c, p) /\ MServed(w, P, o, p, R)
      /\ MTypes(w, F \cup {o[t]}, c)
  BY DEF MAgree, MTypes, MPlaces
<1>0. GoesOn(q, p, o, t, "got")
  <2>1. "got" \in MPC
    BY DEF MPC
  <2> QED BY <1>1, <2>1, GoesInPlace
<1>2. MPlaces(o, q) /\ Elsewhere(q, p, o, o, t) /\ q[t] = "got" /\ Goes(q, p, o, o, t, "got", o[t])
  BY ONLY <1>0 DEF GoesOn
<1>3. MHolders(F \cup {o[t]}, o, q)
  <2>1. q[t] \in Holding /\ p[t] \notin Holding
    BY <1>2 DEF Holding
  <2>2. \A u \in Task : q[u] \in Holding <=> p[u] \in Holding \/ u = t
    BY <1>2, <2>1 DEF Elsewhere
  <2> QED BY <1>1, <2>1, <2>2 DEF MHolders
<1>4. MCounted(c, q)
  <2>1. p[t] \in MEntering
    BY DEF MEntering
  <2> QED BY <1>1, <1>2, <2>1, GoesCounted
<1>5. Serves(w, P, R, o, p, w, P, R, o, q, t)
  <2>1. \A n : Witness(w, R, p, o, t, n) => Witness(w, R, q, o, t, n)
    BY <1>2 DEF Witness, Trying
  <2> QED BY <1>1, <1>2, <2>1 DEF Serves, MServed
<1>6. MServed(w, P, o, q, R)
  BY <1>1, <1>5, GoesServed
<1> QED BY <1>1, <1>2, <1>3, <1>4, <1>6 DEF MAgree

\* tk_wai_flg finds the bit of the event flag, and clears it.
LEMMA MAgreeMet ==
    ASSUME NEW w, NEW P, NEW F, NEW c, NEW o, NEW p, NEW R, MAgree(w, P, F, c, o, p, R),
           NEW t \in Task, t \notin w, p[t] = "flg",
           NEW q, q = [p EXCEPT ![t] = "bts"]
    PROVE  MAgree(w, P \ {o[t]}, F, c, o, q, R)
<1>1. /\ w \subseteq Task /\ c \in Int /\ MTypes(w, F, c) /\ o[t] \in FlgBit
      /\ MPlaces(o, p) /\ MHolders(F, o, p) /\ MCounted(c, p) /\ MServed(w, P, o, p, R)
  BY DEF MAgree, MTypes, MPlaces
<1>0. GoesOn(q, p, o, t, "bts")
  <2>1. "bts" \in MPC
    BY DEF MPC
  <2> QED BY <1>1, <2>1, GoesInPlace
<1>2. MPlaces(o, q) /\ Elsewhere(q, p, o, o, t) /\ q[t] = "bts" /\ Goes(q, p, o, o, t, "bts", o[t])
  BY ONLY <1>0 DEF GoesOn
<1>3. MHolders(F, o, q)
  BY <1>1, <1>2, GoesHolders DEF Holding
<1>4. MCounted(c, q)
  <2>1. p[t] \in MEntering
    BY DEF MEntering
  <2> QED BY <1>1, <1>2, <2>1, GoesCounted
<1>5. Serves(w, P, R, o, p, w, P \ {o[t]}, R, o, q, t)
  <2>1. Witness(w, R, q, o, t, o[t])
    BY <1>2 DEF Witness, Trying
  <2>2. \A n : ~Witness(w, R, p, o, t, n)
    BY DEF Witness, Trying
  <2>3. \A u \in w \ {t} : o[u] \notin P \ {o[t]}
    BY <1>1 DEF MServed
  <2> QED BY <1>1, <1>2, <2>1, <2>2, <2>3 DEF Serves
<1>6. MServed(w, P \ {o[t]}, o, q, R)
  BY <1>1, <1>5, GoesServed
<1> QED BY <1>1, <1>2, <1>3, <1>4, <1>6 DEF MAgree

\* It does not find it, and the task begins to wait.
LEMMA MAgreeWaits ==
    ASSUME NEW w, NEW P, NEW F, NEW c, NEW o, NEW p, NEW R, MAgree(w, P, F, c, o, p, R),
           NEW t \in Task, t \notin w, p[t] = "flg", o[t] \notin P,
           NEW q, q = [p EXCEPT ![t] = "wai"],
           NEW R1, \A u \in Task \ {t} : u \in R => u \in R1
    PROVE  MAgree(w \cup {t}, P, F, c, o, q, R1)
<1> DEFINE w1 == w \cup {t}
<1>1. /\ w \subseteq Task /\ c \in Int /\ MTypes(w1, F, c) /\ o[t] \in FlgBit
      /\ MPlaces(o, p) /\ MHolders(F, o, p) /\ MCounted(c, p) /\ MServed(w, P, o, p, R)
  BY DEF MAgree, MTypes, MPlaces
<1>0. GoesOn(q, p, o, t, "wai")
  <2>1. "wai" \in MPC
    BY DEF MPC
  <2> QED BY <1>1, <2>1, GoesInPlace
<1>2. MPlaces(o, q) /\ Elsewhere(q, p, o, o, t) /\ q[t] = "wai" /\ Goes(q, p, o, o, t, "wai", o[t])
  BY ONLY <1>0 DEF GoesOn
<1>3. MHolders(F, o, q)
  BY <1>1, <1>2, GoesHolders DEF Holding
<1>4. MCounted(c, q)
  <2>1. p[t] \in MEntering
    BY DEF MEntering
  <2> QED BY <1>1, <1>2, <2>1, GoesCounted
<1>5. Serves(w, P, R, o, p, w1, P, R1, o, q, t)
  <2>1. PICK v \in Task : Witness(w, R, p, o, v, o[t])
    BY <1>1 DEF MServed
  <2>2. v # t /\ q[v] = p[v]
    BY <1>2, <2>1 DEF Witness, Trying, Elsewhere
  <2>3. Witness(w1, R1, q, o, v, o[t])
    BY <2>1, <2>2 DEF Witness
  <2>4. \A n : ~Witness(w, R, p, o, t, n)
    BY DEF Witness, Trying
  <2>5. \A u \in w1 \ {t} : u \in w /\ o[u] \notin P
    BY <1>1 DEF MServed
  <2> QED BY <1>1, <1>2, <2>3, <2>4, <2>5 DEF Serves
<1> HIDE DEF w1
<1>6. MServed(w1, P, o, q, R1)
  BY <1>1, <1>5, GoesServed
<1> QED BY <1>1, <1>2, <1>3, <1>4, <1>6 DEF MAgree, w1

\* A task that serves nobody goes on to x, from where it has no lock.
LEMMA MAgreeGoesOn ==
    ASSUME NEW w, NEW P, NEW F, NEW c, NEW o, NEW p, NEW R, MAgree(w, P, F, c, o, p, R),
           NEW t \in Task, p[t] \notin Holding, NEW w1, w1 = w \ {t},
           NEW R1, \A u \in Task \ {t} : u \in R => u \in R1,
           NEW x \in MPC, x \notin Holding, x # "flg", x \notin MEntering \/ p[t] \in MEntering,
           NEW y \in FlgBit \cup {NoLock}, x # "out" => y \in FlgBit,
           NEW q, NEW o1, Goes(q, p, o1, o, t, x, y),
           \A n : Witness(w, R, p, o, t, n) => Witness(w1, R1, q, o1, t, n)
    PROVE  MAgree(w1, P, F, c, o1, q, R1)
<1>1. /\ w \subseteq Task /\ c \in Int /\ MTypes(w1, F, c)
      /\ MPlaces(o, p) /\ MHolders(F, o, p) /\ MCounted(c, p) /\ MServed(w, P, o, p, R)
  BY DEF MAgree, MTypes
<1>2. MPlaces(o1, q) /\ Elsewhere(q, p, o1, o, t) /\ q[t] = x
  BY <1>1, GoesPlaces
<1>3. MHolders(F, o1, q)
  BY <1>1, <1>2, GoesHolders
<1>4. MCounted(c, q)
  BY <1>1, GoesCounted
<1>5. Serves(w, P, R, o, p, w1, P, R1, o1, q, t)
  BY <1>1, <1>2 DEF Serves, MServed
<1>6. MServed(w1, P, o1, q, R1)
  BY <1>1, <1>5, GoesServed
<1> QED BY <1>1, <1>2, <1>3, <1>4, <1>6 DEF MAgree

\* lock->wai is decremented: the task has the lock, or fails.
LEMMA MAgreeDec ==
    ASSUME NEW w, NEW P, NEW F, NEW c, NEW o, NEW p, NEW R, MAgree(w, P, F, c, o, p, R),
           NEW t \in Task, t \notin w,
           NEW x, NEW y, \/ p[t] = "got" /\ x = "in" /\ y = o[t]
                         \/ p[t] = "fail" /\ x = "out" /\ y = NoLock,
           NEW q, NEW o1, Goes(q, p, o1, o, t, x, y)
    PROVE  MAgree(w, P, F, c - 1, o1, q, R)
<1>1. /\ w \subseteq Task /\ c \in Int /\ MTypes(w, F, c - 1) /\ o[t] \in FlgBit
      /\ MPlaces(o, p) /\ MHolders(F, o, p) /\ MCounted(c, p) /\ MServed(w, P, o, p, R)
  BY DEF MAgree, MTypes, MPlaces
<1>2. MPlaces(o1, q) /\ Elsewhere(q, p, o1, o, t) /\ q[t] = x /\ o1[t] = y
  <2>1. x \in MPC /\ y \in FlgBit \cup {NoLock} /\ (x # "out" => y \in FlgBit)
    BY <1>1 DEF MPC
  <2> QED BY <1>1, <2>1, GoesPlaces
<1>3. MHolders(F, o1, q)
  <2>1. CASE p[t] \in Holding
    <3>1. q[t] \in Holding /\ o1[t] = o[t]
      BY <1>2, <2>1 DEF Holding
    <3>2. \A u \in Task : (q[u] \in Holding <=> p[u] \in Holding) /\ o1[u] = o[u]
      BY <1>2, <2>1, <3>1 DEF Elsewhere
    <3> QED BY <1>1, <3>2 DEF MHolders
  <2>2. CASE p[t] \notin Holding
    <3>1. q[t] \notin Holding
      BY <1>2, <2>2 DEF Holding
    <3> QED BY <1>1, <1>2, <2>2, <3>1, GoesHolders
  <2> QED BY <2>1, <2>2
<1>4. MCounted(c - 1, q)
  <2>1. x \notin MEntering /\ p[t] \in MEntering
    BY DEF MEntering
  <2> QED BY <1>1, <2>1, GoesCounted
<1>5. Serves(w, P, R, o, p, w, P, R, o1, q, t)
  <2>1. \A n : Witness(w, R, p, o, t, n) => Witness(w, R, q, o1, t, n)
    BY <1>2 DEF Witness, Trying
  <2>2. q[t] # "flg"
    BY <1>2
  <2> QED BY <1>1, <1>2, <2>1, <2>2 DEF Serves, MServed
<1>6. MServed(w, P, o1, q, R)
  BY <1>1, <1>5, GoesServed
<1> QED BY <1>1, <1>2, <1>3, <1>4, <1>6 DEF MAgree

\* The bit of lock->flg is reset.
LEMMA MAgreeBr ==
    ASSUME NEW w, NEW P, NEW F, NEW c, NEW o, NEW p, NEW R, MAgree(w, P, F, c, o, p, R),
           NEW t \in Task, t \notin w, p[t] = "in",
           NEW q, q = [p EXCEPT ![t] = "unl"]
    PROVE  MAgree(w, P, F \ {o[t]}, c, o, q, R)
<1>1. /\ w \subseteq Task /\ c \in Int /\ MTypes(w, F \ {o[t]}, c) /\ o[t] \in FlgBit
      /\ MPlaces(o, p) /\ MHolders(F, o, p) /\ MCounted(c, p) /\ MServed(w, P, o, p, R)
  BY DEF MAgree, MTypes, MPlaces
<1>0. GoesOn(q, p, o, t, "unl")
  <2>1. "unl" \in MPC
    BY DEF MPC
  <2> QED BY <1>1, <2>1, GoesInPlace
<1>2. MPlaces(o, q) /\ Elsewhere(q, p, o, o, t) /\ q[t] = "unl" /\ Goes(q, p, o, o, t, "unl", o[t])
  BY ONLY <1>0 DEF GoesOn
<1>3. MHolders(F \ {o[t]}, o, q)
  <2>1. q[t] \notin Holding /\ p[t] \in Holding
    BY <1>2 DEF Holding
  <2>2. \A u \in Task : q[u] \in Holding <=> p[u] \in Holding /\ u # t
    BY <1>2, <2>1 DEF Elsewhere
  <2> QED BY <1>1, <2>1, <2>2 DEF MHolders
<1>4. MCounted(c, q)
  <2>1. "unl" \notin MEntering
    BY DEF MEntering
  <2> QED BY <1>1, <1>2, <2>1, GoesCounted
<1>5. Serves(w, P, R, o, p, w, P, R, o, q, t)
  <2>1. \A n : Witness(w, R, p, o, t, n) => Witness(w, R, q, o, t, n)
    BY <1>2 DEF Witness, Trying
  <2> QED BY <1>1, <1>2, <2>1 DEF Serves, MServed
<1>6. MServed(w, P, o, q, R)
  BY <1>1, <1>5, GoesServed
<1> QED BY <1>1, <1>2, <1>3, <1>4, <1>6 DEF MAgree

\* lock->wai is zero: nobody waits, nor will for an unlock that has been.
LEMMA MAgreeNobody ==
    ASSUME NEW w, NEW P, NEW F, NEW c, NEW o, NEW p, NEW R, MAgree(w, P, F, c, o, p, R),
           NEW t \in Task, p[t] = "unl", c = 0,
           NEW q, NEW o1, Goes(q, p, o1, o, t, "out", NoLock)
    PROVE  MAgree(w, P, F, c, o1, q, R)
<1>1. /\ w \subseteq Task /\ c \in Int /\ MTypes(w, F, c)
      /\ MPlaces(o, p) /\ MHolders(F, o, p) /\ MCounted(c, p) /\ MServed(w, P, o, p, R)
  BY DEF MAgree, MTypes, MPlaces
<1>2. MPlaces(o1, q) /\ Elsewhere(q, p, o1, o, t) /\ q[t] = "out"
  <2>1. "out" \in MPC /\ NoLock \in FlgBit \cup {NoLock}
    BY DEF MPC
  <2> QED BY <1>1, <2>1, GoesPlaces
<1>3. MHolders(F, o1, q)
  BY <1>1, <1>2, GoesHolders DEF Holding
<1>4. MCounted(c, q)
  <2>1. "out" \notin MEntering
    BY DEF MEntering
  <2> QED BY <1>1, <2>1, GoesCounted
<1>5. w = {} /\ \A u \in Task : p[u] # "flg"
  <2>1. NumAt(p, MEntering) = 0
    BY <1>1, TasksAtFinite DEF MCounted, NumAt
  <2>2. \A u \in Task : p[u] \notin MEntering
    BY ONLY <2>1, TasksAtFinite DEF NumAt
  <2> QED BY <1>1, <2>2 DEF MEntering, MServed
<1>6. MServed(w, P, o1, q, R)
  BY <1>2, <1>5 DEF MServed, Elsewhere
<1> QED BY <1>1, <1>2, <1>3, <1>4, <1>6 DEF MAgree

\* tk_set_flg: the bit stays, or a task that waits for it clears it and will
\* try to take the lock.
LEMMA MAgreeSet ==
    ASSUME NEW w, NEW P, NEW F, NEW c, NEW o, NEW p, NEW R, MAgree(w, P, F, c, o, p, R),
           NEW t \in Task, t \notin w, p[t] = "set",
           NEW q, NEW o1, Goes(q, p, o1, o, t, "out", NoLock)
    PROVE  /\ (\A u \in w : o[u] # o[t])
              => \A R1 : (\A u \in Task : u \in R => u \in R1)
                         => MAgree(w, P \cup {o[t]}, F, c, o1, q, R1)
           /\ \A v \in w : \A R1 :
                o[v] = o[t] /\ (\A u \in Task : u \in R \/ u = v => u \in R1)
                => MAgree(w \ {v}, P \ {o[t]}, F, c, o1, q, R1)
<1>1. /\ w \subseteq Task /\ c \in Int /\ MTypes(w, F, c)
      /\ MPlaces(o, p) /\ MHolders(F, o, p) /\ MCounted(c, p) /\ MServed(w, P, o, p, R)
  BY DEF MAgree, MTypes, MPlaces
<1>2. MPlaces(o1, q) /\ Elsewhere(q, p, o1, o, t) /\ q[t] = "out"
  <2>1. "out" \in MPC /\ NoLock \in FlgBit \cup {NoLock}
    BY DEF MPC
  <2> QED BY <1>1, <2>1, GoesPlaces
<1>3. MHolders(F, o1, q)
  BY <1>1, <1>2, GoesHolders DEF Holding
<1>4. MCounted(c, q)
  <2>1. "out" \notin MEntering
    BY DEF MEntering
  <2> QED BY <1>1, <2>1, GoesCounted
<1>5. \A n : Witness(w, R, p, o, t, n) => n = o[t]
  BY DEF Witness
<1>6. ASSUME \A u \in w : o[u] # o[t], NEW R1, \A u \in Task : u \in R => u \in R1
      PROVE  MAgree(w, P \cup {o[t]}, F, c, o1, q, R1)
  <2> DEFINE P1 == P \cup {o[t]}
  <2>1. \A u \in w \ {t} : o[u] \notin P1
    BY <1>1, <1>6 DEF MServed
  <2>2. Serves(w, P, R, o, p, w, P1, R1, o1, q, t)
    BY <1>1, <1>2, <1>5, <1>6, <2>1 DEF Serves
  <2> HIDE DEF P1
  <2>3. MServed(w, P1, o1, q, R1)
    BY <1>1, <2>2, GoesServed
  <2> QED BY <1>1, <1>2, <1>3, <1>4, <2>3 DEF MAgree, P1
<1>7. ASSUME NEW v \in w, o[v] = o[t], NEW R1, \A u \in Task : u \in R \/ u = v => u \in R1
      PROVE  MAgree(w \ {v}, P \ {o[t]}, F, c, o1, q, R1)
  <2> DEFINE P1 == P \ {o[t]}
             w1 == w \ {v}
  <2>1. \A u \in w1 \ {t} : o[u] \notin P1
    BY <1>1 DEF MServed
  <2>2. v \in Task /\ v # t /\ p[v] = "wai" /\ q[v] = "wai" /\ o1[v] = o[t] /\ v \notin w1 /\ v \in R1
    BY <1>1, <1>2, <1>7 DEF MServed, Elsewhere
  <2>3. Witness(w1, R1, q, o1, v, o[t])
    BY <2>2 DEF Witness
  <2>4. MTypes(w1, F, c) /\ w1 \subseteq w
    BY <1>1 DEF MTypes
  <2>5. \A n : n \in P => n \in P1 \/ n = o[t]
    OBVIOUS
  <2> HIDE DEF P1, w1
  <2>6. Serves(w, P, R, o, p, w1, P1, R1, o1, q, t)
    BY <1>1, <1>2, <1>5, <1>7, <2>1, <2>2, <2>3, <2>4, <2>5 DEF Serves
  <2>7. MServed(w1, P1, o1, q, R1)
    BY <1>1, <2>6, GoesServed
  <2> QED BY <1>1, <1>2, <1>3, <1>4, <2>4, <2>7 DEF MAgree, P1, w1
<1> QED BY <1>6, <1>7

\* The kernel does something else.
LEMMA MAgreeSame ==
    ASSUME NEW w, NEW P, NEW F, NEW c, NEW o, NEW p, NEW R, MAgree(w, P, F, c, o, p, R),
           NEW R1, \A u \in Task : p[u] = "wai" /\ u \in R => u \in R1
    PROVE  MAgree(w, P, F, c, o, p, R1)
<1>1. \A u \in Task : \A n : Witness(w, R, p, o, u, n) => Witness(w, R1, p, o, u, n)
  BY DEF Witness
<1>2. MServed(w, P, o, p, R)
  BY DEF MAgree
<1>3. MServed(w, P, o, p, R1)
  BY <1>1, <1>2 DEF MServed
<1> QED BY <1>3 DEF MAgree

(***************************************************************************)
(* The kernel of a fast multi-lock: every task that waits, waits for the   *)
(* bit of its lock in the event flag, and clears it.                       *)
(***************************************************************************)
MWant(n) == [waiptn |-> {n}, wfmode |-> {"ORW", "BITCLR"}]

LEMMA Wanted ==
    ASSUME NEW P, NEW n
    PROVE  (Cond(P, MWant(n)) <=> n \in P) /\ Cleared(P, MWant(n)) = P \ {n}
<1>1. /\ MWant(n).waiptn = {n} /\ "ORW" \in MWant(n).wfmode /\ "BITCLR" \in MWant(n).wfmode
      /\ "CLR" \notin MWant(n).wfmode
  BY DEF MWant
<1>2. Cond(P, MWant(n)) <=> n \in P
  BY <1>1 DEF Cond
<1>3. Cleared(P, MWant(n)) = P \ {n}
  BY <1>1 DEF Cleared
<1> QED BY <1>2, <1>3

MFlag(k) ==
    /\ FlgField \subseteq DOMAIN k
    /\ k.flgid[mid] /\ k.flgatr[mid] = {"TPRI", "WMUL"}
    /\ mid \in DOMAIN k.flgptn

WaitsForMLock(k, o, t) ==
    k.wid[t] = mid /\ k.winfo[t] = MWant(o[t]) /\ k.wspec[t] = "flg_tpri"

MState(k, o) ==
    /\ KState(k) /\ MFlag(k)
    /\ \A t \in Task : k.state[t] \in WaitBit => WaitsForMLock(k, o, t)

\* The task of a TCB that is in the library exists.
Present(k, p) == \A t \in Task : p[t] # "out" => k.state[t] # "NONEXIST"

Woken(k) == {t \in Task : k.wercd[t] = "E_OK"}

LEMMA MFlagKept ==
    ASSUME NEW k, MFlag(k), NEW k1, Only(k1, k, TaskField)
    PROVE  MFlag(k1) /\ k1.flgptn = k.flgptn
<1>1. \A f \in FlgField : f \in DOMAIN k \ TaskField
  BY FlgObject DEF MFlag
<1> QED BY <1>1 DEF MFlag, FlgField, Only

LEMMA MQueue ==
    ASSUME NEW k, NEW o, MState(k, o)
    PROVE  /\ k.que[mid] \in Seq(Task) /\ IsInjective(k.que[mid])
           /\ \A i \in 1..Len(k.que[mid]) : /\ k.que[mid][i] \in Waiting(k)
                                            /\ k.winfo[k.que[mid][i]] = MWant(o[k.que[mid][i]])
           /\ \A t \in Waiting(k) : \E i \in 1..Len(k.que[mid]) : k.que[mid][i] = t
<1> DEFINE q == k.que[mid]
<1>1. /\ q \in Seq(Task) /\ IsInjective(q)
      /\ \A t \in Task : InRing(q, t) <=> k.wid[t] = mid
  BY FlgObject, RingHasWaiters DEF MState
<1>2. \A t \in Task : k.wid[t] = mid <=> t \in Waiting(k)
  BY FlgObject DEF MState, WaitsForMLock, Waiting, KState, WaitsOnly
<1> HIDE DEF q
<1>3. \A i \in 1..Len(q) : q[i] \in Task /\ InRing(q, q[i])
  BY <1>1 DEF InRing
<1>4. \A i \in 1..Len(q) : q[i] \in Waiting(k) /\ k.winfo[q[i]] = MWant(o[q[i]])
  BY <1>1, <1>2, <1>3 DEF Waiting, MState, WaitsForMLock
<1>5. \A t \in Waiting(k) : \E i \in 1..Len(q) : q[i] = t
  BY <1>1, <1>2 DEF InRing, Waiting
<1> QED BY <1>1, <1>4, <1>5 DEF q

\* No wait begins or ends.
LEMMA MUndisturbed ==
    ASSUME NEW k, NEW o, MState(k, o), NEW k1, Undisturbed(k1, k),
           NEW p, Present(k, p)
    PROVE  /\ MState(k1, o) /\ Waiting(k1) = Waiting(k) /\ k1.flgptn = k.flgptn
           /\ Present(k1, p) /\ \A u \in Task : p[u] = "wai" /\ u \in Woken(k) => u \in Woken(k1)
<1>1. KState(k1) /\ Only(k1, k, TaskField) /\ \A u \in Task : Kept(k1, k, u)
  BY DEF Undisturbed
<1>2. MFlag(k1) /\ k1.flgptn = k.flgptn
  BY <1>1, MFlagKept DEF MState
<1>3. Present(k1, p) /\ \A u \in Task : p[u] = "wai" /\ u \in Woken(k) => u \in Woken(k1)
  BY <1>1 DEF Present, Kept, Woken
<1> QED BY <1>1, <1>2, <1>3 DEF MState, WaitsForMLock, Waiting, Kept

\* The wait of one task ends.
LEMMA MOneLess ==
    ASSUME NEW k, NEW o, MState(k, o), NEW t \in Task, NEW k1, Concerns(k1, k, t),
           k1.state[t] \notin WaitBit, NEW o1, \A u \in Task \ {t} : o1[u] = o[u]
    PROVE  /\ MState(k1, o1) /\ Waiting(k1) = Waiting(k) \ {t} /\ k1.flgptn = k.flgptn
           /\ \A u \in Task \ {t} : u \in Woken(k1) <=> u \in Woken(k)
           /\ \A u \in Task \ {t} : k1.state[u] = k.state[u]
<1>1. KState(k1) /\ Only(k1, k, TaskField) /\ \A u \in Task \ {t} : SameTask(k1, k, u)
  BY DEF Concerns
<1>2. MFlag(k1) /\ k1.flgptn = k.flgptn
  BY <1>1, MFlagKept DEF MState
<1>3. /\ \A u \in Task \ {t} : u \in Woken(k1) <=> u \in Woken(k)
      /\ \A u \in Task \ {t} : k1.state[u] = k.state[u]
  BY <1>1 DEF SameTask, Woken
<1> QED BY <1>1, <1>2, <1>3 DEF MState, WaitsForMLock, Waiting, SameTask

\* The pattern of the event flag is set.
PatternIs(k1, k, o, v) ==
    /\ MState(k1, o) /\ Waiting(k1) = Waiting(k) /\ k1.flgptn[mid] = v
    /\ k1.que = k.que /\ k1.winfo = k.winfo /\ k1.state = k.state
    /\ Woken(k1) = Woken(k)

LEMMA MPattern ==
    ASSUME NEW k, NEW o, MState(k, o), NEW v, NEW k1, k1 = [k EXCEPT !.flgptn[mid] = v]
    PROVE  PatternIs(k1, k, o, v)
<1>1. DOMAIN k1 = DOMAIN k /\ \A f \in DOMAIN k \ {"flgptn"} : k1[f] = k[f]
  OBVIOUS
<1>2. FlgField \subseteq DOMAIN k /\ mid \in DOMAIN k.flgptn
  BY DEF MState, MFlag
<1>3. k1.flgptn = [k.flgptn EXCEPT ![mid] = v]
  BY <1>2 DEF FlgField
<1>4. MFlag(k1) /\ k1.flgptn[mid] = v
  BY <1>1, <1>2, <1>3 DEF MState, MFlag, FlgField
<1>5. /\ TaskField \subseteq DOMAIN k /\ "flgptn" \notin TaskField
      /\ k.wercd = [u \in Task |-> k.wercd[u]] /\ DOMAIN k.wercd = Task
  BY StateFacts, FlgObject DEF MState, TaskField, FlgField, WaitTypes
<1>6. /\ TaskField \subseteq DOMAIN k1 /\ \A f \in TaskField : k1[f] = k[f]
  BY <1>1, <1>5
<1>7. /\ KState(k1) /\ k1.state = k.state /\ k1.wid = k.wid /\ k1.winfo = k.winfo
      /\ k1.wspec = k.wspec /\ k1.que = k.que /\ k1.wercd = k.wercd
  <2>1. KState(k) /\ k1.wercd = k.wercd
    BY <1>6 DEF MState, TaskField, KernelField
  <2>2. /\ KState(k1) /\ k1.state = k.state /\ k1.wid = k.wid /\ k1.winfo = k.winfo
        /\ k1.wspec = k.wspec /\ k1.que = k.que
    BY ONLY <1>5, <1>6, <2>1, OtherFields
  <2> QED BY <2>1, <2>2
<1> QED BY <1>4, <1>7 DEF MState, WaitsForMLock, Waiting, Woken, PatternIs

LEMMA MNumbers ==
    ASSUME NEW k, NEW o, MState(k, o), NEW t \in Task, t \notin Waiting(k),
           NEW o1, \A u \in Task \ {t} : o1[u] = o[u]
    PROVE  MState(k, o1)
  BY DEF MState, WaitsForMLock, Waiting

\* tk_set_flg of the bit n by a task.
BitSet(k1, k, o, n) ==
    /\ MState(k1, o)
    /\ \A u \in Task : k.state[u] # "NONEXIST" => k1.state[u] # "NONEXIST"
    /\ \A u \in Task : u \in Woken(k) => u \in Woken(k1)
    /\ \/ /\ \A u \in Waiting(k) : o[u] # n
          /\ Waiting(k1) = Waiting(k) /\ k1.flgptn[mid] = k.flgptn[mid] \cup {n}
       \/ \E v \in Waiting(k) :
             /\ o[v] = n /\ v \in Woken(k1)
             /\ Waiting(k1) = Waiting(k) \ {v} /\ k1.flgptn[mid] = k.flgptn[mid] \ {n}

LEMMA MBitSet ==
    ASSUME NEW k, NEW o, MState(k, o), NEW n,
           \A u \in Waiting(k) : o[u] \notin k.flgptn[mid]
    PROVE  BitSet(ServeFlg([k EXCEPT !.flgptn[mid] = @ \cup {n}], mid), k, o, n)
<1> DEFINE k0 == [k EXCEPT !.flgptn[mid] = @ \cup {n}]
           P == k.flgptn[mid]
           q == k0.que[mid]
<1>1. /\ MState(k0, o) /\ Waiting(k0) = Waiting(k) /\ k0.flgptn[mid] = P \cup {n}
      /\ k0.que = k.que /\ k0.winfo = k.winfo /\ k0.state = k.state /\ Woken(k0) = Woken(k)
  <2>1. k0 = [k EXCEPT !.flgptn[mid] = P \cup {n}]
    OBVIOUS
  <2> HIDE DEF k0
  <2>2. MState(k, o)
    OBVIOUS
  <2>3. PatternIs(k0, k, o, P \cup {n})
    BY ONLY <2>1, <2>2, MPattern
  <2> QED BY ONLY <2>3 DEF PatternIs
<1> SUFFICES BitSet(ServeFlg(k0, mid), k, o, n)
  OBVIOUS
<1> HIDE DEF k0
<1>2. /\ q \in Seq(Task) /\ IsInjective(q)
      /\ \A i \in 1..Len(q) : q[i] \in Waiting(k) /\ k0.winfo[q[i]] = MWant(o[q[i]])
      /\ \A t \in Waiting(k) : \E i \in 1..Len(q) : q[i] = t
  BY <1>1, MQueue
<1> HIDE DEF q, P
<1>3. ASSUME NEW i \in 1..Len(q)
      PROVE  Cond(k0.flgptn[mid], k0.winfo[q[i]]) <=> o[q[i]] = n
  <2>1. Cond(P \cup {n}, MWant(o[q[i]])) <=> o[q[i]] \in P \cup {n}
    BY Wanted
  <2>2. o[q[i]] \notin P
    BY <1>2 DEF P
  <2> QED BY <1>1, <1>2, <2>1, <2>2
<1>4. CASE \A u \in Waiting(k) : o[u] # n
  <2>1. \A i \in 1..Len(q) : ~Cond(k0.flgptn[mid], k0.winfo[q[i]])
    BY <1>2, <1>3, <1>4
  <2>2. ServeFlg(k0, mid) = k0
    BY <1>2, <2>1, ServeFlgNobody DEF q
  <2> QED BY <1>1, <1>4, <2>2 DEF BitSet, P
<1>5. ASSUME NEW x \in Waiting(k), o[x] = n PROVE BitSet(ServeFlg(k0, mid), k, o, n)
  <2> DEFINE I == {i \in 1..Len(q) : o[q[i]] = n}
  <2>1. I \in SUBSET Nat /\ I # {}
    BY <1>2, <1>5
  <2>2. PICK i \in I : \A j \in I : i <= j
    BY <2>1, LeastElement
  <2>3. i \in 1..Len(q) /\ o[q[i]] = n /\ \A j \in 1..Len(q) : j < i => o[q[j]] # n
    BY <1>2, <2>2
  <2> DEFINE t == q[i]
             ke == EndWait(k0, t, "E_OK")
             k1 == Freed(k0, mid, t)
  <2>4. t \in Task /\ t \in Waiting(k) /\ k0.state[t] \in WaitBit /\ o[t] = n
        /\ k0.winfo[t] = MWant(n)
    BY <1>1, <1>2, <2>3 DEF Waiting
  <2> HIDE DEF t, I
  <2>5. WaitOver(ke, k0, t, "E_OK")
    BY <1>1, <2>4, EndWaitState DEF MState
  <2> HIDE DEF ke
  <2>6. /\ Concerns(ke, k0, t) /\ ke.state[t] \notin WaitBit /\ ke.wercd[t] = "E_OK"
        /\ ke.state[t] # "NONEXIST"
    BY <2>5, ATaskWaits DEF WaitOver
  <2>7. /\ MState(ke, o) /\ Waiting(ke) = Waiting(k0) \ {t}
        /\ \A u \in Task \ {t} : u \in Woken(ke) <=> u \in Woken(k0)
        /\ \A u \in Task \ {t} : ke.state[u] = k0.state[u]
    BY <1>1, <2>4, <2>6, MOneLess
  <2>8. k1 = [ke EXCEPT !.flgptn[mid] = P \ {n}]
    <3>1. Left(k0, mid, t) = (P \cup {n}) \ {n}
      <4>1. k0.flgptn[mid] = P \cup {n} /\ k0.winfo[t] = MWant(n)
        BY ONLY <1>1, <2>4
      <4>2. Cleared(P \cup {n}, MWant(n)) = (P \cup {n}) \ {n}
        BY ONLY Wanted
      <4> QED BY ONLY <4>1, <4>2 DEF Left
    <3>2. Left(k0, mid, t) = P \ {n}
      BY <3>1
    <3> QED BY <3>2 DEF Freed, ke
  <2> HIDE DEF k1, P
  <2>9. /\ MState(k1, o) /\ Waiting(k1) = Waiting(ke) /\ k1.flgptn[mid] = P \ {n}
        /\ k1.winfo = ke.winfo /\ k1.state = ke.state /\ Woken(k1) = Woken(ke)
    <3>1. PatternIs(k1, ke, o, P \ {n})
      BY ONLY <2>7, <2>8, MPattern
    <3> QED BY ONLY <3>1 DEF PatternIs
  <2>10. ServeFlg(k0, mid) = k1
    <3>1. \A j \in 1..Len(q) : j > i => ~Cond(k1.flgptn[mid], k1.winfo[q[j]])
      <4> SUFFICES ASSUME NEW j \in 1..Len(q), j > i PROVE ~Cond(k1.flgptn[mid], k1.winfo[q[j]])
        OBVIOUS
      <4>1. q[j] # t /\ q[j] \in Waiting(k) /\ q[j] \in Task
        BY <1>2, <2>3 DEF IsInjective, Waiting, t
      <4>2. k1.winfo[q[j]] = MWant(o[q[j]])
        BY <1>2, <2>6, <2>9, <4>1 DEF Concerns, SameTask
      <4>3. o[q[j]] \notin k1.flgptn[mid]
        BY <2>9, <4>1 DEF P
      <4> QED BY <4>2, <4>3, Wanted
    <3>2. \A j \in 1..Len(q) : j < i => ~Cond(k0.flgptn[mid], k0.winfo[q[j]])
      BY <1>3, <2>3
    <3>3. Cond(k0.flgptn[mid], k0.winfo[q[i]])
      BY <1>3, <2>3
    <3>4. q = k0.que[mid] /\ k1 = Freed(k0, mid, q[i]) /\ q \in Seq(Task) /\ i \in 1..Len(q)
      BY <1>2, <2>3 DEF q, k1, t
    <3> QED BY ONLY <3>1, <3>2, <3>3, <3>4, ServeFlgOne
  <2>11. t \in Woken(k1)
    BY <2>4, <2>6, <2>9 DEF Woken
  <2> QED BY <1>1, <2>4, <2>6, <2>7, <2>9, <2>10, <2>11 DEF BitSet, P
<1> QED BY <1>4, <1>5

\* tk_wai_flg: the task begins to wait.
BeginsWait(k1, k, o, t) ==
    /\ MState(k1, o) /\ Waiting(k1) = Waiting(k) \cup {t} /\ k1.flgptn = k.flgptn
    /\ \A u \in Task \ {t} : u \in Woken(k) => u \in Woken(k1)
    /\ \A u \in Task : k.state[u] # "NONEXIST" => k1.state[u] # "NONEXIST"

LEMMA MWaited ==
    ASSUME NEW k, NEW o, MState(k, o), NEW t \in Task, k.state[t] = "READY", NEW tmout,
           NEW tpri, tpri = ("TPRI" \in k.flgatr[mid]),
           NEW k1, k1 = GcbMakeWait(k, t, mid, mid, tpri, "flg_tpri", MWant(o[t]), tmout)
    PROVE  BeginsWait(k1, k, o, t)
<1>1. "TPRI" \in k.flgatr[mid] /\ KState(k)
  BY DEF MState, MFlag
<1>2. WaitBegun(k1, k, t, mid, "flg_tpri", MWant(o[t]))
  BY <1>1, FlgObject, GcbMakeWaitState
<1>3. /\ KState(k1) /\ Only(k1, k, TaskField)
      /\ \A u \in Task \ {t} : SameTask(k1, k, u)
      /\ k1.state[t] \in WaitBit /\ k1.state[t] # "NONEXIST" /\ WaitsForMLock(k1, o, t)
  BY <1>2, ATaskWaits DEF WaitBegun, Concerns, WaitsForMLock
<1>4. MFlag(k1) /\ k1.flgptn = k.flgptn
  BY <1>3, MFlagKept DEF MState
<1>5. MState(k1, o)
  BY <1>3, <1>4 DEF MState, WaitsForMLock, SameTask
<1>6. Waiting(k1) = Waiting(k) \cup {t}
  BY <1>3 DEF Waiting, SameTask
<1>7. /\ \A u \in Task \ {t} : u \in Woken(k) => u \in Woken(k1)
      /\ \A u \in Task : k.state[u] # "NONEXIST" => k1.state[u] # "NONEXIST"
  BY <1>3 DEF SameTask, Woken
<1> QED BY <1>4, <1>5, <1>6, <1>7 DEF BeginsWait

\* A wait for the event flag that ends without its bit leaves nothing behind.
LEMMA MHooks ==
    ASSUME LockHooks, NEW k, NEW o, MState(k, o), NEW t \in Waiting(k), NEW k0
    PROVE  RelWaiHook(k0, k.wid[t], k.wspec[t]) = k0
<1>1. k.wspec[t] = "flg_tpri" /\ "flg_tpri" \notin SemWSpec
  BY DEF MState, WaitsForMLock, Waiting, SemWSpec
<1> QED BY <1>1 DEF LockHooks, LockRelWai

\* A wait that ends without its bit.
EndsWait(k1, k, o, t) ==
    /\ MState(k1, o) /\ Waiting(k1) = Waiting(k) \ {t} /\ k1.flgptn = k.flgptn
    /\ \A u \in Task \ {t} : u \in Woken(k) => u \in Woken(k1)
    /\ \A u \in Task : k.state[u] # "NONEXIST" => k1.state[u] # "NONEXIST"

LEMMA MReleased ==
    ASSUME LockHooks, NEW k, NEW o, MState(k, o), NEW t \in Waiting(k), NEW ercd
    PROVE  EndsWait(ReleaseFailed(k, t, ercd), k, o, t)
<1> DEFINE k1 == EndWait(k, t, ercd)
<1>1. ReleaseFailed(k, t, ercd) = k1
  BY MHooks DEF ReleaseFailed
<1>2. t \in Task /\ k.state[t] \in WaitBit /\ KState(k)
  BY DEF Waiting, MState
<1>3. WaitOver(k1, k, t, ercd)
  BY <1>2, EndWaitState
<1> HIDE DEF k1
<1>4. Concerns(k1, k, t) /\ k1.state[t] \notin WaitBit /\ k1.state[t] # "NONEXIST"
  BY <1>3, ATaskWaits DEF WaitOver
<1>5. /\ MState(k1, o) /\ Waiting(k1) = Waiting(k) \ {t} /\ k1.flgptn = k.flgptn
      /\ \A u \in Task \ {t} : u \in Woken(k1) <=> u \in Woken(k)
      /\ \A u \in Task \ {t} : k1.state[u] = k.state[u]
  BY <1>2, <1>4, MOneLess
<1> QED BY <1>1, <1>4, <1>5 DEF EndsWait

LEMMA MTerminated ==
    ASSUME LockHooks, NEW k, NEW o, MState(k, o), NEW t \in Task, k.state[t] \in Alive,
           NEW o1, \A u \in Task \ {t} : o1[u] = o[u]
    PROVE  LET k0 == [Detach(k, t) EXCEPT !.wid[t] = NoObj, !.winfo[t] = NoInfo]
               k1 == IF k.state[t] \in WaitBit THEN RelWaiHook(k0, k.wid[t], k.wspec[t]) ELSE k0
           IN  EndsWait(MakeDormant(k1, t), k, o1, t)
<1> DEFINE k0 == [Detach(k, t) EXCEPT !.wid[t] = NoObj, !.winfo[t] = NoInfo]
           k1 == IF k.state[t] \in WaitBit THEN RelWaiHook(k0, k.wid[t], k.wspec[t]) ELSE k0
           k2 == MakeDormant(k0, t)
<1>1. KState(k)
  BY DEF MState
<1>2. TakenOut(k0, k, t)
  BY <1>1, DetachState DEF Withdrawn
<1> HIDE DEF k0
<1>3. k1 = k0
  BY MHooks DEF Waiting
<1>4. Dormant(k2, k, t)
  BY <1>1, <1>2, DormantState
<1> HIDE DEF k2
<1>5. Concerns(k2, k, t) /\ k2.state[t] \notin WaitBit /\ k2.state[t] # "NONEXIST"
  BY <1>4, ATaskWaits DEF Dormant
<1>6. /\ MState(k2, o1) /\ Waiting(k2) = Waiting(k) \ {t} /\ k2.flgptn = k.flgptn
      /\ \A u \in Task \ {t} : u \in Woken(k2) <=> u \in Woken(k)
      /\ \A u \in Task \ {t} : k2.state[u] = k.state[u]
  BY <1>5, MOneLess
<1> HIDE DEF k1
<1>7. MakeDormant(k1, t) = k2
  BY <1>3 DEF k2
<1>8. EndsWait(k2, k, o1, t)
  BY <1>5, <1>6 DEF EndsWait
<1> QED BY <1>7, <1>8 DEF k1, k0

\* A task that waits for the event flag has a new priority.
LEMMA MReordered ==
    ASSUME LockHooks, NEW k, NEW o, MState(k, o), NEW t \in Waiting(k), NEW p \in Pri
    PROVE  Undisturbed(ChgPriHook([k EXCEPT !.priority[t] = p], t), k)
<1> DEFINE k0 == [k EXCEPT !.priority[t] = p]
           k2 == GcbChangePri(k0, t, k0.wid[t])
<1>1. /\ KState(k) /\ t \in Task /\ k.state[t] \in WaitBit
      /\ k.wid[t] = mid /\ k.wspec[t] = "flg_tpri" /\ mid # NoObj
  BY FlgObject DEF MState, WaitsForMLock, Waiting
<1>2. k0.wspec[t] = "flg_tpri"
  BY <1>1
<1>3. Undisturbed(k2, k)
  BY <1>1, WaiterPriorityState
<1>4. ChgPriHook(k0, t) = k2
  <2>1. ChgPriHook(k0, t) = LockChgPri(k0, t)
    BY DEF LockHooks
  <2> HIDE DEF k0
  <2>2. LockChgPri(k0, t) = FlgChgPri(k0, t)
    BY <1>2 DEF LockChgPri
  <2> QED BY <2>1, <2>2 DEF FlgChgPri
<1> HIDE DEF k2, k0
<1>5. Undisturbed(ChgPriHook(k0, t), k)
  BY <1>3, <1>4
<1> QED BY <1>5 DEF k0

(***************************************************************************)
(* The fast multi-lock.                                                    *)
(***************************************************************************)
\* The inductive invariant.
MLockInv ==
    /\ MState(kn, no) /\ TaskControl /\ Present(kn, pc)
    /\ MAgree(Waiting(kn), kn.flgptn[mid], flg, wai, no, pc, Woken(kn))

LEMMA MLockFirst == MLockInit => MLockInv
<1> SUFFICES ASSUME MLockInit PROVE MLockInv
  OBVIOUS
<1> DEFINE k0 == MakeReady(CreateTcb(InitKernel, 0), 1)
           k1 == WithNoWait(k0)
           k2 == WithFreeEventFlags(WithFreeSemaphores(k1))
<1>1. kn = [k2 EXCEPT !.flgid[mid] = TRUE, !.flgatr[mid] = {"TPRI", "WMUL"}, !.flgptn[mid] = {}]
  BY DEF MLockInit, CreateMLock, WithFreeLockObjects
<1>2. FirstState(k1) /\ DOMAIN k1 = TaskField
  <2>1. PICK r : FirstTask(k0, r)
    BY FirstTaskReady
  <2> HIDE DEF k0
  <2> QED BY <2>1, NoWaitState
<1> HIDE DEF k1
<1>3. FirstState(k2) /\ FlgField \subseteq DOMAIN k2 /\ \A f \in FlgField : DOMAIN k2[f] = FLG
  BY <1>2, FreeLockObjects
<1> HIDE DEF k2
<1>4. /\ DOMAIN kn = DOMAIN k2 /\ \A f \in DOMAIN k2 \ FlgField : kn[f] = k2[f]
  BY <1>1 DEF FlgField
<1>5. MFlag(kn) /\ kn.flgptn[mid] = {}
  BY <1>1, <1>3, MLockAssumption DEF MFlag, FlgField
<1>6. FirstState(kn)
  <2>1. TaskField \subseteq DOMAIN k2
    BY <1>3, StateFacts DEF FirstState, TaskField
  <2> QED BY <1>3, <1>4, <2>1, FirstStateKept, FlgObject
<1>7. Waiting(kn) = {} /\ MState(kn, no)
  BY <1>5, <1>6, ATaskWaits DEF Waiting, FirstState, MState
<1>8. TaskControl
  BY DEF MLockInit, TaskControl, InTask
<1>9. /\ pc = [t \in Task |-> "out"] /\ no = [t \in Task |-> NoLock] /\ flg = {} /\ wai = 0
  BY DEF MLockInit
<1>10. NumAt(pc, MEntering) = 0
  <2>1. \A t \in Task : pc[t] \notin MEntering
    BY <1>9 DEF MEntering
  <2> QED BY ONLY <2>1, TasksAtFinite DEF NumAt
<1>11. MTypes({}, flg, wai) /\ MPlaces(no, pc) /\ MCounted(wai, pc)
  BY <1>9, <1>10 DEF MTypes, MPlaces, MCounted, MPC
<1>12. MHolders(flg, no, pc) /\ MServed({}, {}, no, pc, Woken(kn)) /\ Present(kn, pc)
  BY <1>9 DEF MHolders, MServed, Present, Holding
<1> QED BY <1>5, <1>7, <1>8, <1>11, <1>12 DEF MLockInv, MAgree

\* A step within the library: the kernel does not change.
LEMMA MLibraryStep ==
    ASSUME MLockInv, UNCHANGED vars, NEW t \in Task, t \notin Waiting(kn),
           kn.state[t] # "NONEXIST",
           NEW x, pc' = [pc EXCEPT ![t] = x], \A u \in Task \ {t} : no'[u] = no[u],
           MAgree(Waiting(kn), kn.flgptn[mid], flg', wai', no', pc', Woken(kn))
    PROVE  MLockInv'
<1>1. kn' = kn /\ MState(kn, no) /\ TaskControl /\ Present(kn, pc)
  BY DEF MLockInv, vars
<1>2. MState(kn, no')
  BY <1>1, MNumbers
<1>3. Present(kn, pc')
  <2>1. DOMAIN pc = Task
    BY DEF MLockInv, MAgree, MPlaces
  <2> QED BY <1>1, <2>1 DEF Present
<1>4. TaskControl'
  BY <1>1, ControlUnchanged
<1> QED BY <1>1, <1>2, <1>3, <1>4 DEF MLockInv

LEMMA MAtTask ==
    ASSUME MLockInv, NEW at, At(at)
    PROVE  /\ ctxtsk \in Task /\ pc[ctxtsk] = at /\ kn.state[ctxtsk] = "READY"
           /\ ctxtsk \notin Waiting(kn) /\ kn.state[ctxtsk] # "NONEXIST"
           /\ MAgree(Waiting(kn), kn.flgptn[mid], flg, wai, no, pc, Woken(kn))
           /\ no \in [Task -> FlgBit \cup {NoLock}] /\ pc \in [Task -> MPC]
           /\ at # "out" => no[ctxtsk] \in FlgBit
<1>1. /\ TaskControl /\ MAgree(Waiting(kn), kn.flgptn[mid], flg, wai, no, pc, Woken(kn))
      /\ no \in [Task -> FlgBit \cup {NoLock}] /\ pc \in [Task -> MPC]
      /\ \A t \in Task : pc[t] # "out" => no[t] \in FlgBit
  BY DEF MLockInv, MAgree, MPlaces
<1>2. /\ ctxtsk \in Task /\ pc[ctxtsk] = at /\ kn.state[ctxtsk] = "READY"
      /\ ctxtsk \notin Waiting(kn)
  BY <1>1, AtTask
<1> QED BY <1>1, <1>2

LEMMA MIncKept ==
    ASSUME MLockInv, NEW n \in FlgBit, MInc(n)
    PROVE  MLockInv'
<1> DEFINE t == ctxtsk
<1>1. /\ t \in Task /\ pc[t] = "out" /\ t \notin Waiting(kn) /\ kn.state[t] # "NONEXIST"
      /\ MAgree(Waiting(kn), kn.flgptn[mid], flg, wai, no, pc, Woken(kn))
      /\ no \in [Task -> FlgBit \cup {NoLock}]
  BY MAtTask DEF MInc
<1>2. /\ wai' = wai + 1 /\ no' = [no EXCEPT ![t] = n] /\ pc' = [pc EXCEPT ![t] = "bts"]
      /\ UNCHANGED vars /\ flg' = flg
  BY DEF MInc, Goto
<1> HIDE DEF t
<1>3. Goes(pc', pc, no', no, t, "bts", n)
  BY <1>2 DEF Goes
<1>4. MAgree(Waiting(kn), kn.flgptn[mid], flg, wai + 1, no', pc', Woken(kn))
  BY <1>1, <1>3, MAgreeInc
<1>5. \A u \in Task \ {t} : no'[u] = no[u]
  BY <1>1, <1>2
<1> QED BY <1>1, <1>2, <1>4, <1>5, MLibraryStep

LEMMA MBtsKept ==
    ASSUME MLockInv, MBts
    PROVE  MLockInv'
<1> DEFINE t == ctxtsk
<1>1. /\ t \in Task /\ pc[t] = "bts" /\ t \notin Waiting(kn) /\ kn.state[t] # "NONEXIST"
      /\ MAgree(Waiting(kn), kn.flgptn[mid], flg, wai, no, pc, Woken(kn))
  BY MAtTask DEF MBts
<1>2. /\ flg' = flg \cup {no[t]} /\ UNCHANGED vars /\ wai' = wai /\ no' = no
      /\ pc' = [pc EXCEPT ![t] = IF no[t] \in flg THEN "flg" ELSE "got"]
  BY DEF MBts, Goto
<1> HIDE DEF t
<1>3. CASE no[t] \in flg
  <2>1. pc' = [pc EXCEPT ![t] = "flg"] /\ flg' = flg
    BY <1>2, <1>3
  <2>2. MAgree(Waiting(kn), kn.flgptn[mid], flg, wai, no, pc', Woken(kn))
    BY <1>1, <1>3, <2>1, MAgreeTaken
  <2> QED BY <1>1, <1>2, <2>1, <2>2, MLibraryStep
<1>4. CASE no[t] \notin flg
  <2>1. pc' = [pc EXCEPT ![t] = "got"]
    BY <1>2, <1>4
  <2>2. MAgree(Waiting(kn), kn.flgptn[mid], flg \cup {no[t]}, wai, no, pc', Woken(kn))
    BY <1>1, <1>4, <2>1, MAgreeGot
  <2> QED BY <1>1, <1>2, <2>1, <2>2, MLibraryStep
<1> QED BY <1>3, <1>4

LEMMA MDecKept ==
    ASSUME MLockInv, MDec
    PROVE  MLockInv'
<1> DEFINE t == ctxtsk
           got == pc[t] = "got"
           x == IF got THEN "in" ELSE "out"
           y == IF got THEN no[t] ELSE NoLock
<1>1. /\ t \in Task /\ pc[t] \in {"got", "fail"} /\ t \notin Waiting(kn) /\ kn.state[t] # "NONEXIST"
      /\ MAgree(Waiting(kn), kn.flgptn[mid], flg, wai, no, pc, Woken(kn))
      /\ no \in [Task -> FlgBit \cup {NoLock}]
  BY MAtTask DEF MDec, At
<1>2. /\ wai' = wai - 1 /\ UNCHANGED vars /\ flg' = flg
      /\ pc' = [pc EXCEPT ![t] = x] /\ no' = [no EXCEPT ![t] = y]
  BY <1>1 DEF MDec, Goto
<1>3. \/ pc[t] = "got" /\ x = "in" /\ y = no[t]
      \/ pc[t] = "fail" /\ x = "out" /\ y = NoLock
  BY <1>1
<1> HIDE DEF t, got, x, y
<1>4. Goes(pc', pc, no', no, t, x, y)
  BY <1>2 DEF Goes
<1>5. MAgree(Waiting(kn), kn.flgptn[mid], flg, wai - 1, no', pc', Woken(kn))
  BY <1>1, <1>3, <1>4, MAgreeDec
<1>6. \A u \in Task \ {t} : no'[u] = no[u]
  BY <1>1, <1>2
<1> QED BY <1>1, <1>2, <1>5, <1>6, MLibraryStep

LEMMA MBrKept ==
    ASSUME MLockInv, MBr
    PROVE  MLockInv'
<1> DEFINE t == ctxtsk
<1>1. /\ t \in Task /\ pc[t] = "in" /\ t \notin Waiting(kn) /\ kn.state[t] # "NONEXIST"
      /\ MAgree(Waiting(kn), kn.flgptn[mid], flg, wai, no, pc, Woken(kn))
  BY MAtTask DEF MBr
<1>2. /\ flg' = flg \ {no[t]} /\ UNCHANGED vars /\ wai' = wai /\ no' = no
      /\ pc' = [pc EXCEPT ![t] = "unl"]
  BY DEF MBr, Goto
<1> HIDE DEF t
<1>3. MAgree(Waiting(kn), kn.flgptn[mid], flg \ {no[t]}, wai, no, pc', Woken(kn))
  BY <1>1, <1>2, MAgreeBr
<1> QED BY <1>1, <1>2, <1>3, MLibraryStep

LEMMA MReadWaiKept ==
    ASSUME MLockInv, MReadWai
    PROVE  MLockInv'
<1> DEFINE t == ctxtsk
<1>1. /\ t \in Task /\ pc[t] = "unl" /\ t \notin Waiting(kn) /\ kn.state[t] # "NONEXIST"
      /\ MAgree(Waiting(kn), kn.flgptn[mid], flg, wai, no, pc, Woken(kn))
      /\ no \in [Task -> FlgBit \cup {NoLock}] /\ no[t] \in FlgBit
  BY MAtTask DEF MReadWai
<1>2. /\ flg' = flg /\ UNCHANGED vars /\ wai' = wai
      /\ pc' = [pc EXCEPT ![t] = IF wai = 0 THEN "out" ELSE "set"]
      /\ no' = IF wai = 0 THEN [no EXCEPT ![t] = NoLock] ELSE no
  BY DEF MReadWai, Goto
<1> HIDE DEF t
<1>3. CASE wai = 0
  <2>1. Goes(pc', pc, no', no, t, "out", NoLock) /\ pc' = [pc EXCEPT ![t] = "out"]
    BY <1>2, <1>3 DEF Goes
  <2>2. MAgree(Waiting(kn), kn.flgptn[mid], flg, wai, no', pc', Woken(kn))
    BY <1>1, <1>3, <2>1, MAgreeNobody
  <2>3. \A u \in Task \ {t} : no'[u] = no[u]
    BY <1>1, <1>2, <1>3
  <2> QED BY <1>1, <1>2, <2>1, <2>2, <2>3, MLibraryStep
<1>4. CASE wai # 0
  <2>1. pc' = [pc EXCEPT ![t] = "set"] /\ no' = no
    BY <1>2, <1>4
  <2>2. GoesOn(pc', pc, no, t, "set")
    <3>1. "set" \in MPC /\ MPlaces(no, pc) /\ pc[t] # "out"
      BY <1>1 DEF MPC, MAgree
    <3> QED BY ONLY <1>1, <2>1, <3>1, GoesInPlace
  <2>3. Goes(pc', pc, no, no, t, "set", no[t]) /\ pc'[t] = "set"
    BY ONLY <2>2 DEF GoesOn
  <2>4. /\ pc[t] \notin Holding /\ "set" \in MPC /\ "set" \notin Holding /\ "set" # "flg"
        /\ "set" \notin MEntering
    BY <1>1 DEF MPC, Holding, MEntering
  <2>5. \A n : Witness(Waiting(kn), Woken(kn), pc, no, t, n)
               => Witness(Waiting(kn), Woken(kn), pc', no, t, n)
    BY <1>1, <2>3 DEF Witness, Trying
  <2>6. Waiting(kn) = Waiting(kn) \ {t}
    BY <1>1
  <2>7. MAgree(Waiting(kn), kn.flgptn[mid], flg, wai, no, pc', Woken(kn))
    <3>1. no[t] \in FlgBit \cup {NoLock}
      BY <1>1
    <3> QED BY ONLY <1>1, <2>3, <2>4, <2>5, <2>6, <3>1, MAgreeGoesOn
  <2> QED BY <1>1, <1>2, <2>1, <2>7, MLibraryStep
<1> QED BY <1>3, <1>4

\* A system call in the library or beside it.
LEMMA MCall ==
    ASSUME MLockInv, NEW c, NEW k, SystemCall(c, k), MState(k, no'), Present(k, pc'),
           MAgree(Waiting(k), k.flgptn[mid], flg', wai', no', pc', Woken(k))
    PROVE  MLockInv'
<1>1. TaskControl' /\ kn' = k
  BY CallControl DEF MLockInv, MState
<1> QED BY <1>1 DEF MLockInv

LEMMA MWaiFlgKept ==
    ASSUME MLockInv, NEW tmout, MWaiFlg(tmout)
    PROVE  MLockInv'
<1> DEFINE t == ctxtsk
           n == no[t]
           w == Waiting(kn)
           P == kn.flgptn[mid]
<1>1. /\ t \in Task /\ pc[t] = "flg" /\ t \notin w /\ kn.state[t] = "READY"
      /\ kn.state[t] # "NONEXIST"
      /\ MAgree(w, P, flg, wai, no, pc, Woken(kn))
      /\ no \in [Task -> FlgBit \cup {NoLock}] /\ pc \in [Task -> MPC] /\ n \in FlgBit
  BY MAtTask DEF MWaiFlg
<1>2. /\ flg' = flg /\ wai' = wai /\ no' = no
      /\ \/ WaiFlg(mid, MWant(n), tmout)
            /\ pc' = [pc EXCEPT ![t] = IF Cond(P, MWant(n)) THEN "bts" ELSE "wai"]
         \/ pc' = [pc EXCEPT ![t] = "fail"] /\ UNCHANGED vars
  BY DEF MWaiFlg, Goto, mvars, MWant
<1>3. MState(kn, no) /\ Present(kn, pc)
  BY DEF MLockInv
<1>4. (Cond(P, MWant(n)) <=> n \in P) /\ Cleared(P, MWant(n)) = P \ {n}
  BY Wanted
<1>5. CASE WaiFlg(mid, MWant(n), tmout) /\ n \in P /\ pc' = [pc EXCEPT ![t] = "bts"]
  <2> DEFINE k1 == [kn EXCEPT !.flgptn[mid] = Cleared(@, MWant(n))]
  <2>1. SystemCall("task", k1)
    BY <1>4, <1>5 DEF WaiFlg
  <2>2. k1 = [kn EXCEPT !.flgptn[mid] = P \ {n}]
    BY <1>4
  <2> HIDE DEF k1, t, n, w, P
  <2>3. PatternIs(k1, kn, no, P \ {n})
    BY ONLY <1>3, <2>2, MPattern
  <2>4. /\ MState(k1, no) /\ Waiting(k1) = w /\ k1.flgptn[mid] = P \ {n} /\ k1.state = kn.state
        /\ Woken(k1) = Woken(kn)
    BY ONLY <2>3 DEF PatternIs, w
  <2>5. MAgree(w, P \ {n}, flg, wai, no, pc', Woken(kn))
    BY ONLY <1>1, <1>5, MAgreeMet DEF n
  <2>6. Present(k1, pc')
    BY <1>1, <1>3, <1>5, <2>4 DEF Present
  <2> QED BY <1>2, <2>1, <2>4, <2>5, <2>6, MCall
<1>6. CASE WaiFlg(mid, MWant(n), tmout) /\ n \notin P /\ pc' = [pc EXCEPT ![t] = "wai"]
  <2> PICK tpri : tpri = ("TPRI" \in kn.flgatr[mid])
    OBVIOUS
  <2> DEFINE k1 == GcbMakeWait(kn, t, mid, mid, tpri, "flg_tpri", MWant(n), tmout)
  <2>0. tpri /\ MState(kn, no) /\ t \in Task /\ kn.state[t] = "READY"
    BY <1>1, <1>3 DEF MState, MFlag
  <2>1. SystemCall("task", k1)
    BY <1>4, <1>6, <2>0 DEF WaiFlg
  <2> HIDE DEF t, w, P
  <2>2. /\ MState(k1, no) /\ Waiting(k1) = Waiting(kn) \cup {t} /\ k1.flgptn = kn.flgptn
        /\ \A u \in Task \ {t} : u \in Woken(kn) => u \in Woken(k1)
        /\ \A u \in Task : kn.state[u] # "NONEXIST" => k1.state[u] # "NONEXIST"
    <3>1. k1 = GcbMakeWait(kn, t, mid, mid, tpri, "flg_tpri", MWant(no[t]), tmout)
      BY DEF n
    <3> HIDE DEF k1
    <3>2. BeginsWait(k1, kn, no, t)
      BY ONLY <2>0, <3>1, tpri = ("TPRI" \in kn.flgatr[mid]), MWaited
    <3> QED BY <3>2 DEF BeginsWait
  <2> HIDE DEF k1
  <2>3. MAgree(w \cup {t}, P, flg, wai, no, pc', Woken(k1))
    BY ONLY <1>1, <1>6, <2>2, MAgreeWaits
  <2>4. Present(k1, pc')
    BY <1>1, <1>3, <1>6, <2>2 DEF Present
  <2>5. Waiting(k1) = w \cup {t}
    BY <2>2 DEF w
  <2> QED BY <1>2, <2>1, <2>2, <2>3, <2>4, <2>5, MCall DEF P
<1>7. CASE pc' = [pc EXCEPT ![t] = "fail"] /\ UNCHANGED vars
  <2> HIDE DEF t, n, w, P
  <2>1. GoesOn(pc', pc, no, t, "fail")
    <3>1. "fail" \in MPC /\ MPlaces(no, pc) /\ pc[t] # "out"
      BY <1>1 DEF MPC, MAgree
    <3> QED BY ONLY <1>1, <1>7, <3>1, GoesInPlace
  <2>2. Goes(pc', pc, no, no, t, "fail", no[t]) /\ pc'[t] = "fail"
    BY ONLY <2>1 DEF GoesOn
  <2>3. /\ pc[t] \notin Holding /\ "fail" \in MPC /\ "fail" \notin Holding /\ "fail" # "flg"
        /\ pc[t] \in MEntering /\ no[t] \in FlgBit \cup {NoLock} /\ no[t] \in FlgBit
    BY <1>1 DEF MPC, Holding, MEntering, n
  <2>4. \A m : Witness(w, Woken(kn), pc, no, t, m) => Witness(w, Woken(kn), pc', no, t, m)
    BY <1>1 DEF Witness, Trying
  <2>5. w = w \ {t}
    BY <1>1
  <2>6. MAgree(w, P, flg, wai, no, pc', Woken(kn))
    BY ONLY <1>1, <2>2, <2>3, <2>4, <2>5, MAgreeGoesOn
  <2> QED BY <1>1, <1>2, <1>7, <2>6, MLibraryStep DEF w, P
<1>8. \/ WaiFlg(mid, MWant(n), tmout) /\ n \in P /\ pc' = [pc EXCEPT ![t] = "bts"]
      \/ WaiFlg(mid, MWant(n), tmout) /\ n \notin P /\ pc' = [pc EXCEPT ![t] = "wai"]
      \/ pc' = [pc EXCEPT ![t] = "fail"] /\ UNCHANGED vars
  <2> HIDE DEF t, n, w, P
  <2>1. CASE n \in P
    <3>1. (IF Cond(P, MWant(n)) THEN "bts" ELSE "wai") = "bts"
      BY <1>4, <2>1
    <3> QED BY <1>2, <2>1, <3>1
  <2>2. CASE n \notin P
    <3>1. (IF Cond(P, MWant(n)) THEN "bts" ELSE "wai") = "wai"
      BY <1>4, <2>2
    <3> QED BY <1>2, <2>2, <3>1
  <2> QED BY <2>1, <2>2
<1> QED BY <1>5, <1>6, <1>7, <1>8

LEMMA MDispatchKept ==
    ASSUME MLockInv, MDispatch
    PROVE  MLockInv'
<1> DEFINE t == kn.schedtsk
           w == Waiting(kn)
           P == kn.flgptn[mid]
           x == IF pc[t] # "wai" THEN pc[t] ELSE IF kn.wercd[t] = "E_OK" THEN "bts" ELSE "fail"
<1>1. /\ MState(kn, no) /\ TaskControl /\ Present(kn, pc) /\ KState(kn)
      /\ MAgree(w, P, flg, wai, no, pc, Woken(kn)) /\ pc \in [Task -> MPC]
      /\ \A u \in Task : pc[u] # "out" => no[u] \in FlgBit
  BY DEF MLockInv, MState, MAgree, MPlaces
<1>2. DispatchSwitch /\ pc' = [pc EXCEPT ![t] = x] /\ no' = no /\ flg' = flg /\ wai' = wai
  BY DEF MDispatch, mvars
<1>3. /\ TaskControl' /\ KState(kn') /\ Only(kn', kn, {"wercd"})
      /\ t \in Task /\ kn.state[t] = "READY"
      /\ \A u \in Task \ {t} : kn'.wercd[u] = kn.wercd[u]
  BY <1>1, <1>2, DispatchSwitchKeeps
<1>4. /\ kn'.state = kn.state /\ kn'.wid = kn.wid /\ kn'.winfo = kn.winfo
      /\ kn'.wspec = kn.wspec
  BY <1>1, <1>3, StateFacts DEF Only, KernelField, WaitField
<1>5. Only(kn', kn, TaskField)
  BY <1>3 DEF Only, TaskField, KernelField
<1>6. MFlag(kn') /\ kn'.flgptn = kn.flgptn
  BY <1>1, <1>5, MFlagKept DEF MState
<1>7. MState(kn', no) /\ Waiting(kn') = w
  BY <1>1, <1>3, <1>4, <1>6 DEF MState, WaitsForMLock, Waiting
<1>8. t \notin w /\ \A u \in Task \ {t} : u \in Woken(kn) => u \in Woken(kn')
  BY <1>3, ATaskWaits DEF Waiting, Woken
<1> HIDE DEF t, w, P
<1>9. CASE pc[t] # "wai"
  <2>1. pc' = pc
    BY <1>1, <1>2, <1>9
  <2>2. \A u \in Task : pc[u] = "wai" /\ u \in Woken(kn) => u \in Woken(kn')
    BY <1>8, <1>9
  <2>3. MAgree(w, P, flg, wai, no, pc, Woken(kn'))
    BY ONLY <1>1, <2>2, MAgreeSame
  <2> QED BY <1>1, <1>2, <1>3, <1>4, <1>6, <1>7, <2>1, <2>3 DEF MLockInv, Present, P
<1>10. CASE pc[t] = "wai"
  <2>1. x = "bts" \/ (x = "fail" /\ t \notin Woken(kn))
    BY <1>10 DEF Woken
  <2> HIDE DEF x
  <2>2. GoesOn(pc', pc, no, t, x)
    <3>1. x \in MPC /\ MPlaces(no, pc) /\ pc[t] # "out"
      BY <1>1, <1>10, <2>1 DEF MPC, MAgree
    <3> QED BY ONLY <1>2, <1>3, <3>1, GoesInPlace
  <2>3. Goes(pc', pc, no, no, t, x, no[t]) /\ pc'[t] = x
    BY ONLY <2>2 DEF GoesOn
  <2>4. /\ pc[t] \notin Holding /\ x \in MPC /\ x \notin Holding /\ x # "flg"
        /\ pc[t] \in MEntering /\ no[t] \in FlgBit \cup {NoLock} /\ no[t] \in FlgBit
    BY <1>1, <1>3, <1>10, <2>1 DEF MPC, Holding, MEntering
  <2>5. \A m : Witness(w, Woken(kn), pc, no, t, m) => Witness(w, Woken(kn'), pc', no, t, m)
    BY <1>10, <2>1, <2>3 DEF Witness, Trying
  <2>6. w = w \ {t}
    BY <1>8
  <2>7. MAgree(w, P, flg, wai, no, pc', Woken(kn'))
    BY ONLY <1>1, <1>3, <1>8, <2>3, <2>4, <2>5, <2>6, MAgreeGoesOn
  <2>8. Present(kn', pc')
    BY <1>1, <1>2, <1>3, <1>4, <1>10 DEF Present
  <2> QED BY <1>2, <1>3, <1>6, <1>7, <2>7, <2>8 DEF MLockInv, P
<1> QED BY <1>9, <1>10

LEMMA MSetFlgKept ==
    ASSUME MLockInv, MSetFlg
    PROVE  MLockInv'
<1> DEFINE t == ctxtsk
           n == no[t]
           w == Waiting(kn)
           P == kn.flgptn[mid]
           k1 == ServeFlg([kn EXCEPT !.flgptn[mid] = @ \cup {n}], mid)
<1>1. /\ t \in Task /\ pc[t] = "set" /\ t \notin w
      /\ MAgree(w, P, flg, wai, no, pc, Woken(kn))
      /\ no \in [Task -> FlgBit \cup {NoLock}] /\ pc \in [Task -> MPC]
  BY MAtTask DEF MSetFlg
<1>2. /\ flg' = flg /\ wai' = wai /\ no' = [no EXCEPT ![t] = NoLock]
      /\ pc' = [pc EXCEPT ![t] = "out"] /\ SystemCall("task", k1)
  BY DEF MSetFlg, SetFlg, Goto
<1>3. MState(kn, no) /\ Present(kn, pc) /\ \A u \in w : no[u] \notin P
  BY <1>1 DEF MLockInv, MAgree, MServed
<1>4. BitSet(k1, kn, no, n)
  BY <1>3, MBitSet
<1> HIDE DEF k1, t, n, w, P
<1>5. /\ MState(k1, no)
      /\ \A u \in Task : kn.state[u] # "NONEXIST" => k1.state[u] # "NONEXIST"
      /\ \A u \in Task : u \in Woken(kn) => u \in Woken(k1)
  BY <1>4 DEF BitSet
<1>6. Goes(pc', pc, no', no, t, "out", NoLock)
  BY <1>2 DEF Goes
<1>7. Present(k1, pc')
  BY <1>1, <1>2, <1>3, <1>5 DEF Present
<1>8. MState(k1, no')
  <2>1. t \notin Waiting(k1)
    BY <1>1, <1>4 DEF BitSet, w
  <2>2. \A u \in Task \ {t} : no'[u] = no[u]
    BY <1>1, <1>2
  <2> QED BY <1>1, <1>5, <2>1, <2>2, MNumbers
<1>9. MAgree(Waiting(k1), k1.flgptn[mid], flg, wai, no', pc', Woken(k1))
  <2>1. /\ (\A u \in w : no[u] # n)
           => \A R1 : (\A u \in Task : u \in Woken(kn) => u \in R1)
                      => MAgree(w, P \cup {n}, flg, wai, no', pc', R1)
        /\ \A v \in w : \A R1 :
             no[v] = n /\ (\A u \in Task : u \in Woken(kn) \/ u = v => u \in R1)
             => MAgree(w \ {v}, P \ {n}, flg, wai, no', pc', R1)
    BY ONLY <1>1, <1>6, MAgreeSet DEF n
  <2>2. CASE \A u \in w : no[u] # n
    <3>1. Waiting(k1) = w /\ k1.flgptn[mid] = P \cup {n}
      BY <1>4, <2>2 DEF BitSet, w, P
    <3> QED BY <1>5, <2>1, <2>2, <3>1
  <2>3. CASE ~\A u \in w : no[u] # n
    <3>1. PICK v \in w : /\ no[v] = n /\ v \in Woken(k1)
                         /\ Waiting(k1) = w \ {v} /\ k1.flgptn[mid] = P \ {n}
      BY <1>4, <2>3 DEF BitSet, w, P
    <3> QED BY <1>5, <2>1, <3>1
  <2> QED BY <2>2, <2>3
<1> QED BY <1>2, <1>7, <1>8, <1>9, MCall

LEMMA MTerminateKept ==
    ASSUME LockHooks, MLockInv, NEW t \in Task, MTerminate(t)
    PROVE  MLockInv'
<1> DEFINE w == Waiting(kn)
           P == kn.flgptn[mid]
           k0 == [Detach(kn, t) EXCEPT !.wid[t] = NoObj, !.winfo[t] = NoInfo]
           k1 == IF kn.state[t] \in WaitBit THEN RelWaiHook(k0, kn.wid[t], kn.wspec[t]) ELSE k0
           k2 == MakeDormant(k1, t)
<1>1. /\ MState(kn, no) /\ Present(kn, pc) /\ MAgree(w, P, flg, wai, no, pc, Woken(kn))
      /\ no \in [Task -> FlgBit \cup {NoLock}] /\ pc \in [Task -> MPC]
  BY DEF MLockInv, MAgree, MPlaces
<1>2. /\ pc[t] \in {"out", "flg"} \/ (pc[t] = "wai" /\ t \in w)
      /\ pc' = [pc EXCEPT ![t] = "out"] /\ no' = [no EXCEPT ![t] = NoLock]
      /\ flg' = flg /\ wai' = wai
  BY DEF MTerminate, Waiting
<1>3. kn.state[t] \in Alive /\ SystemCall("task", k2)
  BY DEF MTerminate, TerTskWait
<1>4. \A u \in Task \ {t} : no'[u] = no[u]
  BY <1>1, <1>2
<1>5. /\ MState(k2, no') /\ Waiting(k2) = w \ {t} /\ k2.flgptn = kn.flgptn
      /\ \A u \in Task \ {t} : u \in Woken(kn) => u \in Woken(k2)
      /\ \A u \in Task : kn.state[u] # "NONEXIST" => k2.state[u] # "NONEXIST"
  <2>1. EndsWait(k2, kn, no', t)
    BY <1>1, <1>3, <1>4, MTerminated
  <2> HIDE DEF k2
  <2> QED BY <2>1 DEF EndsWait
<1> HIDE DEF k2, k1, k0, w, P
<1>6. Goes(pc', pc, no', no, t, "out", NoLock)
  BY <1>2 DEF Goes
<1>7. /\ pc[t] \notin Holding /\ "out" \in MPC /\ "out" \notin Holding /\ "out" # "flg"
      /\ "out" \notin MEntering /\ NoLock \in FlgBit \cup {NoLock}
  BY <1>2 DEF MPC, Holding, MEntering
<1>8. \A m : ~Witness(w, Woken(kn), pc, no, t, m)
  BY <1>2 DEF Witness, Trying
<1>9. MAgree(w \ {t}, P, flg, wai, no', pc', Woken(k2))
  BY ONLY <1>1, t \in Task, <1>5, <1>6, <1>7, <1>8, MAgreeGoesOn
<1>10. Present(k2, pc')
  BY <1>1, <1>2, <1>5 DEF Present
<1> QED BY <1>2, <1>3, <1>5, <1>9, <1>10, MCall DEF P

\* A wait that is released or times out.
LEMMA MReleaseKept ==
    ASSUME LockHooks, MLockInv, NEW t \in Waiting(kn), NEW ercd, NEW c,
           SystemCall(c, ReleaseFailed(kn, t, ercd)), UNCHANGED <<pc, mvars>>
    PROVE  MLockInv'
<1> DEFINE w == Waiting(kn)
           P == kn.flgptn[mid]
           k1 == ReleaseFailed(kn, t, ercd)
<1>1. /\ MState(kn, no) /\ Present(kn, pc) /\ MAgree(w, P, flg, wai, no, pc, Woken(kn))
      /\ t \in Task /\ pc[t] = "wai" /\ no[t] \in FlgBit
      /\ no \in [Task -> FlgBit \cup {NoLock}] /\ pc \in [Task -> MPC]
  BY DEF MLockInv, MAgree, MServed, MPlaces, Waiting
<1>2. pc' = pc /\ no' = no /\ flg' = flg /\ wai' = wai
  BY DEF mvars
<1>3. /\ MState(k1, no) /\ Waiting(k1) = w \ {t} /\ k1.flgptn = kn.flgptn
      /\ \A u \in Task \ {t} : u \in Woken(kn) => u \in Woken(k1)
      /\ \A u \in Task : kn.state[u] # "NONEXIST" => k1.state[u] # "NONEXIST"
  <2>1. EndsWait(k1, kn, no, t)
    BY <1>1, MReleased
  <2> HIDE DEF k1
  <2> QED BY <2>1 DEF EndsWait
<1>4. SystemCall(c, k1)
  OBVIOUS
<1>5. ~Witness(w, Woken(kn), pc, no, t, no[t]) /\ \A m : ~Witness(w, Woken(kn), pc, no, t, m)
  BY <1>1 DEF Witness, Trying
<1> HIDE DEF k1, w, P
<1>6. Goes(pc, pc, no, no, t, "wai", no[t])
  BY <1>1 DEF Goes
<1>7. /\ pc[t] \notin Holding /\ "wai" \in MPC /\ "wai" \notin Holding /\ "wai" # "flg"
      /\ pc[t] \in MEntering /\ no[t] \in FlgBit \cup {NoLock}
  BY <1>1 DEF MPC, Holding, MEntering
<1>8. MAgree(w \ {t}, P, flg, wai, no, pc, Woken(k1))
  BY ONLY <1>1, <1>3, <1>5, <1>6, <1>7, MAgreeGoesOn
<1>9. Present(k1, pc)
  BY <1>1, <1>3 DEF Present
<1> QED BY <1>2, <1>3, <1>4, <1>8, <1>9, MCall DEF P

\* What interrupt handlers and tasks outside do meanwhile.
LEMMA MMeanwhileKept ==
    ASSUME LockHooks, MLockInv, MMeanwhile
    PROVE  MLockInv'
<1>1. /\ pc' = pc /\ no' = no /\ flg' = flg /\ wai' = wai /\ UNCHANGED <<pc, mvars>>
      /\ MState(kn, no) /\ TaskControl /\ KState(kn) /\ Present(kn, pc)
      /\ MAgree(Waiting(kn), kn.flgptn[mid], flg, wai, no, pc, Woken(kn))
  BY DEF MMeanwhile, MLockInv, MState, mvars
<1>2. ASSUME TaskControl', NEW k, kn' = k, Undisturbed(k, kn) PROVE MLockInv'
  <2>1. /\ MState(k, no) /\ Waiting(k) = Waiting(kn) /\ k.flgptn = kn.flgptn
        /\ Present(k, pc) /\ \A u \in Task : pc[u] = "wai" /\ u \in Woken(kn) => u \in Woken(k)
    BY ONLY <1>1, <1>2, MUndisturbed
  <2>2. MAgree(Waiting(kn), kn.flgptn[mid], flg, wai, no, pc, Woken(k))
    BY ONLY <1>1, <2>1, MAgreeSame
  <2> QED BY <1>1, <1>2, <2>1, <2>2 DEF MLockInv
<1>3. CASE TaskStep
  BY <1>1, <1>2, <1>3, TaskStepKeeps
<1>4. ASSUME NEW t \in Task, NEW p \in Pri, ChgPriWait("hdr", t, p) PROVE MLockInv'
  <2>1. CASE kn.state[t] \notin WaitBit
    BY <1>1, <1>2, <1>4, <2>1, ChgPriWaitKeeps
  <2>2. CASE kn.state[t] \in WaitBit
    <3>1. PICK k : /\ Undisturbed(k, kn)
                   /\ SystemCall("hdr", ChgPriHook([k EXCEPT !.priority[t] = p], t))
      BY <1>1, <1>4, <2>2, ChgPriWaitKeeps
    <3>2. MState(k, no) /\ Waiting(k) = Waiting(kn)
      BY <1>1, <3>1, MUndisturbed
    <3>3. t \in Waiting(k)
      BY <2>2, <3>2 DEF Waiting
    <3> DEFINE k1 == ChgPriHook([k EXCEPT !.priority[t] = p], t)
    <3>4. Undisturbed(k1, k)
      BY <3>2, <3>3, MReordered
    <3>5. SystemCall("hdr", k1)
      BY <3>1
    <3> HIDE DEF k1
    <3>6. Undisturbed(k1, kn) /\ KState(k1)
      BY <3>1, <3>4, UndisturbedTwice DEF Undisturbed
    <3>7. TaskControl' /\ kn' = k1
      BY <1>1, <3>5, <3>6, CallControl
    <3> QED BY <1>2, <3>6, <3>7
  <2> QED BY <2>1, <2>2
<1>5. ASSUME NEW t \in Task, RelWaiWait("hdr", t) PROVE MLockInv'
  <2>1. t \in Waiting(kn) /\ SystemCall("hdr", ReleaseFailed(kn, t, "E_RLWAI"))
    BY <1>5 DEF RelWaiWait, Waiting
  <2> QED BY <1>1, <2>1, MReleaseKept
<1>6. ASSUME NEW t \in Task, TimerEventWait(t) PROVE MLockInv'
  <2>1. t \in Waiting(kn) /\ SystemCall("hdr", ReleaseFailed(kn, t, kn.wercd[t]))
    BY <1>1, <1>6 DEF TimerEventWait, Waiting, KState, WaitsOnly
  <2> QED BY <1>1, <2>1, MReleaseKept
<1>7. Interrupted \/ OutsideCreate => TaskStep \/ \E t \in Task, p \in Pri : ChgPriWait("hdr", t, p)
  BY DEF Interrupted, OutsideCreate, TaskStep, Caller
<1> QED BY <1>3, <1>4, <1>5, <1>6, <1>7 DEF MMeanwhile

MLockVars == <<vars, pc, mvars>>

LEMMA MLockStep == LockHooks /\ MLockInv /\ [MLockNext]_MLockVars => MLockInv'
<1> SUFFICES ASSUME LockHooks, MLockInv, [MLockNext]_MLockVars PROVE MLockInv'
  OBVIOUS
<1>1. ASSUME NEW n \in FlgBit, MInc(n) PROVE MLockInv'
  BY <1>1, MIncKept
<1>2. CASE MBts
  BY <1>2, MBtsKept
<1>3. ASSUME NEW tmout \in TMO, MWaiFlg(tmout) PROVE MLockInv'
  BY <1>3, MWaiFlgKept
<1>4. CASE MDispatch
  BY <1>4, MDispatchKept
<1>5. CASE MDec
  BY <1>5, MDecKept
<1>6. CASE MBr
  BY <1>6, MBrKept
<1>7. CASE MReadWai
  BY <1>7, MReadWaiKept
<1>8. CASE MSetFlg
  BY <1>8, MSetFlgKept
<1>9. ASSUME NEW t \in Task, MTerminate(t) PROVE MLockInv'
  BY <1>9, MTerminateKept
<1>10. CASE MMeanwhile
  BY <1>10, MMeanwhileKept
<1>11. CASE UNCHANGED MLockVars
  <2>1. /\ UNCHANGED vars /\ kn' = kn /\ pc' = pc /\ flg' = flg /\ wai' = wai /\ no' = no
    BY <1>11 DEF MLockVars, mvars, vars
  <2>2. TaskControl'
    BY <2>1, ControlUnchanged DEF MLockInv
  <2> QED BY <2>1, <2>2 DEF MLockInv
<1>12. CASE MLockNext
  BY <1>1, <1>2, <1>3, <1>4, <1>5, <1>6, <1>7, <1>8, <1>9, <1>10, <1>12 DEF MLockNext
<1> QED BY <1>11, <1>12

LEMMA MLockInvExact == MLockInv => MLockExact /\ MNoLostUnlock
<1> SUFFICES ASSUME MLockInv PROVE MLockExact /\ MNoLostUnlock
  OBVIOUS
<1> DEFINE w == Waiting(kn)
           P == kn.flgptn[mid]
           R == Woken(kn)
<1>1. /\ MTypes(w, flg, wai) /\ MPlaces(no, pc) /\ MHolders(flg, no, pc)
      /\ MCounted(wai, pc) /\ MServed(w, P, no, pc, R)
  BY DEF MLockInv, MAgree
<1>2. MLockTypeOK
  <2>1. NumAt(pc, MEntering) = Cardinality({t \in Task : pc[t] \in {"bts", "flg", "wai", "got", "fail"}})
    BY DEF NumAt, TasksAt, MEntering
  <2> QED BY <1>1, <2>1 DEF MLockTypeOK, MTypes, MPlaces, MCounted
<1>3. MLockExclusive
  <2> SUFFICES ASSUME NEW n \in FlgBit
               PROVE  Cardinality({t \in Task : MHolds(t, n)}) = IF n \in flg THEN 1 ELSE 0
    BY DEF MLockExclusive
  <2> DEFINE S == {t \in Task : MHolds(t, n)}
  <2>1. \A t, u \in S : t = u
    BY <1>1 DEF MHolds, MHolders, Holding
  <2>2. S = {} <=> n \notin flg
    BY <1>1 DEF MHolds, MHolders, Holding
  <2>3. S \subseteq Task
    OBVIOUS
  <2> HIDE DEF S
  <2>4. Cardinality(S) = IF S = {} THEN 0 ELSE 1
    BY <2>1, <2>3, SmallSet
  <2> QED BY <2>2, <2>4 DEF S
<1>4. MNoLostUnlock
  <2> SUFFICES ASSUME NEW n \in FlgBit, NEW t \in Task, MWaits(t, n)
               PROVE  \E u \in Task :
                        /\ no[u] = n
                        /\ \/ pc[u] \in {"got", "in", "unl", "set", "bts"}
                           \/ pc[u] = "wai" /\ kn.state[u] \notin WaitBit /\ kn.wercd[u] = "E_OK"
    BY DEF MNoLostUnlock
  <2>1. t \in w /\ no[t] = n
    BY DEF MWaits, Waiting
  <2>2. PICK u \in Task : Witness(w, R, pc, no, u, n)
    BY <1>1, <2>1 DEF MServed
  <2> QED BY <2>2 DEF Witness, Trying, Waiting, Woken
<1> QED BY <1>2, <1>3, <1>4 DEF MLockExact

\* fastmlock.c, for any number of tasks and locks: whatever is preempted,
\* suspended, released, timed out, created, reprioritized or terminated
\* between the test of the bit, tk_wai_flg and the next test, a lock whose
\* bit is set has exactly one holder, another one none, and lock->wai counts
\* every task in MLockTmo.
THEOREM MLockSpecExact ==
    ASSUME LockHooks
    PROVE  MLockSpec => []MLockExact
<1>1. MLockInit => MLockInv
  BY MLockFirst
<1>2. MLockInv /\ [MLockNext]_<<vars, pc, mvars>> => MLockInv'
  BY MLockStep DEF MLockVars
<1>3. MLockInv => MLockExact
  BY MLockInvExact
<1> QED BY <1>1, <1>2, <1>3, PTL DEF MLockSpec

\* fastmlock.c, MUnlock: lock->wai is read after the bit has been reset and
\* without interrupts disabled, and tk_set_flg may come before the tk_wai_flg
\* it is for; still no task waits for a lock that nobody has, gives back or
\* will try to take.
THEOREM MLockSpecNoLostUnlock ==
    ASSUME LockHooks
    PROVE  MLockSpec => []MNoLostUnlock
<1>1. MLockInit => MLockInv
  BY MLockFirst
<1>2. MLockInv /\ [MLockNext]_<<vars, pc, mvars>> => MLockInv'
  BY MLockStep DEF MLockVars
<1>3. MLockInv => MNoLostUnlock
  BY MLockInvExact
<1> QED BY <1>1, <1>2, <1>3, PTL DEF MLockSpec

=============================================================================
