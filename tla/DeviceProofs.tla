---------------------------- MODULE DeviceProofs ----------------------------
(***************************************************************************)
(* Theorems about Device.                                                  *)
(***************************************************************************)
EXTENDS Device, SequenceFacts, FiniteSetTheorems

-----------------------------------------------------------------------------
(***************************************************************************)
(* The inductive invariants                                                *)
(***************************************************************************)
DdevSet == {NoObj} \cup UNION {DDev[nm] : nm \in Name}
DevRec == [devnm : Name \cup {NoObj}, ddev : DdevSet, openq : Seq(OpnCB)]
OpnRec == [devcb : DevCB \cup {NoObj}, unitno : Units, omode : OpenModes \cup {{}},
           requestq : Seq(ReqCB), waitone : Int, waireqlst : Seq(ReqCB),
           abort_tskid : Tsk \cup {NoObj}, abort_cnt : Int, sem : Int, resid : {0, 1}]
ReqRec == [opncb : OpnCB \cup {NoObj}, tskid : Tsk \cup {NoObj}]
Tables == [dev : [DevCB -> DevRec], used : Seq(DevCB), freedev : Seq(DevCB),
           opn : [OpnCB -> OpnRec], freeopn : Seq(OpnCB), resq : Seq(OpnCB),
           req : [ReqCB -> ReqRec], freereq : Seq(ReqCB), DisSusCnt : 0..MaxDisSus]
Local == [o : OpnCB \cup {NoObj}, reqs : Seq(ReqCB), any : BOOLEAN, fn : BOOLEAN,
          pass : 0..4, todo : Seq(DevCB), all : BOOLEAN]

Aborting == {"abort", "aborted", "abtwai", "abtend"}
Holding == Aborting \cup {"open", "drain", "close", "closefn"}
Driving == {"exec", "wait"}
Place == Holding \cup Driving \cup {"out", "sus", "susev"}

\* The types of the local variables and of the tables.
Controlled ==
    /\ pc \in [Tsk -> Place] /\ loc \in [Tsk -> Local]
    /\ \A t \in Tsk :
         /\ pc[t] \in Holding \cup Driving => loc[t].o \in OpnCB
         /\ pc[t] \in Driving => loc[t].reqs # <<>>

Typed ==
    /\ dm \in Tables /\ Controlled
    /\ lockREG \in Tsk \cup {NoObj} /\ told \subseteq Tsk \cup {NoObj}
    /\ suspended \subseteq DevCB

\* The devices the loop of the pass has come past.
Passed(t) == {dm.used[i] : i \in 1..Len(dm.used) - Len(loc[t].todo)}
Disks == {d \in ToSet(dm.used) : dm.dev[d].ddev.disk}

\* What is suspended follows from the pass and the rest of its loop.
SuspendInv ==
    /\ \A t \in Tsk : pc[t] = "susev" <=> lockREG = t
    /\ lockREG = NoObj => suspended = {}
    /\ \A t \in Tsk : pc[t] = "susev" =>
         /\ Len(loc[t].todo) <= Len(dm.used)
         /\ loc[t].todo = SubSeq(dm.used, Len(dm.used) - Len(loc[t].todo) + 1, Len(dm.used))
         /\ loc[t].pass \in 1..4
         /\ loc[t].pass = 1 => suspended = Passed(t) \ Disks
         /\ loc[t].pass = 2 => suspended = (ToSet(dm.used) \ Disks) \cup (Passed(t) \cap Disks)
         /\ loc[t].pass = 3 => suspended = ToSet(dm.used) \ (Passed(t) \cap Disks)
         /\ loc[t].pass = 4 => suspended = (ToSet(dm.used) \ Disks) \ Passed(t)

Holds(t) == pc[t] \in Holding

\* A device control block is in the list of devices, under a name of its own,
\* or free.
DevInv ==
    /\ IsInjective(dm.used) /\ IsInjective(dm.freedev)
    /\ ToSet(dm.used) \cap ToSet(dm.freedev) = {}
    /\ ToSet(dm.used) \cup ToSet(dm.freedev) = DevCB
    /\ \A d, e \in ToSet(dm.used) : dm.dev[d].devnm = dm.dev[e].devnm => d = e
    /\ \A d \in ToSet(dm.used) : dm.dev[d].ddev.disk \in BOOLEAN

\* An open control block is free, or on the queues of its device and of the
\* process, or with the task that calls closefn; only one task opens or closes
\* it.
OpnTables(k) ==
    /\ IsInjective(k.freeopn) /\ IsInjective(k.resq)
    /\ \A d \in DevCB : IsInjective(k.dev[d].openq)
    /\ \A d \in DevCB : \A o \in ToSet(k.dev[d].openq) :
         k.opn[o].devcb = d /\ d \in ToSet(k.used)
    /\ \A o \in OpnCB : o \in ToSet(k.resq) <=> k.opn[o].devcb # NoObj
    /\ \A o \in ToSet(k.resq) : o \in ToSet(k.dev[k.opn[o].devcb].openq)
    /\ \A o \in ToSet(k.freeopn) : k.opn[o].devcb = NoObj
    /\ \A o \in OpnCB : k.opn[o].devcb = NoObj => k.opn[o].resid = 0

Holders ==
    /\ \A o \in OpnCB : dm.opn[o].devcb = NoObj =>
         o \in ToSet(dm.freeopn) \/ \E t \in Tsk : pc[t] = "closefn" /\ loc[t].o = o
    /\ \A t \in Tsk : Holds(t) =>
         /\ dm.opn[loc[t].o].resid = 0 /\ loc[t].o \notin ToSet(dm.freeopn)
         /\ pc[t] = "closefn" <=> dm.opn[loc[t].o].devcb = NoObj
    /\ \A t, u \in Tsk : Holds(t) /\ Holds(u) /\ t # u => loc[t].o # loc[u].o

OpnInv == OpnTables(dm) /\ Holders

\* What OpenModesExclusive says, of the tables k: the mode l excludes nothing
\* that m asks for.
Apart(l, m) ==
    /\ l \cap {"EXCL", "REXCL"} # {} => "READ" \notin m
    /\ l \cap {"EXCL", "WEXCL"} # {} => "WRITE" \notin m
Modes(k) ==
    \A d \in DevCB : \A o, p \in ToSet(k.dev[d].openq) :
        o # p /\ Overlaps(k.opn[o].unitno, k.opn[p].unitno) =>
            Apart(k.opn[o].omode, k.opn[p].omode)

\* The device a task is at work for, in the driver or closing or opening it.
At(t) == IF pc[t] \in Holding \cup Driving THEN loc[t].o ELSE NoObj
Drives(t, o) == pc[t] \in Driving /\ loc[t].o = o
AnyWaits(t, o) == pc[t] = "wait" /\ loc[t].any /\ loc[t].o = o
\* The requests of a device, those a task executes or waits for, and those it
\* waits for singly.
ReqOf(o) == {r \in ReqCB : dm.req[r].opncb = o}
Busy(o) == {r \in ReqOf(o) : dm.req[r].tskid # NoObj}
Waits(o) == {r \in Busy(o) : pc[dm.req[r].tskid] = "wait" /\ ~loc[dm.req[r].tskid].any}

\* A request control block is free or a request of one open device, and
\* marked with the task that is in the driver for it.
Marks(o) ==
    /\ IsInjective(dm.opn[o].requestq) /\ ToSet(dm.opn[o].requestq) = ReqOf(o)
    /\ dm.opn[o].devcb = NoObj => dm.opn[o] = UnusedOpn
    /\ \A r \in Busy(o) :
         LET t == dm.req[r].tskid IN Drives(t, o) /\ r \in ToSet(loc[t].reqs)
    /\ \A t \in Tsk : Drives(t, o) =>
         /\ \A r \in ToSet(loc[t].reqs) : r \in ReqOf(o) /\ dm.req[r].tskid = t
         /\ ~loc[t].any => loc[t].reqs = <<Head(loc[t].reqs)>>
         /\ pc[t] = "exec" => ~loc[t].any

\* A wait for any request is the only call of the driver for its device, and
\* the single waits are counted.
Waiting(o) ==
    /\ dm.opn[o].waireqlst # <<>> => \E t \in Tsk : AnyWaits(t, o)
    /\ \A t \in Tsk : AnyWaits(t, o) =>
         /\ dm.opn[o].waireqlst = loc[t].reqs
         /\ \A u \in Tsk : Drives(u, o) => u = t
    /\ dm.opn[o].waitone = Cardinality(Waits(o))

\* The calls of the driver that a task that aborts them has to count.
Calls(o) == IF dm.opn[o].waireqlst # <<>> THEN 1 ELSE Cardinality(Busy(o))

\* While a task aborts the calls of the driver their number is known to it,
\* and the semaphore is signalled when it comes to zero.
Counts == {"aborted", "abtwai", "abtend"}
Signalled(t, o) ==
    /\ pc[t] \in {"open", "abort"} => dm.opn[o].sem = 0
    /\ pc[t] \in Counts => dm.opn[o].abort_tskid = t /\ dm.opn[o].abort_cnt = Calls(o)
    /\ pc[t] = "aborted" => dm.opn[o].abort_cnt = 0 \/ dm.opn[o].sem = 0
    /\ pc[t] = "abtwai" => dm.opn[o].sem = (IF dm.opn[o].abort_cnt = 0 THEN 1 ELSE 0)
    /\ pc[t] = "abtend" => dm.opn[o].abort_cnt = 0
    /\ pc[t] \in {"open", "drain", "close"} => Busy(o) = {}
    /\ pc[t] \in {"open", "close"} => dm.opn[o].requestq = <<>>
    /\ pc[t] # "drain" => loc[t].reqs = <<>>
    /\ pc[t] = "drain" /\ loc[t].reqs # <<>> => Head(loc[t].reqs) \in ReqOf(o)
Signals(o) ==
    /\ dm.opn[o].abort_cnt \in Nat /\ dm.opn[o].sem \in {0, 1}
    /\ dm.opn[o].sem = 1 => \E t \in Tsk : Holds(t) /\ loc[t].o = o
    /\ dm.opn[o].abort_tskid # NoObj => \E t \in Tsk : pc[t] \in Counts /\ loc[t].o = o
    /\ \A t \in Tsk : Holds(t) /\ loc[t].o = o => Signalled(t, o)

Block(o) == Marks(o) /\ Waiting(o) /\ Signals(o)
FreeReqs == IsInjective(dm.freereq) /\ ToSet(dm.freereq) = ReqOf(NoObj)
ReqInv == FreeReqs /\ told \subseteq Tsk /\ \A o \in OpnCB : Block(o)

-----------------------------------------------------------------------------
(***************************************************************************)
(* Queues as sets of entries                                               *)
(***************************************************************************)
\* The entries of a queue, as the facts about sequences name them.
LEMMA EntriesOf ==
    ASSUME NEW S, NEW s \in Seq(S)
    PROVE  /\ \A u : u \in ToSet(s) <=> Contains(s, u)
           /\ ToSet(s) \subseteq S
           /\ s # <<>> => Head(s) \in ToSet(s)
           /\ s = <<>> => ToSet(s) = {}
           /\ ToSet(s) = {} => s = <<>>
<1>1. /\ DOMAIN s = 1..Len(s) /\ Len(s) \in Nat
      /\ \A j \in 1..Len(s) : s[j] \in S
  BY LenProperties, ElementOfSeq
<1>2. \A u : u \in ToSet(s) <=> Contains(s, u)
  BY <1>1 DEF ToSet, Contains
<1>3. ToSet(s) \subseteq S
  BY <1>1 DEF ToSet
<1>4. ASSUME s # <<>> PROVE Head(s) \in ToSet(s)
  <2>1. Head(s) = s[1] /\ Len(s) # 0
    BY <1>4, EmptySeq, HeadTailProperties
  <2> QED BY <2>1, <1>1 DEF ToSet
<1>5. s = <<>> => ToSet(s) = {}
  BY <1>1 DEF ToSet
<1> QED BY <1>2, <1>3, <1>4, <1>5

\* Taking an entry out leaves the others.
LEMMA QueRemoveEntry ==
    ASSUME NEW S, NEW s \in Seq(S), NEW e
    PROVE  /\ QueRemove(s, e) \in Seq(S)
           /\ IsInjective(s) =>
                IsInjective(QueRemove(s, e)) /\ ToSet(QueRemove(s, e)) = ToSet(s) \ {e}
<1> DEFINE i == CHOOSE j \in DOMAIN s : s[j] = e
<1>1. DOMAIN s = 1..Len(s)
  BY LenProperties
<1>2. CASE e \notin ToSet(s)
  BY <1>2 DEF QueRemove
<1>3. CASE e \in ToSet(s)
  <2>1. QueRemove(s, e) = RemoveAt(s, i)
    BY <1>3 DEF QueRemove
  <2>2. i \in 1..Len(s)
    BY <1>1, <1>3 DEF ToSet
  <2>3. QueRemove(s, e) \in Seq(S)
    <3> HIDE DEF i
    <3> QED BY <2>1, <2>2, RemoveAtIndex
  <2>4. ASSUME IsInjective(s)
        PROVE  IsInjective(QueRemove(s, e)) /\ ToSet(QueRemove(s, e)) = ToSet(s) \ {e}
    <3>1. Contains(s, e)
      BY <1>3, EntriesOf
    <3> DEFINE r == RemoveAt(s, CHOOSE j \in DOMAIN s : s[j] = e)
    <3>2. r \in Seq(S) /\ IsInjective(r) /\ (Ordered(s, e) => Ordered(r, e))
      BY <2>4, <3>1, RemoveEntry
    <3>3. ASSUME NEW u
          PROVE  (Contains(r, u) <=> Contains(s, u) /\ u # e) /\ (Ordered(s, e) => Ordered(r, e))
      BY <2>4, <3>1, RemoveEntry
    <3>4. QueRemove(s, e) = r
      BY <2>1
    <3> HIDE DEF r
    <3>5. \A u : u \in ToSet(r) <=> u \in ToSet(s) /\ u # e
      <4>1. /\ \A u : u \in ToSet(r) <=> Contains(r, u)
            /\ \A u : u \in ToSet(s) <=> Contains(s, u)
        BY <3>2, EntriesOf
      <4> QED BY <3>3, <4>1
    <3> QED BY <3>2, <3>4, <3>5
  <2> QED BY <2>3, <2>4
<1> QED BY <1>2, <1>3

\* Appending a new entry keeps the others.
LEMMA AppendOne ==
    ASSUME NEW S, NEW s \in Seq(S), NEW e \in S
    PROVE  /\ Append(s, e) \in Seq(S) /\ ToSet(Append(s, e)) = ToSet(s) \cup {e}
           /\ IsInjective(s) /\ e \notin ToSet(s) => IsInjective(Append(s, e))
<1>1. /\ Append(s, e) \in Seq(S) /\ Len(Append(s, e)) = Len(s) + 1
      /\ \A i \in 1..Len(s) : Append(s, e)[i] = s[i]
      /\ Append(s, e)[Len(s) + 1] = e
  BY AppendProperties
<1>2. /\ DOMAIN s = 1..Len(s) /\ DOMAIN Append(s, e) = 1..Len(s) + 1 /\ Len(s) \in Nat
  BY <1>1, LenProperties
<1>3. ToSet(Append(s, e)) = ToSet(s) \cup {e}
  BY <1>1, <1>2 DEF ToSet
<1>4. ASSUME IsInjective(s), e \notin ToSet(s)
      PROVE  IsInjective(Append(s, e))
  BY <1>1, <1>2, <1>4 DEF ToSet, IsInjective
<1> QED BY <1>1, <1>3, <1>4

\* Taking the head off.
LEMMA TailSet ==
    ASSUME NEW S, NEW s \in Seq(S), s # <<>>
    PROVE  /\ Head(s) \in S /\ Head(s) \in ToSet(s) /\ Tail(s) \in Seq(S)
           /\ Len(Tail(s)) = Len(s) - 1
           /\ IsInjective(s) =>
                IsInjective(Tail(s)) /\ ToSet(Tail(s)) = ToSet(s) \ {Head(s)}
<1>1. Head(s) \in S /\ Tail(s) \in Seq(S) /\ Len(Tail(s)) = Len(s) - 1 /\ Head(s) \in ToSet(s)
  BY HeadTailProperties, EntriesOf
<1>2. ASSUME IsInjective(s)
      PROVE  IsInjective(Tail(s)) /\ ToSet(Tail(s)) = ToSet(s) \ {Head(s)}
  <2> DEFINE r == Tail(s)
  <2>1. /\ IsInjective(r)
        /\ \A u : Contains(r, u) <=> Contains(s, u) /\ u # Head(s)
    BY <1>2, TailEntries
  <2>2. r \in Seq(S)
    BY <1>1
  <2> HIDE DEF r
  <2>3. \A u : u \in ToSet(r) <=> u \in ToSet(s) /\ u # Head(s)
    <3>1. /\ \A u : u \in ToSet(r) <=> Contains(r, u)
          /\ \A u : u \in ToSet(s) <=> Contains(s, u)
      BY <2>2, EntriesOf
    <3> QED BY <2>1, <3>1
  <2> QED BY <2>1, <2>3 DEF r
<1> QED BY <1>1, <1>2

\* Two queues that have no entry twice, nor any entry in common.
LEMMA InjectiveConcat ==
    ASSUME NEW S, NEW s \in Seq(S), NEW q \in Seq(S), IsInjective(s), IsInjective(q),
           ToSet(s) \cap ToSet(q) = {}
    PROVE  IsInjective(s \o q) /\ ToSet(s \o q) = ToSet(s) \cup ToSet(q)
<1> DEFINE c == s \o q
           m == Len(s)
           n == Len(q)
<1>1. /\ c \in Seq(S) /\ Len(c) = m + n /\ m \in Nat /\ n \in Nat
      /\ DOMAIN s = 1..m /\ DOMAIN q = 1..n
      /\ \A i \in 1..m + n : c[i] = IF i <= m THEN s[i] ELSE q[i - m]
  BY ConcatProperties, LenProperties
<1>2. DOMAIN c = 1..m + n
  BY <1>1, LenProperties
<1> HIDE DEF c, m, n
<1>3. (\A i \in 1..m : s[i] \in ToSet(s)) /\ \A i \in 1..n : q[i] \in ToSet(q)
  BY <1>1 DEF ToSet
<1>4. \A i \in 1..m + n : i <= m => i \in 1..m /\ c[i] = s[i] /\ c[i] \in ToSet(s)
  <2> SUFFICES ASSUME NEW i \in 1..m + n, i <= m
               PROVE  i \in 1..m /\ c[i] = s[i] /\ c[i] \in ToSet(s)
    OBVIOUS
  <2>1. i \in 1..m /\ c[i] = s[i]
    BY <1>1
  <2> QED BY <1>3, <2>1
<1>5. \A i \in 1..m + n : ~(i <= m) => i - m \in 1..n /\ c[i] = q[i - m] /\ c[i] \in ToSet(q)
  <2> SUFFICES ASSUME NEW i \in 1..m + n, ~(i <= m)
               PROVE  i - m \in 1..n /\ c[i] = q[i - m] /\ c[i] \in ToSet(q)
    OBVIOUS
  <2>1. i - m \in 1..n /\ c[i] = q[i - m]
    BY <1>1
  <2> QED BY <1>3, <2>1
<1>6. IsInjective(c)
  <2> SUFFICES ASSUME NEW i \in 1..m + n, NEW j \in 1..m + n, c[i] = c[j]
               PROVE  i = j
    BY <1>2 DEF IsInjective
  <2>1. CASE i <= m /\ j <= m
    BY <1>1, <1>4, <2>1 DEF IsInjective
  <2>2. CASE ~(i <= m) /\ ~(j <= m)
    <3>1. i - m = j - m
      BY <1>1, <1>5, <2>2 DEF IsInjective
    <3> QED BY <1>1, <3>1
  <2>3. CASE i <= m /\ ~(j <= m)
    BY <1>4, <1>5, <2>3
  <2>4. CASE ~(i <= m) /\ j <= m
    BY <1>4, <1>5, <2>4
  <2> QED BY <2>1, <2>2, <2>3, <2>4
<1>7. ToSet(c) = ToSet(s) \cup ToSet(q)
  <2>1. ToSet(c) \subseteq ToSet(s) \cup ToSet(q)
    BY <1>2, <1>4, <1>5 DEF ToSet
  <2>2. ASSUME NEW i \in 1..m PROVE s[i] \in ToSet(c)
    <3>1. i \in 1..m + n /\ c[i] = s[i]
      BY <1>1
    <3> QED BY <1>2, <3>1 DEF ToSet
  <2>3. ASSUME NEW i \in 1..n PROVE q[i] \in ToSet(c)
    <3> SUFFICES ASSUME NEW j, j = i + m PROVE q[i] \in ToSet(c)
      OBVIOUS
    <3>1. j \in 1..m + n /\ ~(j <= m) /\ j - m = i
      BY <1>1
    <3>2. c[j] = q[i]
      BY <1>5, <3>1
    <3>3. c[j] \in ToSet(c)
      BY <1>2, <3>1 DEF ToSet
    <3> QED BY <3>2, <3>3
  <2>4. ToSet(s) \subseteq ToSet(c)
    <3>1. DOMAIN s = 1..m
      BY <1>1
    <3> QED BY ONLY <2>2, <3>1, Zenon DEF ToSet
  <2>5. ToSet(q) \subseteq ToSet(c)
    <3>1. DOMAIN q = 1..n
      BY <1>1
    <3> QED BY ONLY <2>3, <3>1, Zenon DEF ToSet
  <2> QED BY <2>1, <2>4, <2>5
<1> QED BY <1>6, <1>7 DEF c

\* All free control blocks are in the free queue that start-up builds.
LEMMA FreeQueue ==
    ASSUME NEW S, IsFiniteSet(S)
    PROVE  /\ SetToSeq(S) \in Seq(S) /\ IsInjective(SetToSeq(S))
           /\ ToSet(SetToSeq(S)) = S
<1> DEFINE n == Cardinality(S)
           q == SetToSeq(S)
<1>1. n \in Nat /\ \E f : f \in [1..n -> S] /\ IsInjective(f)
  <2>1. n \in Nat /\ ExistsBijection(1..n, S)
    BY FS_CardinalityType
  <2> QED BY <2>1 DEF ExistsBijection, Bijection, Injection, IsInjective
<1>2. q \in [1..n -> S] /\ IsInjective(q)
  BY <1>1 DEF SetToSeq
<1> HIDE DEF q
<1>3. q \in Seq(S) /\ DOMAIN q = 1..n
  BY <1>1, <1>2, SeqDef
<1>4. \A e \in S : e \in ToSet(q)
  <2> SUFFICES ASSUME NEW e \in S, e \notin ToSet(q) PROVE FALSE
    OBVIOUS
  <2>1. q \in [1..n -> S \ {e}]
    BY <1>2, <1>3 DEF ToSet
  <2>2. IsFiniteSet(S \ {e}) /\ Cardinality(S \ {e}) = n - 1
    BY FS_RemoveElement
  <2>3. IsFiniteSet(1..n) /\ Cardinality(1..n) = n
    BY <1>1, FS_Interval
  <2>4. \E x, y \in 1..n : x # y /\ q[x] = q[y]
    BY <2>1, <2>2, <2>3, <1>1, FS_PigeonHole
  <2> QED BY <2>4, <1>2, <1>3 DEF IsInjective
<1>5. ToSet(q) \subseteq S
  BY <1>2, <1>3 DEF ToSet
<1> QED BY <1>2, <1>3, <1>4, <1>5 DEF q

-----------------------------------------------------------------------------
(***************************************************************************)
(* What the helpers do to the tables                                       *)
(***************************************************************************)
\* The constants are no control blocks; what is unused has its type.
LEMMA Constants ==
    /\ NoObj \notin Tsk /\ NoObj \notin DevCB /\ NoObj \notin OpnCB /\ NoObj \notin ReqCB
    /\ NoObj \notin Name /\ 0 \in Units /\ MaxDisSus \in Nat
    /\ IsFiniteSet(ReqCB)
    /\ UnusedDev \in DevRec /\ UnusedOpn \in OpnRec /\ UnusedReq \in ReqRec /\ Idle \in Local
<1>1. <<>> \in Seq(OpnCB) /\ <<>> \in Seq(ReqCB) /\ <<>> \in Seq(DevCB)
  BY EmptySeq
<1>2. /\ NoObj \notin Tsk /\ NoObj \notin DevCB /\ NoObj \notin OpnCB /\ NoObj \notin ReqCB
      /\ NoObj \notin Name /\ 0 \in Units /\ MaxDisSus \in Nat /\ IsFiniteSet(ReqCB)
  BY DeviceAssumption
<1>3. UnusedDev \in DevRec /\ UnusedReq \in ReqRec
  <2>1. NoObj \in DdevSet /\ NoObj \in Name \cup {NoObj}
        /\ NoObj \in OpnCB \cup {NoObj} /\ NoObj \in Tsk \cup {NoObj}
    BY DEF DdevSet
  <2>2. UnusedDev \in DevRec
    BY ONLY <2>1, <1>1, SMTT(60) DEF UnusedDev, DevRec
  <2>3. UnusedReq \in ReqRec
    BY ONLY <2>1, SMTT(60) DEF UnusedReq, ReqRec
  <2> QED BY <2>2, <2>3
<1>4. UnusedOpn \in OpnRec
  <2>1. <<>> \in Seq(ReqCB) /\ 0 \in Units
    BY <1>1, <1>2
  <2> QED BY ONLY <2>1, SMTT(60) DEF UnusedOpn, OpnRec
<1>5. Idle \in Local
  BY <1>1 DEF Idle, Local
<1> QED BY <1>2, <1>3, <1>4, <1>5

\* The tables that n and k have in common.
SameDev(n, k) == n.dev = k.dev /\ n.used = k.used /\ n.freedev = k.freedev
SameReq(n, k) == n.req = k.req /\ n.freereq = k.freereq
Table == {"dev", "used", "freedev", "opn", "freeopn", "resq", "req", "freereq", "DisSusCnt"}
Shape(n) == DOMAIN n = Table /\ n = [f \in Table |-> n[f]]
SameRest(n, k) == Shape(n) /\ n.used = k.used /\ n.freedev = k.freedev /\ n.DisSusCnt = k.DisSusCnt

NewOpn(d, unit, omode) == [UnusedOpn EXCEPT !.devcb = d, !.unitno = unit, !.omode = omode]

LEMMA NewOpnFields ==
    ASSUME NEW k \in Tables, NEW o \in OpnCB, NEW d \in DevCB,
           NEW unit \in Units, NEW omode \in OpenModes
    PROVE  LET n == NewOpnCB(k, o, d, unit, omode)
           IN  /\ SameRest(n, k) /\ SameReq(n, k)
               /\ n.opn = [k.opn EXCEPT ![o] = NewOpn(d, unit, omode)]
               /\ n.dev = [k.dev EXCEPT ![d].openq = Append(@, o)]
               /\ n.freeopn = Tail(k.freeopn) /\ n.resq = Append(k.resq, o)
<1> DEFINE x == NewOpn(d, unit, omode)
           n == NewOpnCB(k, o, d, unit, omode)
<1>1. n = [k EXCEPT !.freeopn = Tail(@), !.dev[d].openq = Append(@, o),
                    !.resq = Append(@, o), !.opn[o] = x]
  BY Zenon DEF NewOpnCB, NewOpn
<1> HIDE DEF x, n
<1>2. n.opn = [k.opn EXCEPT ![o] = x]
  BY <1>1 DEF Tables
<1>3. n.dev = [k.dev EXCEPT ![d].openq = Append(@, o)]
  BY <1>1 DEF Tables
<1>4. /\ n.freeopn = Tail(k.freeopn) /\ n.resq = Append(k.resq, o)
      /\ SameRest(n, k) /\ SameReq(n, k)
  BY <1>1 DEF Tables, SameRest, SameReq, Shape, Table
<1> QED BY <1>2, <1>3, <1>4 DEF x, n

LEMMA DelOpnFields ==
    ASSUME NEW k \in Tables, NEW o \in OpnCB, NEW free \in BOOLEAN
    PROVE  LET n == DelOpnCB(k, o, free)
               d == k.opn[o].devcb
           IN  /\ SameRest(n, k) /\ SameReq(n, k)
               /\ n.dev = [k.dev EXCEPT ![d].openq = QueRemove(@, o)]
               /\ n.opn = [k.opn EXCEPT ![o] = UnusedOpn]
               /\ n.resq = QueRemove(k.resq, o)
               /\ n.freeopn = IF free THEN Append(k.freeopn, o) ELSE k.freeopn
BY DEF DelOpnCB, Tables, SameRest, SameReq, Shape, Table

LEMMA DelReqFields ==
    ASSUME NEW k \in Tables, NEW r \in ReqCB
    PROVE  LET n == DelReqCB(k, r)
               o == k.req[r].opncb
           IN  /\ SameRest(n, k) /\ n.dev = k.dev /\ n.resq = k.resq /\ n.freeopn = k.freeopn
               /\ n.opn = [k.opn EXCEPT ![o].requestq = QueRemove(@, r)]
               /\ n.req = [k.req EXCEPT ![r] = UnusedReq]
               /\ n.freereq = Append(k.freereq, r)
BY DEF DelReqCB, Tables, SameRest, Shape, Table

Counted(x) == [x EXCEPT !.abort_cnt = x.abort_cnt - 1,
                        !.sem = IF x.abort_cnt = 1 THEN 1 ELSE x.sem]

LEMMA AbortCountedFields ==
    ASSUME NEW k \in Tables, NEW o \in OpnCB
    PROVE  LET n == AbortCounted(k, o)
           IN  /\ SameRest(n, k) /\ SameReq(n, k)
               /\ n.dev = k.dev /\ n.resq = k.resq /\ n.freeopn = k.freeopn
               /\ n.opn = IF k.opn[o].abort_tskid = NoObj THEN k.opn
                          ELSE [k.opn EXCEPT ![o] = Counted(k.opn[o])]
<1>1. CASE k.opn[o].abort_tskid = NoObj
  BY <1>1 DEF AbortCounted, Tables, SameRest, SameReq, Shape, Table
<1>2. CASE k.opn[o].abort_tskid # NoObj
  <2> DEFINE n == AbortCounted(k, o)
  <2>1. /\ SameRest(n, k) /\ SameReq(n, k)
        /\ n.dev = k.dev /\ n.resq = k.resq /\ n.freeopn = k.freeopn
    BY <1>2 DEF AbortCounted, Tables, SameRest, SameReq, Shape, Table
  <2>2. n.opn = [k.opn EXCEPT ![o] = Counted(k.opn[o])]
    BY <1>2 DEF AbortCounted, Tables, Counted
  <2> QED BY <1>2, <2>1, <2>2
<1> QED BY <1>1, <1>2

\* Tables are made of their parts.
LEMMA TablesOf ==
    ASSUME NEW n, Shape(n),
           n.dev \in [DevCB -> DevRec], n.used \in Seq(DevCB), n.freedev \in Seq(DevCB),
           n.opn \in [OpnCB -> OpnRec], n.freeopn \in Seq(OpnCB), n.resq \in Seq(OpnCB),
           n.req \in [ReqCB -> ReqRec], n.freereq \in Seq(ReqCB), n.DisSusCnt \in 0..MaxDisSus
    PROVE  n \in Tables
BY DEF Tables, Shape, Table

\* One open control block gets a new content, and nothing else changes.
OpnUpdate(n, k, o, x) ==
    /\ SameRest(n, k) /\ SameReq(n, k) /\ n.dev = k.dev /\ n.freeopn = k.freeopn /\ n.resq = k.resq
    /\ n.opn = [k.opn EXCEPT ![o] = x]

LEMMA OpnUpdateTyped ==
    ASSUME NEW k \in Tables, NEW n, NEW o, NEW x \in OpnRec, OpnUpdate(n, k, o, x)
    PROVE  n \in Tables
<1>1. n.opn \in [OpnCB -> OpnRec]
  BY DEF OpnUpdate, Tables
<1>2. Shape(n)
  BY DEF OpnUpdate, SameRest
<1>3. /\ n.dev \in [DevCB -> DevRec] /\ n.used \in Seq(DevCB) /\ n.freedev \in Seq(DevCB)
      /\ n.freeopn \in Seq(OpnCB) /\ n.resq \in Seq(OpnCB)
      /\ n.req \in [ReqCB -> ReqRec] /\ n.freereq \in Seq(ReqCB) /\ n.DisSusCnt \in 0..MaxDisSus
  BY DEF OpnUpdate, SameRest, SameReq, Tables
<1> QED BY <1>1, <1>2, <1>3, TablesOf

\* The helpers keep the types of the tables.
LEMMA NewOpnTyped ==
    ASSUME NEW k \in Tables, NEW o \in OpnCB, NEW d \in DevCB, NEW unit \in Units,
           NEW omode \in OpenModes, k.freeopn # <<>>
    PROVE  NewOpn(d, unit, omode) \in OpnRec /\ NewOpnCB(k, o, d, unit, omode) \in Tables
<1> DEFINE n == NewOpnCB(k, o, d, unit, omode)
<1>1. NewOpn(d, unit, omode) \in OpnRec
  BY Constants DEF NewOpn, OpnRec
<1>2. /\ k.freeopn \in Seq(OpnCB) /\ k.resq \in Seq(OpnCB) /\ k.dev[d].openq \in Seq(OpnCB)
      /\ k.dev \in [DevCB -> DevRec] /\ k.opn \in [OpnCB -> OpnRec]
  BY DEF Tables, DevRec
<1>3. /\ Tail(k.freeopn) \in Seq(OpnCB) /\ Append(k.resq, o) \in Seq(OpnCB)
      /\ Append(k.dev[d].openq, o) \in Seq(OpnCB)
  BY <1>2, TailSet, AppendOne
<1>4. /\ SameRest(n, k) /\ SameReq(n, k)
      /\ n.opn = [k.opn EXCEPT ![o] = NewOpn(d, unit, omode)]
      /\ n.dev = [k.dev EXCEPT ![d].openq = Append(@, o)]
      /\ n.freeopn = Tail(k.freeopn) /\ n.resq = Append(k.resq, o)
  BY NewOpnFields
<1> HIDE DEF n
<1>5. n.opn \in [OpnCB -> OpnRec] /\ n.freeopn \in Seq(OpnCB) /\ n.resq \in Seq(OpnCB)
  BY <1>1, <1>2, <1>3, <1>4
<1>6. n.dev \in [DevCB -> DevRec]
  BY <1>2, <1>3, <1>4 DEF DevRec
<1>7. /\ n.used \in Seq(DevCB) /\ n.freedev \in Seq(DevCB) /\ Shape(n)
      /\ n.req \in [ReqCB -> ReqRec] /\ n.freereq \in Seq(ReqCB) /\ n.DisSusCnt \in 0..MaxDisSus
  BY <1>4 DEF SameRest, SameReq, Tables
<1> QED BY <1>1, <1>5, <1>6, <1>7, TablesOf DEF n

LEMMA DelOpnTyped ==
    ASSUME NEW k \in Tables, NEW o \in OpnCB, NEW free \in BOOLEAN
    PROVE  DelOpnCB(k, o, free) \in Tables
<1> DEFINE n == DelOpnCB(k, o, free)
           d == k.opn[o].devcb
<1>1. /\ k.freeopn \in Seq(OpnCB) /\ k.resq \in Seq(OpnCB)
      /\ k.dev \in [DevCB -> DevRec] /\ k.opn \in [OpnCB -> OpnRec]
  BY DEF Tables
<1>2. /\ QueRemove(k.resq, o) \in Seq(OpnCB) /\ Append(k.freeopn, o) \in Seq(OpnCB)
  BY <1>1, QueRemoveEntry, AppendOne
<1>3. ASSUME NEW e \in DevCB PROVE QueRemove(k.dev[e].openq, o) \in Seq(OpnCB)
  <2>1. k.dev[e].openq \in Seq(OpnCB)
    BY <1>1 DEF DevRec
  <2> QED BY <2>1, QueRemoveEntry
<1>4. /\ SameRest(n, k) /\ SameReq(n, k)
      /\ n.dev = [k.dev EXCEPT ![d].openq = QueRemove(@, o)]
      /\ n.opn = [k.opn EXCEPT ![o] = UnusedOpn]
      /\ n.resq = QueRemove(k.resq, o)
      /\ n.freeopn = IF free THEN Append(k.freeopn, o) ELSE k.freeopn
  BY DelOpnFields
<1> HIDE DEF n, d
<1>5. n.opn \in [OpnCB -> OpnRec] /\ n.freeopn \in Seq(OpnCB) /\ n.resq \in Seq(OpnCB)
  BY <1>1, <1>2, <1>4, Constants
<1>6. n.dev \in [DevCB -> DevRec]
  <2>1. ASSUME NEW e \in DevCB PROVE [k.dev[e] EXCEPT !.openq = QueRemove(@, o)] \in DevRec
    <3>1. k.dev[e] \in DevRec
      BY <1>1
    <3> QED BY <1>3, <3>1 DEF DevRec
  <2>2. CASE d \in DevCB
    BY <1>1, <1>4, <2>1, <2>2
  <2>3. CASE d \notin DevCB
    BY <1>1, <1>4, <2>3
  <2> QED BY <2>2, <2>3
<1>7. /\ n.used \in Seq(DevCB) /\ n.freedev \in Seq(DevCB) /\ Shape(n)
      /\ n.req \in [ReqCB -> ReqRec] /\ n.freereq \in Seq(ReqCB) /\ n.DisSusCnt \in 0..MaxDisSus
  BY <1>4 DEF SameRest, SameReq, Tables
<1> QED BY <1>5, <1>6, <1>7, TablesOf DEF n

LEMMA DelReqTyped ==
    ASSUME NEW k \in Tables, NEW r \in ReqCB
    PROVE  DelReqCB(k, r) \in Tables
<1> DEFINE n == DelReqCB(k, r)
           o == k.req[r].opncb
<1>1. /\ k.freereq \in Seq(ReqCB) /\ k.req \in [ReqCB -> ReqRec] /\ k.opn \in [OpnCB -> OpnRec]
  BY DEF Tables
<1>2. Append(k.freereq, r) \in Seq(ReqCB)
  BY <1>1, AppendOne
<1>3. ASSUME NEW p \in OpnCB PROVE QueRemove(k.opn[p].requestq, r) \in Seq(ReqCB)
  <2>1. k.opn[p].requestq \in Seq(ReqCB)
    BY <1>1 DEF OpnRec
  <2> QED BY <2>1, QueRemoveEntry
<1>4. /\ SameRest(n, k) /\ n.dev = k.dev /\ n.resq = k.resq /\ n.freeopn = k.freeopn
      /\ n.opn = [k.opn EXCEPT ![o].requestq = QueRemove(@, r)]
      /\ n.req = [k.req EXCEPT ![r] = UnusedReq]
      /\ n.freereq = Append(k.freereq, r)
  BY DelReqFields
<1> HIDE DEF n, o
<1>5. n.opn \in [OpnCB -> OpnRec]
  <2>1. ASSUME NEW p \in OpnCB PROVE [k.opn[p] EXCEPT !.requestq = QueRemove(@, r)] \in OpnRec
    <3>1. k.opn[p] \in OpnRec
      BY <1>1
    <3> QED BY <1>3, <3>1 DEF OpnRec
  <2>2. CASE o \in OpnCB
    BY <1>1, <1>4, <2>1, <2>2
  <2>3. CASE o \notin OpnCB
    BY <1>1, <1>4, <2>3
  <2> QED BY <2>2, <2>3
<1>6. n.req \in [ReqCB -> ReqRec] /\ n.freereq \in Seq(ReqCB)
  BY <1>1, <1>2, <1>4, Constants
<1>7. /\ n.used \in Seq(DevCB) /\ n.freedev \in Seq(DevCB) /\ Shape(n) /\ n.dev \in [DevCB -> DevRec]
      /\ n.freeopn \in Seq(OpnCB) /\ n.resq \in Seq(OpnCB) /\ n.DisSusCnt \in 0..MaxDisSus
  BY <1>4 DEF SameRest, Tables
<1> QED BY <1>5, <1>6, <1>7, TablesOf DEF n

LEMMA AbortCountedTyped ==
    ASSUME NEW k \in Tables, NEW o \in OpnCB
    PROVE  AbortCounted(k, o) \in Tables
<1> DEFINE n == AbortCounted(k, o)
<1>1. /\ k.opn \in [OpnCB -> OpnRec] /\ k.opn[o] \in OpnRec
  BY DEF Tables
<1>2. Counted(k.opn[o]) \in OpnRec
  <2> DEFINE x == k.opn[o]
  <2>1. x \in OpnRec
    BY <1>1
  <2> HIDE DEF x
  <2>2. x.abort_cnt - 1 \in Int /\ (IF x.abort_cnt = 1 THEN 1 ELSE x.sem) \in Int
    BY <2>1 DEF OpnRec
  <2> DEFINE c == x.abort_cnt - 1
             s == IF x.abort_cnt = 1 THEN 1 ELSE x.sem
  <2>3. c \in Int /\ s \in Int /\ Counted(x) = [x EXCEPT !.abort_cnt = c, !.sem = s]
    BY <2>2 DEF Counted
  <2> HIDE DEF c, s
  <2>4. Counted(x) \in OpnRec
    <3>1. [x EXCEPT !.abort_cnt = c] \in OpnRec
      BY <2>1, <2>3 DEF OpnRec
    <3> DEFINE y == [x EXCEPT !.abort_cnt = c]
    <3> HIDE DEF y
    <3>2. [y EXCEPT !.sem = s] \in OpnRec
      BY <3>1, <2>3 DEF OpnRec, y
    <3> QED BY <3>2, <2>3 DEF y
  <2> QED BY <2>4 DEF x
<1>3. CASE k.opn[o].abort_tskid = NoObj
  BY <1>3 DEF AbortCounted
<1>4. CASE k.opn[o].abort_tskid # NoObj
  <2>1. OpnUpdate(n, k, o, Counted(k.opn[o]))
    BY <1>4, AbortCountedFields DEF OpnUpdate
  <2> QED BY <1>2, <2>1, OpnUpdateTyped
<1> QED BY <1>3, <1>4

-----------------------------------------------------------------------------
(***************************************************************************)
(* Every step keeps the types, and what it changes.                        *)
(***************************************************************************)
\* A task goes to another place.
LEMMA GotoControlled ==
    ASSUME Controlled, NEW t \in Tsk, NEW at \in Place, NEW l \in Local, Goto(t, at, l),
           at \in Holding \cup Driving => l.o \in OpnCB,
           at \in Driving => l.reqs # <<>>
    PROVE  Controlled'
BY DEF Controlled, Goto

LEMMA ReturnControlled ==
    ASSUME Controlled, NEW t \in Tsk, Return(t)
    PROVE  Controlled'
<1>1. "out" \in Place /\ "out" \notin Holding \cup Driving
  BY DEF Place, Holding, Driving, Aborting
<1> QED BY <1>1, Constants, GotoControlled DEF Return

\* The local variables a call begins with.
LEMMA LocalOf ==
    ASSUME NEW o \in OpnCB
    PROVE  /\ \A b \in BOOLEAN : [Idle EXCEPT !.o = o, !.fn = b] \in Local
           /\ \A b \in BOOLEAN : [Idle EXCEPT !.o = o, !.all = b] \in Local
           /\ [Idle EXCEPT !.o = o] \in Local
           /\ \A q \in Seq(ReqCB) : [Idle EXCEPT !.o = o, !.reqs = q] \in Local
           /\ \A q \in Seq(ReqCB) : [Idle EXCEPT !.o = o, !.reqs = q, !.any = TRUE] \in Local
<1> DEFINE l == [Idle EXCEPT !.o = o]
<1>1. l \in Local
  BY Constants DEF Local
<1> HIDE DEF l
<1>2. ASSUME NEW b \in BOOLEAN PROVE [l EXCEPT !.fn = b] \in Local /\ [l EXCEPT !.all = b] \in Local
  BY <1>1 DEF Local
<1>3. ASSUME NEW q \in Seq(ReqCB)
      PROVE  [l EXCEPT !.reqs = q] \in Local /\ [l EXCEPT !.reqs = q, !.any = TRUE] \in Local
  BY <1>1 DEF Local
<1> QED BY <1>1, <1>2, <1>3 DEF l

LEMMA UndefDevTyped ==
    ASSUME Typed, NEW t \in Tsk, NEW nm \in Name, UndefDev(t, nm)
    PROVE  /\ Typed'
           /\ \E d \in ToSet(dm.used) :
                /\ dm.dev[d].devnm = nm /\ dm.dev[d].openq = <<>>
                /\ dm'.dev = [dm.dev EXCEPT ![d] = UnusedDev]
                /\ dm'.used = QueRemove(dm.used, d) /\ dm'.freedev = Append(dm.freedev, d)
           /\ dm'.opn = dm.opn /\ dm'.freeopn = dm.freeopn /\ dm'.resq = dm.resq
           /\ SameReq(dm', dm)
<1>1. PICK d \in ToSet(dm.used) :
        /\ dm.dev[d].devnm = nm /\ dm.dev[d].openq = <<>>
        /\ dm' = [dm EXCEPT !.used = QueRemove(@, d), !.freedev = Append(@, d),
                            !.dev[d] = UnusedDev]
  BY DEF UndefDev, Registered
<1>2. dm \in Tables /\ dm.used \in Seq(DevCB) /\ dm.freedev \in Seq(DevCB)
  BY DEF Typed, Tables
<1>3. d \in DevCB
  BY <1>2, EntriesOf
<1>4. QueRemove(dm.used, d) \in Seq(DevCB) /\ Append(dm.freedev, d) \in Seq(DevCB)
  BY <1>2, <1>3, QueRemoveEntry, AppendOne
<1>5. /\ dm'.dev = [dm.dev EXCEPT ![d] = UnusedDev]
      /\ dm'.used = QueRemove(dm.used, d) /\ dm'.freedev = Append(dm.freedev, d)
      /\ dm'.opn = dm.opn /\ dm'.freeopn = dm.freeopn /\ dm'.resq = dm.resq
      /\ SameReq(dm', dm) /\ Shape(dm') /\ dm'.DisSusCnt = dm.DisSusCnt
  BY <1>1, <1>2 DEF Tables, SameReq, Shape, Table
<1>6. dm' \in Tables
  <2>1. dm'.dev \in [DevCB -> DevRec]
    BY <1>2, <1>5, Constants DEF Tables
  <2>2. /\ dm'.opn \in [OpnCB -> OpnRec] /\ dm'.freeopn \in Seq(OpnCB) /\ dm'.resq \in Seq(OpnCB)
        /\ dm'.req \in [ReqCB -> ReqRec] /\ dm'.freereq \in Seq(ReqCB)
        /\ dm'.DisSusCnt \in 0..MaxDisSus
    BY <1>2, <1>5 DEF Tables, SameReq
  <2> QED BY <1>4, <1>5, <2>1, <2>2, TablesOf
<1>7. Typed'
  BY <1>6 DEF Typed, UndefDev, Controlled
<1> QED BY <1>1, <1>5, <1>7

\* A device is registered anew, or its driver registers again.
LEMMA DefDevTyped ==
    ASSUME Typed, NEW t \in Tsk, NEW nm \in Name, NEW ddev \in DDev[nm], DefDev(t, nm, ddev)
    PROVE  /\ Typed'
           /\ \/ \E d \in ToSet(dm.used) :
                   /\ dm'.dev = [dm.dev EXCEPT ![d].ddev = ddev]
                   /\ dm'.used = dm.used /\ dm'.freedev = dm.freedev
              \/ \E d \in DevCB :
                   /\ dm.freedev # <<>> /\ d = Head(dm.freedev)
                   /\ \A e \in ToSet(dm.used) : dm.dev[e].devnm # nm
                   /\ dm'.dev = [dm.dev EXCEPT ![d] = [devnm |-> nm, ddev |-> ddev, openq |-> <<>>]]
                   /\ dm'.used = Append(dm.used, d) /\ dm'.freedev = Tail(dm.freedev)
           /\ dm'.opn = dm.opn /\ dm'.freeopn = dm.freeopn /\ dm'.resq = dm.resq
           /\ SameReq(dm', dm)
<1>1. /\ dm \in Tables /\ dm.used \in Seq(DevCB) /\ dm.freedev \in Seq(DevCB)
      /\ dm.dev \in [DevCB -> DevRec]
  BY DEF Typed, Tables
<1>2. ddev \in DdevSet
  BY DEF DdevSet
<1>3. ASSUME dm'.dev \in [DevCB -> DevRec], dm'.used \in Seq(DevCB), dm'.freedev \in Seq(DevCB),
             dm'.opn = dm.opn, dm'.freeopn = dm.freeopn, dm'.resq = dm.resq,
             SameReq(dm', dm), Shape(dm'), dm'.DisSusCnt = dm.DisSusCnt
      PROVE  Typed'
  <2>1. /\ dm'.opn \in [OpnCB -> OpnRec] /\ dm'.freeopn \in Seq(OpnCB) /\ dm'.resq \in Seq(OpnCB)
        /\ dm'.req \in [ReqCB -> ReqRec] /\ dm'.freereq \in Seq(ReqCB)
        /\ dm'.DisSusCnt \in 0..MaxDisSus
    BY <1>1, <1>3 DEF Tables, SameReq
  <2>2. dm' \in Tables
    BY <1>3, <2>1, TablesOf
  <2> QED BY <2>2 DEF Typed, DefDev, Controlled
<1>4. CASE Registered(nm) # {}
  <2> DEFINE d == CHOOSE d \in Registered(nm) : TRUE
  <2>1. dm' = [dm EXCEPT !.dev[d].ddev = ddev]
    BY <1>4 DEF DefDev
  <2>2. d \in ToSet(dm.used)
    BY <1>4 DEF Registered
  <2> HIDE DEF d
  <2>3. d \in DevCB
    BY <1>1, <2>2, EntriesOf
  <2>4. /\ dm'.dev = [dm.dev EXCEPT ![d].ddev = ddev]
        /\ dm'.used = dm.used /\ dm'.freedev = dm.freedev
        /\ dm'.opn = dm.opn /\ dm'.freeopn = dm.freeopn /\ dm'.resq = dm.resq
        /\ SameReq(dm', dm) /\ Shape(dm') /\ dm'.DisSusCnt = dm.DisSusCnt
    BY <1>1, <2>1 DEF Tables, SameReq, Shape, Table
  <2>5. dm'.dev \in [DevCB -> DevRec]
    BY <1>1, <1>2, <2>4 DEF DevRec
  <2> QED BY <1>1, <1>3, <2>2, <2>4, <2>5
<1>5. CASE Registered(nm) = {}
  <2> DEFINE d == Head(dm.freedev)
             x == [devnm |-> nm, ddev |-> ddev, openq |-> <<>>]
  <2>1. dm.freedev # <<>> /\ dm' = [dm EXCEPT !.freedev = Tail(@), !.used = Append(@, d), !.dev[d] = x]
    BY <1>5 DEF DefDev
  <2>2. d \in DevCB /\ Tail(dm.freedev) \in Seq(DevCB) /\ Append(dm.used, d) \in Seq(DevCB)
    BY <1>1, <2>1, TailSet, AppendOne
  <2>3. x \in DevRec
    <3>1. <<>> \in Seq(OpnCB)
      BY EmptySeq
    <3> QED BY <1>2, <3>1 DEF DevRec
  <2> HIDE DEF d, x
  <2>4. /\ dm'.dev = [dm.dev EXCEPT ![d] = x]
        /\ dm'.used = Append(dm.used, d) /\ dm'.freedev = Tail(dm.freedev)
        /\ dm'.opn = dm.opn /\ dm'.freeopn = dm.freeopn /\ dm'.resq = dm.resq
        /\ SameReq(dm', dm) /\ Shape(dm') /\ dm'.DisSusCnt = dm.DisSusCnt
    BY <1>1, <2>1 DEF Tables, SameReq, Shape, Table
  <2>5. dm'.dev \in [DevCB -> DevRec]
    BY <1>1, <2>2, <2>3, <2>4
  <2>6. Typed'
    BY <1>3, <2>2, <2>4, <2>5
  <2>7. \A e \in ToSet(dm.used) : dm.dev[e].devnm # nm
    BY <1>5 DEF Registered
  <2> QED BY <2>1, <2>2, <2>4, <2>6, <2>7 DEF d, x
<1> QED BY <1>4, <1>5

\* Opening: the new open control block is on the queues, or free again.
LEMMA OpnDevTyped ==
    ASSUME Typed, NEW t \in Tsk, NEW nm \in Name, NEW unit \in Units, NEW omode \in OpenModes,
           OpnDev(t, nm, unit, omode)
    PROVE  /\ Typed'
           /\ \E d \in ToSet(dm.used), o \in OpnCB :
                /\ ChkOpenMode(d, unit, omode)
                /\ dm.freeopn # <<>> /\ o = Head(dm.freeopn)
                /\ \/ /\ dm' = NewOpnCB(dm, o, d, unit, omode)
                      /\ \E fn \in BOOLEAN : Goto(t, "open", [Idle EXCEPT !.o = o, !.fn = fn])
                   \/ /\ dm' = DelOpnCB(NewOpnCB(dm, o, d, unit, omode), o, TRUE)
                      /\ UNCHANGED <<pc, loc>>
<1>1. PICK d \in ToSet(dm.used) :
        /\ ChkOpenMode(d, unit, omode) /\ dm.freeopn # <<>>
        /\ LET o == Head(dm.freeopn)
               new == NewOpnCB(dm, o, d, unit, omode)
               fn == ChkOpen(dm, d, unit) => "OPENREQ" \in dm.dev[d].ddev.drvatr
           IN  \/ dm' = new /\ Goto(t, "open", [Idle EXCEPT !.o = o, !.fn = fn])
               \/ dm' = DelOpnCB(new, o, TRUE) /\ UNCHANGED <<pc, loc>>
  BY DEF OpnDev, Registered
<1> DEFINE o == Head(dm.freeopn)
           new == NewOpnCB(dm, o, d, unit, omode)
<1>2. \/ dm' = new /\ \E fn \in BOOLEAN : Goto(t, "open", [Idle EXCEPT !.o = o, !.fn = fn])
      \/ dm' = DelOpnCB(new, o, TRUE) /\ UNCHANGED <<pc, loc>>
  BY <1>1
<1>3. dm \in Tables /\ dm.freeopn \in Seq(OpnCB) /\ dm.used \in Seq(DevCB)
  BY DEF Typed, Tables
<1>4. d \in DevCB /\ o \in OpnCB
  BY <1>1, <1>3, EntriesOf, TailSet
<1> HIDE DEF o
<1>5. new \in Tables
  BY <1>1, <1>3, <1>4, NewOpnTyped
<1> HIDE DEF new
<1>6. dm' \in Tables
  BY <1>2, <1>4, <1>5, DelOpnTyped
<1>7. Controlled'
  <2>1. CASE \E fn \in BOOLEAN : Goto(t, "open", [Idle EXCEPT !.o = o, !.fn = fn])
    <3>1. PICK fn \in BOOLEAN : Goto(t, "open", [Idle EXCEPT !.o = o, !.fn = fn])
      BY <2>1
    <3>2. [Idle EXCEPT !.o = o, !.fn = fn] \in Local /\ [Idle EXCEPT !.o = o, !.fn = fn].o = o
      BY <1>4, LocalOf, Constants DEF Local
    <3>3. "open" \in Place /\ "open" \notin Driving
      BY DEF Place, Holding, Driving
    <3> QED BY <1>4, <3>1, <3>2, <3>3, GotoControlled DEF Typed
  <2>2. CASE UNCHANGED <<pc, loc>>
    BY <2>2 DEF Typed, Controlled
  <2> QED BY <1>2, <2>1, <2>2
<1>8. Typed'
  BY <1>6, <1>7 DEF Typed, OpnDev
<1> QED BY <1>1, <1>2, <1>4, <1>8 DEF new, o

\* One open control block changes and its task goes on.
LEMMA UpdateTyped ==
    ASSUME Typed, NEW o, NEW x \in OpnRec, OpnUpdate(dm', dm, o, x), Controlled',
           lockREG' = lockREG, suspended' = suspended, told' \subseteq Tsk \cup {NoObj}
    PROVE  Typed'
<1>1. dm' \in Tables
  BY OpnUpdateTyped DEF Typed
<1> QED BY <1>1 DEF Typed

\* The fields of an open control block that change on their own.
LEMMA OpnRecOf ==
    ASSUME NEW x \in OpnRec
    PROVE  /\ \A v \in {0, 1} : [x EXCEPT !.resid = v] \in OpnRec
           /\ \A v \in Int : [x EXCEPT !.sem = v] \in OpnRec
           /\ \A v \in Int : [x EXCEPT !.waitone = v] \in OpnRec
           /\ \A v \in Int : [x EXCEPT !.abort_cnt = v] \in OpnRec
           /\ \A v \in Tsk \cup {NoObj} : [x EXCEPT !.abort_tskid = v] \in OpnRec
           /\ \A v \in Seq(ReqCB) : [x EXCEPT !.waireqlst = v] \in OpnRec
           /\ \A v \in Seq(ReqCB) : [x EXCEPT !.requestq = v] \in OpnRec
<1>1. \A v \in {0, 1} : [x EXCEPT !.resid = v] \in OpnRec
  BY DEF OpnRec
<1>2. \A v \in Int : [x EXCEPT !.sem = v] \in OpnRec
  BY DEF OpnRec
<1>3. \A v \in Int : [x EXCEPT !.waitone = v] \in OpnRec
  BY DEF OpnRec
<1>4. \A v \in Int : [x EXCEPT !.abort_cnt = v] \in OpnRec
  BY DEF OpnRec
<1>5. \A v \in Tsk \cup {NoObj} : [x EXCEPT !.abort_tskid = v] \in OpnRec
  BY DEF OpnRec
<1>6. \A v \in Seq(ReqCB) : [x EXCEPT !.waireqlst = v] \in OpnRec
  BY DEF OpnRec
<1>7. \A v \in Seq(ReqCB) : [x EXCEPT !.requestq = v] \in OpnRec
  BY DEF OpnRec
<1> QED BY <1>1, <1>2, <1>3, <1>4, <1>5, <1>6, <1>7

LEMMA EndOpenTyped ==
    ASSUME Typed, NEW t \in Tsk, NEW ok \in BOOLEAN, OpnDevEnd(t, ok)
    PROVE  /\ Typed' /\ loc[t].o \in OpnCB
           /\ \/ ok /\ OpnUpdate(dm', dm, loc[t].o, [dm.opn[loc[t].o] EXCEPT !.resid = 1])
              \/ ~ok /\ dm' = DelOpnCB(dm, loc[t].o, TRUE)
<1> DEFINE o == loc[t].o
           x == [dm.opn[o] EXCEPT !.resid = 1]
<1>1. /\ dm \in Tables /\ o \in OpnCB /\ Controlled
      /\ dm' = IF ok THEN [dm EXCEPT !.opn[o].resid = 1] ELSE DelOpnCB(dm, o, TRUE)
  BY DEF OpnDevEnd, Typed, Controlled, Holding
<1>2. Controlled'
  BY <1>1, ReturnControlled DEF OpnDevEnd
<1> HIDE DEF o
<1>3. CASE ok
  <2>1. x \in OpnRec
    <3>1. dm.opn[o] \in OpnRec
      BY <1>1 DEF Tables
    <3> QED BY <3>1, OpnRecOf
  <2>2. OpnUpdate(dm', dm, o, x)
    <3>1. dm' = [dm EXCEPT !.opn[o] = x]
      BY <1>1, <1>3
    <3> HIDE DEF x
    <3> QED BY <1>1, <3>1 DEF OpnUpdate, Tables, SameRest, SameReq, Shape, Table
  <2>3. Typed'
    BY <1>2, <2>1, <2>2, UpdateTyped DEF OpnDevEnd, Typed
  <2> QED BY <1>1, <1>3, <2>2, <2>3 DEF o
<1>4. CASE ~ok
  <2>1. dm' = DelOpnCB(dm, o, TRUE)
    BY <1>1, <1>4
  <2>2. dm' \in Tables
    BY <1>1, <2>1, DelOpnTyped
  <2>3. Typed'
    BY <1>2, <2>2 DEF OpnDevEnd, Typed
  <2> QED BY <1>1, <1>4, <2>1, <2>3 DEF o
<1> QED BY <1>3, <1>4

LEMMA ClsDevTyped ==
    ASSUME Typed, NEW t \in Tsk, NEW o \in OpnCB, ClsDev(t, o)
    PROVE  /\ Typed'
           /\ OpnUpdate(dm', dm, o, [dm.opn[o] EXCEPT !.resid = 0])
<1> DEFINE x == [dm.opn[o] EXCEPT !.resid = 0]
<1>1. dm \in Tables /\ Controlled
  BY DEF Typed
<1>2. Controlled'
  <2>1. [Idle EXCEPT !.o = o] \in Local /\ [Idle EXCEPT !.o = o].o = o
    BY LocalOf, Constants DEF Local
  <2>2. "abort" \in Place /\ "abort" \notin Driving
    BY DEF Place, Holding, Driving, Aborting
  <2>3. Goto(t, "abort", [Idle EXCEPT !.o = o])
    BY DEF ClsDev
  <2> QED BY <1>1, <2>1, <2>2, <2>3, GotoControlled
<1>3. x \in OpnRec
  BY <1>1 DEF Tables, OpnRec
<1>4. OpnUpdate(dm', dm, o, x)
  <2>1. dm' = [dm EXCEPT !.opn[o] = x]
    BY DEF ClsDev
  <2> HIDE DEF x
  <2> QED BY <1>1, <2>1 DEF OpnUpdate, Tables, SameRest, SameReq, Shape, Table
<1>5. Typed'
  BY <1>2, <1>3, <1>4, UpdateTyped DEF ClsDev, Typed
<1> QED BY <1>4, <1>5

\* The requests a close aborts.
Aborted(o) ==
    IF dm.opn[o].waireqlst # <<>> THEN {Head(dm.opn[o].waireqlst)}
    ELSE {r \in ToSet(dm.opn[o].requestq) : dm.req[r].tskid # NoObj}

LEMMA AbortAllTyped ==
    ASSUME Typed, NEW t \in Tsk, AbortAllRequest(t)
    PROVE  /\ Typed' /\ loc[t].o \in OpnCB
           /\ IsFiniteSet(Aborted(loc[t].o)) /\ Aborted(loc[t].o) \subseteq ReqCB
           /\ OpnUpdate(dm', dm, loc[t].o,
                [dm.opn[loc[t].o] EXCEPT !.abort_tskid = t,
                                         !.abort_cnt = Cardinality(Aborted(loc[t].o))])
           /\ told' = told \cup {dm.req[r].tskid : r \in Aborted(loc[t].o)}
<1> DEFINE o == loc[t].o
           reqs == Aborted(o)
           c == Cardinality(reqs)
           x == [dm.opn[o] EXCEPT !.abort_tskid = t, !.abort_cnt = c]
<1>1. dm \in Tables /\ Controlled /\ o \in OpnCB
  BY DEF Typed, AbortAllRequest, Controlled, Holding, Aborting
<1>2. /\ dm' = [dm EXCEPT !.opn[o].abort_tskid = t, !.opn[o].abort_cnt = c]
      /\ told' = told \cup {dm.req[r].tskid : r \in reqs}
  BY DEF AbortAllRequest, Aborted
<1> HIDE DEF o
<1>3. /\ dm.opn[o] \in OpnRec /\ dm.opn[o].waireqlst \in Seq(ReqCB)
      /\ dm.opn[o].requestq \in Seq(ReqCB) /\ dm.req \in [ReqCB -> ReqRec]
  BY <1>1 DEF Tables, OpnRec
<1>4. reqs \subseteq ReqCB
  <2>1. dm.opn[o].waireqlst # <<>> => Head(dm.opn[o].waireqlst) \in ReqCB
    BY <1>3, TailSet
  <2>2. ToSet(dm.opn[o].requestq) \subseteq ReqCB
    BY <1>3, EntriesOf
  <2> QED BY <2>1, <2>2 DEF Aborted
<1> HIDE DEF reqs
<1>5. IsFiniteSet(reqs)
  BY <1>4, Constants, FS_Subset
<1>6. c \in Nat
  BY <1>5, FS_CardinalityType
<1> HIDE DEF c
<1>7. x \in OpnRec
  <2>1. c \in Int /\ t \in Tsk \cup {NoObj}
    BY <1>6
  <2> DEFINE y == [dm.opn[o] EXCEPT !.abort_tskid = t]
  <2>2. y \in OpnRec
    BY <1>3, <2>1, OpnRecOf
  <2>3. x = [y EXCEPT !.abort_cnt = c]
    OBVIOUS
  <2> HIDE DEF x, y
  <2> QED BY <2>1, <2>2, <2>3, OpnRecOf
<1>8. OpnUpdate(dm', dm, o, x)
  <2>1. dm' = [dm EXCEPT !.opn[o] = x]
    BY <1>1, <1>2 DEF Tables, OpnRec
  <2> HIDE DEF x
  <2> QED BY <1>1, <2>1 DEF OpnUpdate, Tables, SameRest, SameReq, Shape, Table
<1>9. told' \subseteq Tsk \cup {NoObj}
  <2>1. \A r \in reqs : dm.req[r].tskid \in Tsk \cup {NoObj}
    BY <1>3, <1>4 DEF ReqRec
  <2> QED BY <1>2, <2>1 DEF Typed
<1>10. Controlled'
  <2>1. loc[t] \in Local /\ loc[t].o \in OpnCB
    BY <1>1 DEF Controlled, o
  <2>2. "aborted" \in Place /\ "aborted" \notin Driving
    BY DEF Place, Holding, Driving, Aborting
  <2>3. Goto(t, "aborted", loc[t])
    BY DEF AbortAllRequest
  <2> QED BY <1>1, <2>1, <2>2, <2>3, GotoControlled
<1>11. Typed'
  BY <1>7, <1>8, <1>9, <1>10, UpdateTyped DEF AbortAllRequest, Typed
<1> QED BY <1>1, <1>2, <1>4, <1>5, <1>8, <1>11 DEF o, reqs, c, x

\* A task that closes goes on to another place, with the same device.
LEMMA HolderGoes ==
    ASSUME Controlled, NEW t \in Tsk, pc[t] \in Holding, NEW at \in Holding,
           Goto(t, at, loc[t])
    PROVE  Controlled'
<1>1. loc[t] \in Local /\ loc[t].o \in OpnCB
  BY DEF Controlled
<1>2. at \in Place /\ at \notin Driving
  BY DEF Place, Holding, Driving, Aborting
<1> QED BY <1>1, <1>2, GotoControlled

LEMMA AbortTestTyped ==
    ASSUME Typed, NEW t \in Tsk, AbortTest(t)
    PROVE  Typed' /\ loc[t].o \in OpnCB
<1> DEFINE at == IF dm.opn[loc[t].o].abort_cnt > 0 THEN "abtwai" ELSE "abtend"
<1>1. pc[t] \in Holding /\ at \in Holding /\ Goto(t, at, loc[t]) /\ Controlled
  BY DEF AbortTest, Typed, Holding, Aborting
<1> HIDE DEF at
<1>2. Controlled'
  BY <1>1, HolderGoes
<1> QED BY <1>1, <1>2 DEF Typed, AbortTest, Controlled

LEMMA AbortWaitTyped ==
    ASSUME Typed, NEW t \in Tsk, AbortWait(t)
    PROVE  /\ Typed' /\ loc[t].o \in OpnCB
           /\ OpnUpdate(dm', dm, loc[t].o,
                [dm.opn[loc[t].o] EXCEPT !.sem = dm.opn[loc[t].o].sem - 1])
<1> DEFINE o == loc[t].o
           x == [dm.opn[o] EXCEPT !.sem = dm.opn[o].sem - 1]
<1>1. /\ pc[t] \in Holding /\ Controlled /\ dm \in Tables /\ o \in OpnCB
      /\ Goto(t, "abtend", loc[t])
  BY DEF AbortWait, Typed, Holding, Aborting, Controlled
<1>2. dm' = [dm EXCEPT !.opn[o] = x]
  BY DEF AbortWait
<1>3. Controlled'
  BY <1>1, HolderGoes DEF Holding, Aborting
<1> HIDE DEF o
<1>4. x \in OpnRec
  <2>1. dm.opn[o] \in OpnRec
    BY <1>1 DEF Tables
  <2>2. dm.opn[o].sem - 1 \in Int
    BY <2>1 DEF OpnRec
  <2> QED BY <2>1, <2>2, OpnRecOf
<1> HIDE DEF x
<1>5. OpnUpdate(dm', dm, o, x)
  BY <1>1, <1>2 DEF OpnUpdate, Tables, SameRest, SameReq, Shape, Table
<1>6. Typed'
  BY <1>3, <1>4, <1>5, UpdateTyped DEF AbortWait, Typed
<1> QED BY <1>1, <1>5, <1>6 DEF o, x

LEMMA AbortEndTyped ==
    ASSUME Typed, NEW t \in Tsk, AbortEnd(t)
    PROVE  /\ Typed' /\ loc[t].o \in OpnCB
           /\ OpnUpdate(dm', dm, loc[t].o, [dm.opn[loc[t].o] EXCEPT !.abort_tskid = NoObj])
<1> DEFINE o == loc[t].o
           x == [dm.opn[o] EXCEPT !.abort_tskid = NoObj]
<1>1. /\ pc[t] \in Holding /\ Controlled /\ dm \in Tables /\ o \in OpnCB
      /\ Goto(t, "drain", loc[t])
  BY DEF AbortEnd, Typed, Holding, Aborting, Controlled
<1>2. dm' = [dm EXCEPT !.opn[o] = x]
  BY DEF AbortEnd
<1>3. Controlled'
  BY <1>1, HolderGoes DEF Holding, Aborting
<1> HIDE DEF o
<1>4. x \in OpnRec
  <2>1. dm.opn[o] \in OpnRec
    BY <1>1 DEF Tables
  <2> QED BY <2>1, OpnRecOf
<1> HIDE DEF x
<1>5. OpnUpdate(dm', dm, o, x)
  BY <1>1, <1>2 DEF OpnUpdate, Tables, SameRest, SameReq, Shape, Table
<1>6. Typed'
  BY <1>3, <1>4, <1>5, UpdateTyped DEF AbortEnd, Typed
<1> QED BY <1>1, <1>5, <1>6 DEF o, x

LEMMA AbortRestTyped ==
    ASSUME Typed, NEW t \in Tsk, AbortRest(t)
    PROVE  /\ Typed' /\ loc[t].o \in OpnCB /\ loc[t].reqs \in Seq(ReqCB)
           /\ \/ loc[t].reqs = <<>> /\ dm' = dm
              \/ /\ loc[t].reqs # <<>> /\ Head(loc[t].reqs) \in ReqCB
                 /\ dm' = DelReqCB(dm, Head(loc[t].reqs))
           /\ LET left == dm'.opn[loc[t].o].requestq
              IN  \/ left = <<>> /\ Goto(t, "close", [loc[t] EXCEPT !.reqs = <<>>])
                  \/ left # <<>> /\ Goto(t, "drain", [loc[t] EXCEPT !.reqs = <<Head(left)>>])
<1> DEFINE o == loc[t].o
           r == Head(loc[t].reqs)
           left == dm'.opn[o].requestq
<1>1. /\ pc[t] \in Holding /\ Controlled /\ dm \in Tables /\ o \in OpnCB
      /\ loc[t] \in Local /\ loc[t].reqs \in Seq(ReqCB)
  BY DEF AbortRest, Typed, Holding, Controlled, Local
<1>2. loc[t].reqs # <<>> => r \in ReqCB
  BY <1>1, TailSet
<1>3. \/ loc[t].reqs = <<>> /\ dm' = dm
      \/ loc[t].reqs # <<>> /\ dm' = DelReqCB(dm, r)
  BY DEF AbortRest
<1>4. \/ left = <<>> /\ Goto(t, "close", [loc[t] EXCEPT !.reqs = <<>>])
      \/ left # <<>> /\ Goto(t, "drain", [loc[t] EXCEPT !.reqs = <<Head(left)>>])
  BY DEF AbortRest
<1> HIDE DEF r
<1>5. dm' \in Tables
  BY <1>1, <1>2, <1>3, DelReqTyped
<1>6. left \in Seq(ReqCB)
  BY <1>1, <1>5 DEF Tables, OpnRec
<1> HIDE DEF left
<1>7. Controlled'
  <2> DEFINE q == IF left = <<>> THEN <<>> ELSE <<Head(left)>>
             at == IF left = <<>> THEN "close" ELSE "drain"
             l == [loc[t] EXCEPT !.reqs = q]
  <2>1. Goto(t, at, l)
    BY <1>4
  <2>2. q \in Seq(ReqCB)
    BY <1>6, TailSet, EmptySeq
  <2>3. l \in Local /\ l.o \in OpnCB
    <3> HIDE DEF q
    <3> QED BY <1>1, <2>2 DEF Local
  <2>4. at \in Place /\ at \notin Driving
    BY DEF Place, Holding, Driving, Aborting
  <2> HIDE DEF at, l
  <2> QED BY <1>1, <2>1, <2>3, <2>4, GotoControlled
<1>8. Typed'
  BY <1>5, <1>7 DEF Typed, AbortRest
<1> QED BY <1>1, <1>2, <1>3, <1>4, <1>8 DEF o, r, left

LEMMA CloseDeviceTyped ==
    ASSUME Typed, NEW t \in Tsk, CloseDevice(t)
    PROVE  /\ Typed' /\ loc[t].o \in OpnCB
           /\ dm' = DelOpnCB(dm, loc[t].o, FALSE)
           /\ \E fn \in BOOLEAN : Goto(t, "closefn", [loc[t] EXCEPT !.fn = fn])
<1> DEFINE o == loc[t].o
<1>1. /\ pc[t] \in Holding /\ Controlled /\ dm \in Tables /\ o \in OpnCB
      /\ loc[t] \in Local
  BY DEF CloseDevice, Typed, Holding, Controlled
<1>2. dm' = DelOpnCB(dm, o, FALSE)
  BY DEF CloseDevice
<1>3. \E fn \in BOOLEAN : Goto(t, "closefn", [loc[t] EXCEPT !.fn = fn])
  BY DEF CloseDevice
<1> HIDE DEF o
<1>4. dm' \in Tables
  BY <1>1, <1>2, DelOpnTyped
<1>5. Controlled'
  <2>1. PICK fn \in BOOLEAN : Goto(t, "closefn", [loc[t] EXCEPT !.fn = fn])
    BY <1>3
  <2> DEFINE l == [loc[t] EXCEPT !.fn = fn]
  <2>2. l \in Local /\ l.o \in OpnCB
    BY <1>1 DEF Local, o
  <2>3. "closefn" \in Place /\ "closefn" \notin Driving
    BY DEF Place, Holding, Driving
  <2> QED BY <1>1, <2>1, <2>2, <2>3, GotoControlled
<1>6. Typed'
  BY <1>4, <1>5 DEF Typed, CloseDevice
<1> QED BY <1>1, <1>2, <1>3, <1>6 DEF o

\* The next device of the shutdown, from the tables k.
CloseNext(t, k) ==
    \E o \in ToSet(k.resq) :
        /\ OpnUpdate(dm', k, o, [k.opn[o] EXCEPT !.resid = 0])
        /\ Goto(t, "abort", [Idle EXCEPT !.o = o, !.all = TRUE])

LEMMA CloseNextTyped ==
    ASSUME Typed, NEW t \in Tsk, NEW k \in Tables, k.resq # <<>>,
           dm' = [k EXCEPT !.opn[Head(k.resq)].resid = 0],
           Goto(t, "abort", [Idle EXCEPT !.o = Head(k.resq), !.all = TRUE])
    PROVE  dm' \in Tables /\ Controlled' /\ CloseNext(t, k)
<1> DEFINE o == Head(k.resq)
           x == [k.opn[o] EXCEPT !.resid = 0]
           l == [Idle EXCEPT !.o = o, !.all = TRUE]
<1>1. k.resq \in Seq(OpnCB)
  BY DEF Tables
<1>2. o \in OpnCB /\ o \in ToSet(k.resq)
  BY <1>1, TailSet
<1>3. dm' = [k EXCEPT !.opn[o] = x] /\ Goto(t, "abort", l)
  OBVIOUS
<1> HIDE DEF o
<1>4. x \in OpnRec
  <2>1. k.opn[o] \in OpnRec
    BY <1>2 DEF Tables
  <2> QED BY <2>1, OpnRecOf
<1>5. l \in Local /\ l.o = o
  BY <1>2, LocalOf, Constants DEF Local
<1> HIDE DEF x
<1>6. OpnUpdate(dm', k, o, x)
  BY <1>2, <1>3 DEF OpnUpdate, Tables, SameRest, SameReq, Shape, Table
<1>7. dm' \in Tables
  BY <1>4, <1>6, OpnUpdateTyped
<1>8. Controlled'
  <2>1. "abort" \in Place /\ "abort" \notin Driving /\ Controlled
    BY DEF Place, Holding, Driving, Aborting, Typed
  <2> HIDE DEF l
  <2> QED BY <1>2, <1>3, <1>5, <2>1, GotoControlled
<1> QED BY <1>2, <1>3, <1>6, <1>7, <1>8 DEF CloseNext, x

\* A block is back in the free queue, or suspension is allowed again.
Freed(n, o) ==
    /\ Shape(n) /\ SameDev(n, dm) /\ SameReq(n, dm) /\ n.opn = dm.opn /\ n.resq = dm.resq
    /\ n.freeopn = Append(dm.freeopn, o) /\ n.DisSusCnt = dm.DisSusCnt
Counting(n) ==
    /\ Shape(n) /\ SameDev(n, dm) /\ SameReq(n, dm) /\ n.opn = dm.opn /\ n.resq = dm.resq
    /\ n.freeopn = dm.freeopn

LEMMA CloseEndTyped ==
    ASSUME Typed, NEW t \in Tsk, CloseEnd(t)
    PROVE  /\ Typed' /\ loc[t].o \in OpnCB
           /\ \E k \in Tables :
                /\ Freed(k, loc[t].o)
                /\ \/ dm' = k /\ Return(t)
                   \/ loc[t].all /\ CloseNext(t, k)
<1> DEFINE o == loc[t].o
           k == [dm EXCEPT !.freeopn = Append(@, o)]
<1>1. Controlled /\ dm \in Tables /\ o \in OpnCB /\ dm.freeopn \in Seq(OpnCB)
  BY DEF CloseEnd, Typed, Holding, Controlled, Tables
<1>2. Append(dm.freeopn, o) \in Seq(OpnCB)
  BY <1>1, AppendOne
<1>3. Freed(k, o)
  <2> HIDE DEF o
  <2> QED BY <1>1 DEF Freed, Tables, Shape, Table, SameDev, SameReq
<1>4. \/ dm' = k /\ Return(t)
      \/ /\ loc[t].all /\ k.resq # <<>>
         /\ dm' = [k EXCEPT !.opn[Head(k.resq)].resid = 0]
         /\ Goto(t, "abort", [Idle EXCEPT !.o = Head(k.resq), !.all = TRUE])
  <2>1. k.resq = dm.resq
    BY <1>3 DEF Freed
  <2> QED BY <2>1 DEF CloseEnd
<1> HIDE DEF k, o
<1>5. k \in Tables
  <2>1. /\ k.dev \in [DevCB -> DevRec] /\ k.used \in Seq(DevCB) /\ k.freedev \in Seq(DevCB)
        /\ k.opn \in [OpnCB -> OpnRec] /\ k.freeopn \in Seq(OpnCB) /\ k.resq \in Seq(OpnCB)
        /\ k.req \in [ReqCB -> ReqRec] /\ k.freereq \in Seq(ReqCB) /\ k.DisSusCnt \in 0..MaxDisSus
    BY <1>1, <1>2, <1>3 DEF Freed, Tables, SameDev, SameReq
  <2> QED BY <1>3, <2>1, TablesOf DEF Freed
<1>6. CASE dm' = k /\ Return(t)
  <2>1. Controlled'
    BY <1>1, <1>6, ReturnControlled
  <2>2. Typed'
    BY <1>5, <1>6, <2>1 DEF Typed, CloseEnd
  <2> QED BY <1>1, <1>3, <1>5, <1>6, <2>2 DEF o
<1>7. CASE /\ loc[t].all /\ k.resq # <<>>
           /\ dm' = [k EXCEPT !.opn[Head(k.resq)].resid = 0]
           /\ Goto(t, "abort", [Idle EXCEPT !.o = Head(k.resq), !.all = TRUE])
  <2>1. dm' \in Tables /\ Controlled' /\ CloseNext(t, k)
    BY <1>5, <1>7, CloseNextTyped
  <2>2. Typed'
    BY <2>1 DEF Typed, CloseEnd
  <2> QED BY <1>1, <1>3, <1>5, <1>7, <2>1, <2>2 DEF o
<1> QED BY <1>4, <1>6, <1>7

LEMMA CountingTyped ==
    ASSUME dm \in Tables, NEW n, Counting(n), n.DisSusCnt \in 0..MaxDisSus
    PROVE  n \in Tables
<1>1. /\ n.dev \in [DevCB -> DevRec] /\ n.used \in Seq(DevCB) /\ n.freedev \in Seq(DevCB)
      /\ n.opn \in [OpnCB -> OpnRec] /\ n.freeopn \in Seq(OpnCB) /\ n.resq \in Seq(OpnCB)
      /\ n.req \in [ReqCB -> ReqRec] /\ n.freereq \in Seq(ReqCB) /\ Shape(n)
  BY DEF Counting, Tables, SameDev, SameReq
<1> QED BY <1>1, TablesOf

LEMMA CleanupTyped ==
    ASSUME Typed, NEW t \in Tsk, DevmgrCleanup(t)
    PROVE  /\ Typed'
           /\ \A u \in Tsk : pc[u] = "out"
           /\ \E k \in Tables :
                /\ Counting(k)
                /\ \/ dm' = k /\ UNCHANGED <<pc, loc>>
                   \/ CloseNext(t, k)
<1> DEFINE k == [dm EXCEPT !.DisSusCnt = 0]
<1>1. dm \in Tables /\ \A u \in Tsk : pc[u] = "out"
  BY DEF DevmgrCleanup, Typed
<1>2. Counting(k) /\ k.DisSusCnt = 0 /\ k.resq = dm.resq
  BY <1>1 DEF Counting, Tables, Shape, Table, SameDev, SameReq
<1>3. \/ dm' = k /\ UNCHANGED <<pc, loc>>
      \/ /\ k.resq # <<>> /\ dm' = [k EXCEPT !.opn[Head(k.resq)].resid = 0]
         /\ Goto(t, "abort", [Idle EXCEPT !.o = Head(k.resq), !.all = TRUE])
  BY <1>2 DEF DevmgrCleanup
<1> HIDE DEF k
<1>4. k \in Tables
  BY <1>1, <1>2, CountingTyped, Constants
<1>5. CASE dm' = k /\ UNCHANGED <<pc, loc>>
  <2>1. Typed'
    BY <1>4, <1>5 DEF Typed, DevmgrCleanup, Controlled
  <2> QED BY <1>1, <1>2, <1>4, <1>5, <2>1
<1>6. CASE /\ k.resq # <<>> /\ dm' = [k EXCEPT !.opn[Head(k.resq)].resid = 0]
           /\ Goto(t, "abort", [Idle EXCEPT !.o = Head(k.resq), !.all = TRUE])
  <2>1. dm' \in Tables /\ Controlled' /\ CloseNext(t, k)
    BY <1>4, <1>6, CloseNextTyped
  <2>2. Typed'
    BY <2>1 DEF Typed, DevmgrCleanup
  <2> QED BY <1>1, <1>2, <1>4, <2>1, <2>2
<1> QED BY <1>3, <1>5, <1>6

LEMMA SuspendCountTyped ==
    ASSUME Typed, NEW t \in Tsk, DisSus(t) \/ EnaSus(t)
    PROVE  Typed' /\ Counting(dm') /\ UNCHANGED <<pc, loc>>
<1>1. dm \in Tables /\ dm.DisSusCnt \in 0..MaxDisSus /\ MaxDisSus \in Nat
  BY Constants DEF Typed, Tables
<1>2. PICK c \in 0..MaxDisSus : dm' = [dm EXCEPT !.DisSusCnt = c]
  BY <1>1 DEF DisSus, EnaSus
<1>3. Counting(dm') /\ dm'.DisSusCnt = c
  BY <1>1, <1>2 DEF Counting, Tables, Shape, Table, SameDev, SameReq
<1>4. dm' \in Tables
  BY <1>1, <1>3, CountingTyped
<1> QED BY <1>3, <1>4 DEF Typed, Controlled, DisSus, EnaSus

\* The local variables of a task that suspends the devices.
LEMMA SuspendLocal ==
    ASSUME NEW l \in Local, NEW q \in Seq(DevCB), NEW p \in 0..4
    PROVE  /\ [l EXCEPT !.todo = q] \in Local /\ [l EXCEPT !.todo = q].todo = q
           /\ [l EXCEPT !.todo = q].pass = l.pass
           /\ [l EXCEPT !.pass = p, !.todo = q] \in Local
           /\ [l EXCEPT !.pass = p, !.todo = q].pass = p
           /\ [l EXCEPT !.pass = p, !.todo = q].todo = q
<1>1. /\ [l EXCEPT !.todo = q] \in Local /\ [l EXCEPT !.todo = q].todo = q
      /\ [l EXCEPT !.todo = q].pass = l.pass
  BY DEF Local
<1>2. /\ [l EXCEPT !.pass = p, !.todo = q] \in Local
      /\ [l EXCEPT !.pass = p, !.todo = q].pass = p
      /\ [l EXCEPT !.pass = p, !.todo = q].todo = q
  BY DEF Local
<1> QED BY <1>1, <1>2

LEMMA SuspendTyped ==
    ASSUME Typed, NEW t \in Tsk,
           (\E force \in BOOLEAN : SusDev(t, force)) \/ SusLock(t) \/ SusEvent(t) \/ SusNext(t)
    PROVE  Typed' /\ dm' = dm
<1>1. /\ Controlled /\ dm \in Tables /\ dm.used \in Seq(DevCB) /\ loc[t] \in Local
      /\ loc[t].todo \in Seq(DevCB) /\ loc[t].pass \in 0..4
  BY DEF Typed, Controlled, Tables, Local
<1>2. /\ "sus" \in Place /\ "sus" \notin Holding \cup Driving
      /\ "susev" \in Place /\ "susev" \notin Holding \cup Driving
  BY DEF Place, Holding, Driving, Aborting
<1>3. CASE \E force \in BOOLEAN : SusDev(t, force)
  <2>1. Controlled'
    BY <1>1, <1>2, <1>3, Constants, GotoControlled DEF SusDev
  <2> QED BY <1>3, <2>1 DEF SusDev, Typed
<1>4. CASE SusLock(t)
  <2> DEFINE l == [Idle EXCEPT !.pass = 1, !.todo = dm.used]
  <2>1. l \in Local /\ 1 \in 0..4
    <3>1. Idle \in Local /\ 1 \in 0..4 /\ dm.used \in Seq(DevCB)
      BY <1>1, Constants
    <3> QED BY ONLY <3>1, SuspendLocal
  <2>2. Goto(t, "susev", l)
    BY <1>4 DEF SusLock
  <2> HIDE DEF l
  <2>3. Controlled'
    BY <1>1, <1>2, <2>1, <2>2, GotoControlled
  <2> QED BY <1>4, <2>3 DEF SusLock, Typed
<1>5. CASE SusEvent(t)
  <2> DEFINE d == Head(loc[t].todo)
             l == [loc[t] EXCEPT !.todo = Tail(loc[t].todo)]
  <2>1. loc[t].todo # <<>> /\ Goto(t, "susev", l) /\ UNCHANGED <<dm, lockREG, told>>
    BY <1>5 DEF SusEvent
  <2>2. Tail(loc[t].todo) \in Seq(DevCB) /\ d \in DevCB
    BY <1>1, <2>1, TailSet
  <2>3. l \in Local
    BY <1>1, <2>2, SuspendLocal
  <2>4. suspended' \subseteq DevCB
    <3>1. suspended' = suspended \/ suspended' = suspended \cup {d} \/ suspended' = suspended \ {d}
      BY <1>5 DEF SusEvent
    <3> QED BY <2>2, <3>1 DEF Typed
  <2> HIDE DEF d, l
  <2>5. Controlled'
    BY <1>1, <1>2, <2>1, <2>3, GotoControlled
  <2> QED BY <2>1, <2>4, <2>5 DEF Typed
<1>6. CASE SusNext(t)
  <2> DEFINE l == [loc[t] EXCEPT !.pass = loc[t].pass + 1, !.todo = dm.used]
  <2>1. /\ dm' = dm /\ told' = told /\ suspended' = suspended
        /\ \/ loc[t].pass < 4 /\ Goto(t, "susev", l) /\ lockREG' = lockREG
           \/ lockREG' = NoObj /\ Return(t)
    BY <1>6 DEF SusNext
  <2>2. loc[t].pass < 4 => l \in Local
    <3>1. loc[t].pass < 4 => loc[t].pass + 1 \in 0..4
      BY <1>1
    <3> QED BY <1>1, <3>1, SuspendLocal
  <2> HIDE DEF l
  <2>3. CASE loc[t].pass < 4 /\ Goto(t, "susev", l) /\ lockREG' = lockREG
    <3>1. Controlled'
      BY <1>1, <1>2, <2>2, <2>3, GotoControlled
    <3> QED BY <2>1, <2>3, <3>1 DEF Typed
  <2>4. CASE lockREG' = NoObj /\ Return(t)
    <3>1. Controlled'
      BY <1>1, <2>4, ReturnControlled
    <3> QED BY <2>1, <2>4, <3>1 DEF Typed
  <2> QED BY <2>1, <2>3, <2>4
<1> QED BY <1>3, <1>4, <1>5, <1>6

\* The tables of open and free control blocks, but for requests, are as before.
SameButReq(n, k) ==
    /\ SameRest(n, k) /\ n.dev = k.dev /\ n.freeopn = k.freeopn /\ n.resq = k.resq

LEMMA SameButReqTyped ==
    ASSUME dm \in Tables, NEW n, SameButReq(n, dm), n.opn \in [OpnCB -> OpnRec],
           n.req \in [ReqCB -> ReqRec], n.freereq \in Seq(ReqCB)
    PROVE  n \in Tables
<1>1. /\ n.dev \in [DevCB -> DevRec] /\ n.used \in Seq(DevCB) /\ n.freedev \in Seq(DevCB)
      /\ n.freeopn \in Seq(OpnCB) /\ n.resq \in Seq(OpnCB) /\ Shape(n)
      /\ n.DisSusCnt \in 0..MaxDisSus
  BY DEF SameButReq, Tables, SameRest
<1> QED BY <1>1, TablesOf

LEMMA RequestTyped ==
    ASSUME Typed, NEW t \in Tsk, NEW o \in OpnCB, NEW mode, Request(t, o, mode)
    PROVE  /\ Typed' /\ SameButReq(dm', dm)
           /\ \E r \in ReqCB :
                /\ dm.freereq # <<>> /\ r = Head(dm.freereq)
                /\ dm'.freereq = Tail(dm.freereq)
                /\ dm'.opn = [dm.opn EXCEPT ![o].requestq = Append(@, r)]
                /\ dm'.req = [dm.req EXCEPT ![r] = [opncb |-> o, tskid |-> t]]
                /\ Goto(t, "exec", [Idle EXCEPT !.o = o, !.reqs = <<r>>])
<1> DEFINE r == Head(dm.freereq)
           x == [opncb |-> o, tskid |-> t]
           l == [Idle EXCEPT !.o = o, !.reqs = <<r>>]
<1>1. /\ dm \in Tables /\ Controlled /\ dm.freereq # <<>> /\ dm.freereq \in Seq(ReqCB)
      /\ dm.opn \in [OpnCB -> OpnRec] /\ dm.req \in [ReqCB -> ReqRec]
  BY DEF Request, Typed, Tables
<1>2. r \in ReqCB /\ Tail(dm.freereq) \in Seq(ReqCB) /\ <<r>> \in Seq(ReqCB) /\ <<r>> # <<>>
  BY <1>1, TailSet
<1>3. /\ dm' = [dm EXCEPT !.freereq = Tail(@), !.opn[o].requestq = Append(@, r), !.req[r] = x]
      /\ Goto(t, "exec", l)
  BY DEF Request
<1> HIDE DEF r
<1>4. l \in Local /\ l.o = o /\ l.reqs = <<r>>
  <2> DEFINE q == <<r>>
  <2>1. q \in Seq(ReqCB)
    BY <1>2
  <2> HIDE DEF q
  <2>2. [Idle EXCEPT !.o = o, !.reqs = q] \in Local
    BY <2>1, LocalOf
  <2>3. /\ [Idle EXCEPT !.o = o, !.reqs = q].o = o
        /\ [Idle EXCEPT !.o = o, !.reqs = q].reqs = q
    BY Constants DEF Local
  <2> QED BY <2>2, <2>3 DEF q
<1> HIDE DEF l
<1>5. x \in ReqRec
  BY DEF ReqRec
<1> HIDE DEF x
<1>6. /\ SameButReq(dm', dm) /\ dm'.freereq = Tail(dm.freereq)
      /\ dm'.opn = [dm.opn EXCEPT ![o].requestq = Append(@, r)]
      /\ dm'.req = [dm.req EXCEPT ![r] = x]
  BY <1>1, <1>3 DEF Tables, SameButReq, SameRest, Shape, Table
<1>7. dm'.opn \in [OpnCB -> OpnRec]
  <2>1. dm.opn[o] \in OpnRec /\ Append(dm.opn[o].requestq, r) \in Seq(ReqCB)
    BY <1>1, <1>2, AppendOne DEF OpnRec
  <2>2. [dm.opn[o] EXCEPT !.requestq = Append(@, r)] \in OpnRec
    BY <2>1, OpnRecOf
  <2> QED BY <1>1, <1>6, <2>2
<1>8. dm' \in Tables
  BY <1>1, <1>2, <1>5, <1>6, <1>7, SameButReqTyped
<1>9. Controlled'
  <2>1. "exec" \in Place
    BY DEF Place, Driving
  <2> QED BY <1>1, <1>2, <1>3, <1>4, <2>1, GotoControlled
<1>10. Typed'
  BY <1>8, <1>9 DEF Typed, Request
<1> QED BY <1>1, <1>2, <1>3, <1>6, <1>10 DEF r, x, l

LEMMA WaiDevTyped ==
    ASSUME Typed, NEW t \in Tsk, NEW o \in OpnCB, NEW r \in ReqCB, WaiDev(t, o, r)
    PROVE  /\ Typed' /\ SameButReq(dm', dm) /\ dm'.freereq = dm.freereq
           /\ dm'.opn = [dm.opn EXCEPT ![o].waitone = @ + 1]
           /\ dm'.req = [dm.req EXCEPT ![r].tskid = t]
<1> DEFINE l == [Idle EXCEPT !.o = o, !.reqs = <<r>>]
<1>1. /\ dm \in Tables /\ Controlled
      /\ dm.opn \in [OpnCB -> OpnRec] /\ dm.req \in [ReqCB -> ReqRec]
  BY DEF Typed, Tables
<1>2. /\ dm' = [dm EXCEPT !.req[r].tskid = t, !.opn[o].waitone = @ + 1]
      /\ Goto(t, "wait", l)
  BY DEF WaiDev
<1>3. l \in Local /\ l.o = o /\ l.reqs = <<r>>
  <2> DEFINE q == <<r>>
  <2>1. q \in Seq(ReqCB)
    OBVIOUS
  <2> HIDE DEF q
  <2>2. [Idle EXCEPT !.o = o, !.reqs = q] \in Local
    BY <2>1, LocalOf
  <2>3. /\ [Idle EXCEPT !.o = o, !.reqs = q].o = o
        /\ [Idle EXCEPT !.o = o, !.reqs = q].reqs = q
    BY Constants DEF Local
  <2> QED BY <2>2, <2>3 DEF q
<1>4. /\ SameButReq(dm', dm) /\ dm'.freereq = dm.freereq
      /\ dm'.opn = [dm.opn EXCEPT ![o].waitone = @ + 1]
      /\ dm'.req = [dm.req EXCEPT ![r].tskid = t]
  BY <1>1, <1>2 DEF Tables, SameButReq, SameRest, Shape, Table
<1>5. dm'.opn \in [OpnCB -> OpnRec]
  <2>1. dm.opn[o] \in OpnRec /\ dm.opn[o].waitone + 1 \in Int
    BY <1>1 DEF OpnRec
  <2>2. [dm.opn[o] EXCEPT !.waitone = @ + 1] \in OpnRec
    BY <2>1, OpnRecOf
  <2> QED BY <1>1, <1>4, <2>2
<1>6. dm'.req \in [ReqCB -> ReqRec]
  BY <1>1, <1>4 DEF ReqRec
<1>7. dm' \in Tables
  <2>1. dm'.freereq \in Seq(ReqCB)
    BY <1>1, <1>4 DEF Tables
  <2> QED BY <1>1, <1>4, <1>5, <1>6, <2>1, SameButReqTyped
<1>8. Controlled'
  <2>1. "wait" \in Place /\ <<r>> # <<>>
    BY DEF Place, Driving
  <2> HIDE DEF l
  <2> QED BY <1>1, <1>2, <1>3, <2>1, GotoControlled
<1>9. Typed'
  BY <1>7, <1>8 DEF Typed, WaiDev
<1> QED BY <1>4, <1>9

LEMMA WaiDevAnyTyped ==
    ASSUME Typed, NEW t \in Tsk, NEW o \in OpnCB, WaiDevAny(t, o)
    PROVE  LET all == dm.opn[o].requestq
           IN  /\ Typed' /\ SameButReq(dm', dm) /\ dm'.freereq = dm.freereq
               /\ dm'.opn = [dm.opn EXCEPT ![o].waireqlst = all]
               /\ dm'.req = [r \in ReqCB |-> IF r \in ToSet(all)
                               THEN [dm.req[r] EXCEPT !.tskid = t] ELSE dm.req[r]]
<1> DEFINE all == dm.opn[o].requestq
           q == [r \in ReqCB |-> IF r \in ToSet(all) THEN [dm.req[r] EXCEPT !.tskid = t]
                                 ELSE dm.req[r]]
           l == [Idle EXCEPT !.o = o, !.reqs = all, !.any = TRUE]
<1>1. /\ dm \in Tables /\ Controlled /\ all # <<>> /\ all \in Seq(ReqCB)
      /\ dm.opn \in [OpnCB -> OpnRec] /\ dm.req \in [ReqCB -> ReqRec]
  BY DEF WaiDevAny, Typed, Tables, OpnRec
<1>2. dm' = [dm EXCEPT !.opn[o].waireqlst = all, !.req = q] /\ Goto(t, "wait", l)
  BY DEF WaiDevAny
<1>3. l \in Local /\ l.o = o /\ l.reqs = all
  BY <1>1, LocalOf, Constants DEF Local
<1>4. q \in [ReqCB -> ReqRec]
  BY <1>1 DEF ReqRec
<1> HIDE DEF all, q, l
<1>5. /\ SameButReq(dm', dm) /\ dm'.freereq = dm.freereq
      /\ dm'.opn = [dm.opn EXCEPT ![o].waireqlst = all] /\ dm'.req = q
  BY <1>1, <1>2 DEF Tables, SameButReq, SameRest, Shape, Table
<1>6. dm'.opn \in [OpnCB -> OpnRec]
  <2>1. [dm.opn[o] EXCEPT !.waireqlst = all] \in OpnRec
    BY <1>1, OpnRecOf
  <2> QED BY <1>1, <1>5, <2>1
<1>7. dm' \in Tables
  <2>1. dm'.freereq \in Seq(ReqCB)
    BY <1>1, <1>5 DEF Tables
  <2> QED BY <1>1, <1>4, <1>5, <1>6, <2>1, SameButReqTyped
<1>8. Controlled'
  <2>1. "wait" \in Place
    BY DEF Place, Driving
  <2> QED BY <1>1, <1>2, <1>3, <2>1, GotoControlled
<1>9. Typed'
  BY <1>7, <1>8 DEF Typed, WaiDevAny
<1> QED BY <1>5, <1>9 DEF all, q

\* The call of the driver that task t made is over: its marks are gone, in the
\* tables k, before it counts.
CallOver(t, k) ==
    /\ SameButReq(k, dm) /\ k.freereq = dm.freereq
    /\ \/ /\ pc[t] = "exec" /\ k.opn = dm.opn
          /\ k.req = [dm.req EXCEPT ![Head(loc[t].reqs)].tskid = NoObj]
       \/ /\ pc[t] = "wait"
          /\ k.opn = IF loc[t].any THEN [dm.opn EXCEPT ![loc[t].o].waireqlst = <<>>]
                     ELSE [dm.opn EXCEPT ![loc[t].o].waitone = @ - 1]
          /\ k.req = [r \in ReqCB |-> IF r \in ToSet(loc[t].reqs)
                        THEN [dm.req[r] EXCEPT !.tskid = NoObj] ELSE dm.req[r]]

LEMMA ExecOver ==
    ASSUME Typed, NEW t \in Tsk, pc[t] = "exec"
    PROVE  LET r == Head(loc[t].reqs)
               k == [dm EXCEPT !.req[r].tskid = NoObj]
           IN  /\ r \in ReqCB /\ r \in ToSet(loc[t].reqs) /\ loc[t].o \in OpnCB
               /\ k \in Tables /\ CallOver(t, k)
<1> DEFINE r == Head(loc[t].reqs)
           k == [dm EXCEPT !.req[r].tskid = NoObj]
<1>1. /\ dm \in Tables /\ dm.opn \in [OpnCB -> OpnRec] /\ dm.req \in [ReqCB -> ReqRec]
      /\ loc[t].reqs \in Seq(ReqCB) /\ loc[t].reqs # <<>> /\ loc[t].o \in OpnCB
  BY DEF Typed, Tables, Controlled, Local, Driving
<1>2. r \in ReqCB /\ r \in ToSet(loc[t].reqs)
  BY <1>1, TailSet
<1> HIDE DEF r
<1>3. /\ SameButReq(k, dm) /\ k.freereq = dm.freereq /\ k.opn = dm.opn
      /\ k.req = [dm.req EXCEPT ![r].tskid = NoObj]
  BY <1>1 DEF Tables, SameButReq, SameRest, Shape, Table
<1> HIDE DEF k
<1>4. k.req \in [ReqCB -> ReqRec]
  BY <1>1, <1>3 DEF ReqRec
<1>5. k.freereq \in Seq(ReqCB)
  BY <1>1, <1>3 DEF Tables
<1>6. k \in Tables
  BY <1>1, <1>3, <1>4, <1>5, SameButReqTyped
<1> QED BY <1>1, <1>2, <1>3, <1>6 DEF CallOver, k, r

LEMMA WaitOverTyped ==
    ASSUME Typed, NEW t \in Tsk, pc[t] = "wait"
    PROVE  /\ WaitOver(t) \in Tables /\ CallOver(t, WaitOver(t))
           /\ loc[t].o \in OpnCB /\ loc[t].reqs \in Seq(ReqCB)
<1> DEFINE o == loc[t].o
           x == IF loc[t].any THEN [dm.opn[o] EXCEPT !.waireqlst = <<>>]
                ELSE [dm.opn[o] EXCEPT !.waitone = @ - 1]
           q == [r \in ReqCB |-> IF r \in ToSet(loc[t].reqs)
                   THEN [dm.req[r] EXCEPT !.tskid = NoObj] ELSE dm.req[r]]
           k == WaitOver(t)
<1>1. /\ dm \in Tables /\ dm.opn \in [OpnCB -> OpnRec] /\ dm.req \in [ReqCB -> ReqRec]
      /\ loc[t].reqs \in Seq(ReqCB) /\ o \in OpnCB /\ loc[t].any \in BOOLEAN
  BY DEF Typed, Tables, Controlled, Local, Driving
<1>2. /\ SameButReq(k, dm) /\ k.freereq = dm.freereq
      /\ k.opn = IF loc[t].any THEN [dm.opn EXCEPT ![o].waireqlst = <<>>]
                 ELSE [dm.opn EXCEPT ![o].waitone = @ - 1]
      /\ k.req = q
  <2>1. CASE loc[t].any
    <3>1. k = [dm EXCEPT !.opn[o].waireqlst = <<>>, !.req = q]
      BY <1>1, <2>1, Zenon DEF WaitOver, Tables
    <3> HIDE DEF k, q, o
    <3> QED BY <1>1, <2>1, <3>1 DEF Tables, SameButReq, SameRest, Shape, Table
  <2>2. CASE ~loc[t].any
    <3>1. k = [dm EXCEPT !.opn[o].waitone = @ - 1, !.req = q]
      BY <1>1, <2>2, Zenon DEF WaitOver, Tables
    <3> HIDE DEF k, q, o
    <3> QED BY <1>1, <2>2, <3>1 DEF Tables, SameButReq, SameRest, Shape, Table
  <2> QED BY <2>1, <2>2
<1>3. q \in [ReqCB -> ReqRec]
  BY <1>1 DEF ReqRec
<1> HIDE DEF q, k
<1>4. k.opn = [dm.opn EXCEPT ![o] = x]
  BY <1>2
<1>5. x \in OpnRec
  <2>1. /\ dm.opn[o] \in OpnRec /\ dm.opn[o].waitone - 1 \in Int /\ <<>> \in Seq(ReqCB)
    BY <1>1, EmptySeq DEF OpnRec
  <2> QED BY <2>1, OpnRecOf
<1> HIDE DEF x
<1>6. k.opn \in [OpnCB -> OpnRec]
  BY <1>1, <1>4, <1>5
<1>7. k.freereq \in Seq(ReqCB)
  BY <1>1, <1>2 DEF Tables
<1>8. k \in Tables
  BY <1>1, <1>2, <1>3, <1>6, <1>7, SameButReqTyped
<1> QED BY <1>1, <1>2, <1>8 DEF CallOver, k, q

\* A call of the driver ends: its request stays, or is complete and freed.
CallEnds(t, k) ==
    /\ CallOver(t, k)
    /\ \/ dm' = AbortCounted(k, loc[t].o)
       \/ \E r \in ToSet(loc[t].reqs) : dm' = DelReqCB(AbortCounted(k, loc[t].o), r)
    /\ Return(t) /\ told' = told \ {t}

LEMMA AnswerTyped ==
    ASSUME Typed, NEW t \in Tsk, Answer(t)
    PROVE  Typed' /\ loc[t].o \in OpnCB /\ (\E k \in Tables : CallEnds(t, k))
<1>1. \E k \in Tables : CallEnds(t, k) /\ UNCHANGED <<lockREG, suspended>>
  <2>1. CASE \E ok \in BOOLEAN : RequestEnd(t, ok)
    <3>1. PICK ok \in BOOLEAN : RequestEnd(t, ok)
      BY <2>1
    <3> DEFINE r == Head(loc[t].reqs)
               k == [dm EXCEPT !.req[r].tskid = NoObj]
               n == AbortCounted(k, loc[t].o)
    <3>2. /\ pc[t] = "exec" /\ Return(t) /\ told' = told \ {t} /\ UNCHANGED <<lockREG, suspended>>
          /\ dm' = IF ok THEN n ELSE DelReqCB(n, r)
      BY <3>1 DEF RequestEnd
    <3>3. k \in Tables /\ CallOver(t, k) /\ r \in ToSet(loc[t].reqs)
      BY <3>2, ExecOver
    <3> HIDE DEF r, k
    <3> QED BY <3>2, <3>3 DEF CallEnds
  <2>2. CASE \E reqno \in 0..Cardinality(ReqCB) :
                 reqno <= Len(loc[t].reqs) /\ WaiDevEnd(t, reqno)
    <3>1. PICK reqno \in 0..Cardinality(ReqCB) : WaiDevEnd(t, reqno)
      BY <2>2
    <3> DEFINE k == WaitOver(t)
               n == AbortCounted(k, loc[t].o)
    <3>2. /\ pc[t] = "wait" /\ Return(t) /\ told' = told \ {t} /\ UNCHANGED <<lockREG, suspended>>
          /\ \/ dm' = n
             \/ reqno \in 1..Len(loc[t].reqs) /\ dm' = DelReqCB(n, loc[t].reqs[reqno])
      BY <3>1 DEF WaiDevEnd
    <3>3. k \in Tables /\ CallOver(t, k) /\ loc[t].reqs \in Seq(ReqCB)
      BY <3>2, WaitOverTyped
    <3>4. reqno \in 1..Len(loc[t].reqs) => loc[t].reqs[reqno] \in ToSet(loc[t].reqs)
      BY <3>3, LenProperties DEF ToSet
    <3> HIDE DEF k
    <3> QED BY <3>2, <3>3, <3>4 DEF CallEnds
  <2> QED BY <2>1, <2>2 DEF Answer
<1>2. PICK k \in Tables : CallEnds(t, k) /\ UNCHANGED <<lockREG, suspended>>
  BY <1>1
<1>3. pc[t] \in Driving
  BY <1>2 DEF CallEnds, CallOver, Driving
<1>4. loc[t].o \in OpnCB /\ loc[t].reqs \in Seq(ReqCB) /\ Controlled
  BY <1>3 DEF Typed, Controlled, Local
<1>5. AbortCounted(k, loc[t].o) \in Tables
  BY <1>4, AbortCountedTyped
<1>6. dm' \in Tables
  <2>1. ToSet(loc[t].reqs) \subseteq ReqCB
    BY <1>4, EntriesOf
  <2> QED BY <1>2, <1>5, <2>1, DelReqTyped DEF CallEnds
<1>7. Controlled'
  BY <1>2, <1>4, ReturnControlled DEF CallEnds
<1>8. Typed'
  BY <1>2, <1>6, <1>7 DEF CallEnds, Typed
<1> QED BY <1>2, <1>4, <1>8

-----------------------------------------------------------------------------
(***************************************************************************)
(* Type correctness                                                        *)
(***************************************************************************)
LEMMA InitTables ==
    ASSUME Init
    PROVE  /\ Typed
           /\ dm.dev = [d \in DevCB |-> UnusedDev] /\ dm.used = <<>>
           /\ dm.freedev = SetToSeq(DevCB) /\ dm.opn = [o \in OpnCB |-> UnusedOpn]
           /\ dm.freeopn = SetToSeq(OpnCB) /\ dm.resq = <<>>
           /\ dm.req = [r \in ReqCB |-> UnusedReq] /\ dm.freereq = SetToSeq(ReqCB)
<1>1. /\ dm.dev = [d \in DevCB |-> UnusedDev] /\ dm.used = <<>>
      /\ dm.freedev = SetToSeq(DevCB) /\ dm.opn = [o \in OpnCB |-> UnusedOpn]
      /\ dm.freeopn = SetToSeq(OpnCB) /\ dm.resq = <<>>
      /\ dm.req = [r \in ReqCB |-> UnusedReq] /\ dm.freereq = SetToSeq(ReqCB)
      /\ dm.DisSusCnt = 0 /\ Shape(dm)
  BY DEF Init, Shape, Table
<1>2. /\ SetToSeq(DevCB) \in Seq(DevCB) /\ SetToSeq(OpnCB) \in Seq(OpnCB)
      /\ SetToSeq(ReqCB) \in Seq(ReqCB)
  BY FreeQueue, DeviceAssumption
<1>3. <<>> \in Seq(DevCB) /\ <<>> \in Seq(OpnCB) /\ 0 \in 0..MaxDisSus
  BY EmptySeq, Constants
<1>4. /\ dm.dev \in [DevCB -> DevRec] /\ dm.opn \in [OpnCB -> OpnRec]
      /\ dm.req \in [ReqCB -> ReqRec]
  BY <1>1, Constants
<1>5. dm \in Tables
  BY <1>1, <1>2, <1>3, <1>4, TablesOf
<1>6. Controlled
  <2>1. "out" \in Place /\ "out" \notin Holding \cup Driving
    BY DEF Place, Holding, Driving, Aborting
  <2> QED BY <2>1, Constants DEF Init, Controlled
<1>7. Typed
  BY <1>5, <1>6 DEF Typed, Init
<1> QED BY <1>1, <1>7

\* Every step keeps the types.
LEMMA TypedStep ==
    ASSUME Typed, [Next]_vars
    PROVE  Typed'
<1>1. ASSUME NEW t \in Managers, ManagerCall(t)
      PROVE  Typed'
  <2>1. t \in Tsk
    BY DEF Tsk
  <2> QED BY <1>1, <2>1, DefDevTyped, UndefDevTyped, OpnDevTyped, ClsDevTyped,
             SuspendCountTyped, CleanupTyped, SuspendTyped DEF ManagerCall
<1>2. ASSUME NEW t \in Managers, Step(t)
      PROVE  Typed'
  <2>1. t \in Tsk
    BY DEF Tsk
  <2> QED BY <1>2, <2>1, EndOpenTyped, AbortAllTyped, AbortTestTyped, AbortWaitTyped, AbortEndTyped,
             AbortRestTyped, CloseDeviceTyped, CloseEndTyped, SuspendTyped DEF Step
<1>3. ASSUME NEW t \in Users, UserCall(t) \/ Answer(t)
      PROVE  Typed'
  <2>1. t \in Tsk
    BY DEF Tsk
  <2> QED BY <1>3, <2>1, RequestTyped, WaiDevTyped, WaiDevAnyTyped, AnswerTyped DEF UserCall
<1>4. CASE UNCHANGED vars
  BY <1>4 DEF vars, Typed, Controlled
<1> QED BY <1>1, <1>2, <1>3, <1>4 DEF Next

\* The tables of the device manager, the open and request control blocks and
\* the local variables of the tasks keep their types, whatever the drivers
\* answer and in whatever order.
THEOREM DeviceTyped == Spec => []Typed
<1>1. Init => Typed
  BY InitTables
<1>2. Typed /\ [Next]_vars => Typed'
  BY TypedStep
<1> QED BY <1>1, <1>2, PTL DEF Spec

-----------------------------------------------------------------------------
(***************************************************************************)
(* Registration                                                            *)
(***************************************************************************)
\* The devices are the same, and registered as they were.
SameDevs(n, k) ==
    /\ n.used = k.used /\ n.freedev = k.freedev
    /\ \A d \in DevCB : n.dev[d].devnm = k.dev[d].devnm /\ n.dev[d].ddev = k.dev[d].ddev

\* Task t is no task that suspends the devices, nor becomes one.
Elsewhere(t) ==
    /\ pc[t] # "susev" /\ pc'[t] # "susev"
    /\ \A u \in Tsk \ {t} : pc'[u] = pc[u] /\ loc'[u] = loc[u]
    /\ lockREG' = lockREG /\ suspended' = suspended

LEMMA GoneElsewhere ==
    ASSUME Typed, NEW t \in Tsk, pc[t] # "susev", NEW at, at # "susev", NEW l, Goto(t, at, l),
           UNCHANGED <<lockREG, suspended>>
    PROVE  Elsewhere(t)
BY DEF Typed, Controlled, Goto, Elsewhere

LEMMA StayElsewhere ==
    ASSUME Typed, NEW t \in Tsk, pc[t] # "susev", UNCHANGED <<pc, loc, lockREG, suspended>>
    PROVE  Elsewhere(t)
BY DEF Elsewhere

LEMMA QueuesKeepDevs ==
    ASSUME NEW k \in Tables, NEW n, SameRest(n, k),
           \/ n.dev = k.dev
           \/ \E d, q : n.dev = [k.dev EXCEPT ![d].openq = q]
    PROVE  SameDevs(n, k)
<1>1. k.dev \in [DevCB -> DevRec]
  BY DEF Tables
<1>2. CASE n.dev = k.dev
  BY <1>2 DEF SameRest, SameDevs
<1>3. CASE \E d, q : n.dev = [k.dev EXCEPT ![d].openq = q]
  <2>1. PICK d, q : n.dev = [k.dev EXCEPT ![d].openq = q]
    BY <1>3
  <2>2. ASSUME NEW e \in DevCB
        PROVE  n.dev[e].devnm = k.dev[e].devnm /\ n.dev[e].ddev = k.dev[e].ddev
    <3>1. k.dev[e] \in DevRec
      BY <1>1
    <3>2. n.dev[e] = IF e = d THEN [k.dev[e] EXCEPT !.openq = q] ELSE k.dev[e]
      BY <1>1, <2>1
    <3> QED BY <3>1, <3>2 DEF DevRec
  <2> QED BY <2>2 DEF SameRest, SameDevs
<1> QED BY <1>2, <1>3

LEMMA HelpersKeepDevs ==
    ASSUME NEW k \in Tables, NEW o \in OpnCB
    PROVE  /\ \A d \in DevCB, unit \in Units, omode \in OpenModes :
                SameDevs(NewOpnCB(k, o, d, unit, omode), k)
           /\ \A free \in BOOLEAN : SameDevs(DelOpnCB(k, o, free), k)
           /\ \A r \in ReqCB : SameDevs(DelReqCB(k, r), k)
           /\ SameDevs(AbortCounted(k, o), k)
           /\ \A n, x : OpnUpdate(n, k, o, x) => SameDevs(n, k)
<1>1. ASSUME NEW d \in DevCB, NEW unit \in Units, NEW omode \in OpenModes
      PROVE  SameDevs(NewOpnCB(k, o, d, unit, omode), k)
  <2> DEFINE n == NewOpnCB(k, o, d, unit, omode)
  <2>1. /\ SameRest(n, k) /\ SameReq(n, k)
        /\ n.opn = [k.opn EXCEPT ![o] = NewOpn(d, unit, omode)]
        /\ n.dev = [k.dev EXCEPT ![d].openq = Append(@, o)]
        /\ n.freeopn = Tail(k.freeopn) /\ n.resq = Append(k.resq, o)
    BY NewOpnFields
  <2> HIDE DEF n
  <2>2. \E q : n.dev = [k.dev EXCEPT ![d].openq = q]
    BY <2>1
  <2>3. SameDevs(n, k)
    BY <2>1, <2>2, QueuesKeepDevs
  <2> QED BY <2>3 DEF n
<1>2. ASSUME NEW free \in BOOLEAN
      PROVE  SameDevs(DelOpnCB(k, o, free), k)
  <2> DEFINE n == DelOpnCB(k, o, free)
             d == k.opn[o].devcb
  <2>1. /\ SameRest(n, k) /\ SameReq(n, k)
        /\ n.dev = [k.dev EXCEPT ![d].openq = QueRemove(@, o)]
        /\ n.opn = [k.opn EXCEPT ![o] = UnusedOpn]
        /\ n.resq = QueRemove(k.resq, o)
        /\ n.freeopn = IF free THEN Append(k.freeopn, o) ELSE k.freeopn
    BY DelOpnFields
  <2> HIDE DEF n, d
  <2>2. \E e, q : n.dev = [k.dev EXCEPT ![e].openq = q]
    BY <2>1
  <2>3. SameDevs(n, k)
    BY <2>1, <2>2, QueuesKeepDevs
  <2> QED BY <2>3 DEF n
<1>3. ASSUME NEW r \in ReqCB
      PROVE  SameDevs(DelReqCB(k, r), k)
  BY DelReqFields, QueuesKeepDevs
<1>4. SameDevs(AbortCounted(k, o), k)
  BY AbortCountedFields, QueuesKeepDevs
<1>5. ASSUME NEW n, NEW x, OpnUpdate(n, k, o, x)
      PROVE  SameDevs(n, k)
  BY <1>5, QueuesKeepDevs DEF OpnUpdate
<1> QED BY <1>1, <1>2, <1>3, <1>4, <1>5

LEMMA SameDevsTwice ==
    ASSUME NEW m, NEW n, NEW k, SameDevs(m, n), SameDevs(n, k)
    PROVE  SameDevs(m, k)
BY DEF SameDevs

\* The steps that change neither the devices nor what is suspended.
LEMMA OtherSteps ==
    ASSUME Typed, NEW t \in Tsk,
           \/ \E nm \in Name, unit \in Units, omode \in OpenModes : OpnDev(t, nm, unit, omode)
           \/ \E ok \in BOOLEAN : OpnDevEnd(t, ok)
           \/ \E o \in OpnCB : ClsDev(t, o)
           \/ AbortAllRequest(t) \/ AbortTest(t) \/ AbortWait(t) \/ AbortEnd(t)
           \/ AbortRest(t) \/ CloseDevice(t)
    PROVE  SameDevs(dm', dm) /\ Elsewhere(t)
<1>1. dm \in Tables
  BY DEF Typed
<1>2. CASE \E nm \in Name, unit \in Units, omode \in OpenModes : OpnDev(t, nm, unit, omode)
  <2>1. PICK nm \in Name, unit \in Units, omode \in OpenModes : OpnDev(t, nm, unit, omode)
    BY <1>2
  <2>2. PICK d \in ToSet(dm.used), o \in OpnCB :
          /\ dm.freeopn # <<>>
          /\ \/ /\ dm' = NewOpnCB(dm, o, d, unit, omode)
                /\ \E fn \in BOOLEAN : Goto(t, "open", [Idle EXCEPT !.o = o, !.fn = fn])
             \/ /\ dm' = DelOpnCB(NewOpnCB(dm, o, d, unit, omode), o, TRUE)
                /\ UNCHANGED <<pc, loc>>
    BY <2>1, OpnDevTyped
  <2> DEFINE n == NewOpnCB(dm, o, d, unit, omode)
  <2>3. d \in DevCB
    BY <1>1, EntriesOf DEF Tables
  <2>4. n \in Tables /\ SameDevs(n, dm)
    BY <1>1, <2>2, <2>3, NewOpnTyped, HelpersKeepDevs
  <2>5. dm' = n \/ dm' = DelOpnCB(n, o, TRUE)
    BY <2>2
  <2> HIDE DEF n
  <2>6. SameDevs(DelOpnCB(n, o, TRUE), n)
    BY <2>4, HelpersKeepDevs
  <2>7. SameDevs(dm', dm)
    BY <2>4, <2>5, <2>6 DEF SameDevs
  <2>8. pc[t] # "susev" /\ UNCHANGED <<lockREG, suspended>>
    BY <2>1 DEF OpnDev
  <2>9. Elsewhere(t)
    <3>1. CASE \E fn \in BOOLEAN : Goto(t, "open", [Idle EXCEPT !.o = o, !.fn = fn])
      <4>1. PICK fn \in BOOLEAN : Goto(t, "open", [Idle EXCEPT !.o = o, !.fn = fn])
        BY <3>1
      <4> QED BY <4>1, <2>8, GoneElsewhere
    <3>2. CASE UNCHANGED <<pc, loc>>
      BY <3>2, <2>8, StayElsewhere
    <3> QED BY <2>2, <3>1, <3>2
  <2> QED BY <2>7, <2>9
<1>3. CASE \E ok \in BOOLEAN : OpnDevEnd(t, ok)
  <2>1. PICK ok \in BOOLEAN : OpnDevEnd(t, ok)
    BY <1>3
  <2> DEFINE o == loc[t].o
             x == [dm.opn[o] EXCEPT !.resid = 1]
  <2>2. SameDevs(dm', dm)
    <3>1. /\ o \in OpnCB
          /\ \/ ok /\ OpnUpdate(dm', dm, o, x)
             \/ ~ok /\ dm' = DelOpnCB(dm, o, TRUE)
      BY <2>1, EndOpenTyped
    <3> HIDE DEF o, x
    <3> QED BY <1>1, <3>1, HelpersKeepDevs
  <2>3. Elsewhere(t)
    BY <2>1, GoneElsewhere DEF OpnDevEnd, Return
  <2> QED BY <2>2, <2>3
<1>4. CASE \E o \in OpnCB : ClsDev(t, o)
  <2>1. PICK o \in OpnCB : ClsDev(t, o)
    BY <1>4
  <2>2. SameDevs(dm', dm)
    BY <1>1, <2>1, ClsDevTyped, HelpersKeepDevs
  <2>3. Elsewhere(t)
    BY <2>1, GoneElsewhere DEF ClsDev
  <2> QED BY <2>2, <2>3
<1>5. CASE AbortAllRequest(t)
  <2>1. SameDevs(dm', dm)
    BY <1>1, <1>5, AbortAllTyped, HelpersKeepDevs
  <2>2. Elsewhere(t)
    BY <1>5, GoneElsewhere DEF AbortAllRequest
  <2> QED BY <2>1, <2>2
<1>6. CASE AbortTest(t)
  <2>1. dm' = dm
    BY <1>6 DEF AbortTest
  <2>2. Elsewhere(t)
    BY <1>6, GoneElsewhere DEF AbortTest
  <2> QED BY <2>1, <2>2 DEF SameDevs
<1>7. CASE AbortWait(t)
  <2>1. SameDevs(dm', dm)
    BY <1>1, <1>7, AbortWaitTyped, HelpersKeepDevs
  <2>2. Elsewhere(t)
    BY <1>7, GoneElsewhere DEF AbortWait
  <2> QED BY <2>1, <2>2
<1>8. CASE AbortEnd(t)
  <2>1. SameDevs(dm', dm)
    BY <1>1, <1>8, AbortEndTyped, HelpersKeepDevs
  <2>2. Elsewhere(t)
    BY <1>8, GoneElsewhere DEF AbortEnd
  <2> QED BY <2>1, <2>2
<1>9. CASE AbortRest(t)
  <2>1. loc[t].o \in OpnCB /\ (dm' = dm \/ \E r \in ReqCB : dm' = DelReqCB(dm, r))
    BY <1>9, AbortRestTyped
  <2>2. SameDevs(dm', dm)
    BY <1>1, <2>1, HelpersKeepDevs DEF SameDevs
  <2>3. Elsewhere(t)
    <3>1. pc[t] # "susev" /\ UNCHANGED <<lockREG, suspended>>
      BY <1>9 DEF AbortRest
    <3>2. \E l : Goto(t, "close", l) \/ Goto(t, "drain", l)
      BY <1>9 DEF AbortRest
    <3> QED BY <3>1, <3>2, GoneElsewhere
  <2> QED BY <2>2, <2>3
<1>10. CASE CloseDevice(t)
  <2>1. SameDevs(dm', dm)
    BY <1>1, <1>10, CloseDeviceTyped, HelpersKeepDevs
  <2>2. Elsewhere(t)
    <3>1. pc[t] # "susev" /\ UNCHANGED <<lockREG, suspended>>
      BY <1>10 DEF CloseDevice
    <3>2. \E l : Goto(t, "closefn", l)
      BY <1>10 DEF CloseDevice
    <3> QED BY <3>1, <3>2, GoneElsewhere
  <2> QED BY <2>1, <2>2
<1> QED BY <1>2, <1>3, <1>4, <1>5, <1>6, <1>7, <1>8, <1>9, <1>10

LEMMA CloseNextKeeps ==
    ASSUME Typed, NEW t \in Tsk, NEW k \in Tables, SameDevs(k, dm), CloseNext(t, k)
    PROVE  SameDevs(dm', dm) /\ \E l : Goto(t, "abort", l)
<1>1. PICK o \in ToSet(k.resq) : /\ OpnUpdate(dm', k, o, [k.opn[o] EXCEPT !.resid = 0])
                                 /\ Goto(t, "abort", [Idle EXCEPT !.o = o, !.all = TRUE])
  BY DEF CloseNext
<1>2. o \in OpnCB
  BY EntriesOf DEF Tables
<1>3. SameDevs(dm', k)
  BY <1>1, <1>2, HelpersKeepDevs
<1> QED BY <1>1, <1>3, SameDevsTwice

LEMMA OtherClosings ==
    ASSUME Typed, NEW t \in Tsk,
           \/ CloseEnd(t) \/ DevmgrCleanup(t) \/ DisSus(t) \/ EnaSus(t)
           \/ \E force \in BOOLEAN : SusDev(t, force)
    PROVE  SameDevs(dm', dm) /\ Elsewhere(t)
<1>1. CASE CloseEnd(t)
  <2>1. PICK k \in Tables :
          Freed(k, loc[t].o) /\ ((dm' = k /\ Return(t)) \/ CloseNext(t, k))
    BY <1>1, CloseEndTyped
  <2>2. SameDevs(k, dm)
    BY <2>1 DEF Freed, SameDevs, SameDev
  <2>3. SameDevs(dm', dm) /\ \E l : Goto(t, "abort", l) \/ Goto(t, "out", l)
    BY <2>1, <2>2, CloseNextKeeps DEF Return
  <2>4. pc[t] # "susev" /\ UNCHANGED <<lockREG, suspended>>
    BY <1>1 DEF CloseEnd
  <2> QED BY <2>3, <2>4, GoneElsewhere
<1>2. CASE DevmgrCleanup(t)
  <2>1. PICK k \in Tables :
          Counting(k) /\ ((dm' = k /\ UNCHANGED <<pc, loc>>) \/ CloseNext(t, k))
    BY <1>2, CleanupTyped
  <2>2. SameDevs(k, dm)
    BY <2>1 DEF Counting, SameDevs, SameDev
  <2>3. SameDevs(dm', dm) /\ (UNCHANGED <<pc, loc>> \/ \E l : Goto(t, "abort", l))
    BY <2>1, <2>2, CloseNextKeeps
  <2>4. pc[t] # "susev" /\ UNCHANGED <<lockREG, suspended>>
    BY <1>2 DEF DevmgrCleanup
  <2> QED BY <2>3, <2>4, GoneElsewhere, StayElsewhere
<1>3. CASE DisSus(t) \/ EnaSus(t)
  <2>1. Counting(dm') /\ UNCHANGED <<pc, loc>>
    BY <1>3, SuspendCountTyped
  <2>2. pc[t] # "susev" /\ UNCHANGED <<lockREG, suspended>>
    BY <1>3 DEF DisSus, EnaSus
  <2>3. SameDevs(dm', dm)
    BY <2>1 DEF Counting, SameDevs, SameDev
  <2> QED BY <2>1, <2>2, <2>3, StayElsewhere
<1>4. CASE \E force \in BOOLEAN : SusDev(t, force)
  <2>1. /\ pc[t] # "susev" /\ UNCHANGED <<lockREG, suspended>> /\ dm' = dm
        /\ Goto(t, "sus", Idle)
    BY <1>4 DEF SusDev
  <2> QED BY <2>1, GoneElsewhere DEF SameDevs
<1> QED BY <1>1, <1>2, <1>3, <1>4

LEMMA OtherCalls ==
    ASSUME Typed, NEW t \in Tsk, UserCall(t) \/ Answer(t)
    PROVE  SameDevs(dm', dm) /\ Elsewhere(t)
<1>1. dm \in Tables
  BY DEF Typed
<1>2. CASE UserCall(t)
  <2>1. PICK o \in OpnCB :
          \/ \E mode \in {{}, {"READ"}, {"WRITE"}} : Request(t, o, mode)
          \/ \E r \in ReqCB : WaiDev(t, o, r)
          \/ WaiDevAny(t, o)
    BY <1>2 DEF UserCall
  <2>2. SameButReq(dm', dm)
    BY <2>1, RequestTyped, WaiDevTyped, WaiDevAnyTyped
  <2>3. SameDevs(dm', dm)
    BY <1>1, <2>2, QueuesKeepDevs DEF SameButReq
  <2>4. pc[t] # "susev" /\ UNCHANGED <<lockREG, suspended>>
    BY <2>1 DEF Request, WaiDev, WaiDevAny
  <2>5. \E l : Goto(t, "exec", l) \/ Goto(t, "wait", l)
    BY <2>1 DEF Request, WaiDev, WaiDevAny
  <2> QED BY <2>3, <2>4, <2>5, GoneElsewhere
<1>3. CASE Answer(t)
  <2>1. PICK k \in Tables : CallEnds(t, k)
    BY <1>3, AnswerTyped
  <2>2. loc[t].o \in OpnCB /\ loc[t].reqs \in Seq(ReqCB)
    BY <1>3, AnswerTyped DEF Typed, Controlled, Local
  <2> DEFINE n == AbortCounted(k, loc[t].o)
  <2>3. SameDevs(k, dm)
    BY <1>1, <2>1, QueuesKeepDevs DEF CallEnds, CallOver, SameButReq
  <2>4. n \in Tables /\ SameDevs(n, k)
    BY <2>2, AbortCountedTyped, HelpersKeepDevs
  <2>5. dm' = n \/ \E r \in ToSet(loc[t].reqs) : dm' = DelReqCB(n, r)
    BY <2>1 DEF CallEnds
  <2> HIDE DEF n
  <2>6. ToSet(loc[t].reqs) \subseteq ReqCB
    BY <2>2, EntriesOf
  <2>7. dm' = n \/ SameDevs(dm', n)
    BY <2>2, <2>4, <2>5, <2>6, HelpersKeepDevs
  <2>8. SameDevs(dm', dm)
    BY <2>3, <2>4, <2>7, SameDevsTwice
  <2>9. pc[t] # "susev" /\ UNCHANGED <<lockREG, suspended>>
    BY <1>3 DEF Answer, RequestEnd, WaiDevEnd
  <2>10. Goto(t, "out", Idle)
    BY <2>1 DEF CallEnds, Return
  <2> QED BY <2>8, <2>9, <2>10, GoneElsewhere
<1> QED BY <1>2, <1>3

\* The steps by what they do to the devices.
LEMMA StepKinds ==
    ASSUME Typed, [Next]_vars
    PROVE  \/ \E t \in Tsk, nm \in Name : \E ddev \in DDev[nm] : DefDev(t, nm, ddev)
           \/ \E t \in Tsk, nm \in Name : UndefDev(t, nm)
           \/ \E t \in Tsk : SusLock(t) \/ SusEvent(t) \/ SusNext(t)
           \/ SameDevs(dm', dm) /\ \E t \in Tsk : Elsewhere(t)
           \/ UNCHANGED vars
<1>1. Managers \subseteq Tsk /\ Users \subseteq Tsk
  BY DEF Tsk
<1>2. ASSUME NEW t \in Managers, ManagerCall(t)
      PROVE  \/ \E nm \in Name : \E ddev \in DDev[nm] : DefDev(t, nm, ddev)
             \/ \E nm \in Name : UndefDev(t, nm)
             \/ SameDevs(dm', dm) /\ Elsewhere(t)
  BY <1>1, <1>2, OtherSteps, OtherClosings DEF ManagerCall
<1>3. ASSUME NEW t \in Managers, Step(t)
      PROVE  \/ SusLock(t) \/ SusEvent(t) \/ SusNext(t)
             \/ SameDevs(dm', dm) /\ Elsewhere(t)
  BY <1>1, <1>3, OtherSteps, OtherClosings DEF Step
<1>4. ASSUME NEW t \in Users, UserCall(t) \/ Answer(t)
      PROVE  SameDevs(dm', dm) /\ Elsewhere(t)
  BY <1>1, <1>4, OtherCalls
<1> QED BY <1>1, <1>2, <1>3, <1>4 DEF Next

LEMMA RegistersAnew ==
    ASSUME Typed, DevInv, NEW t \in Tsk, NEW nm \in Name, NEW ddev \in DDev[nm], DefDev(t, nm, ddev)
    PROVE  DevInv'
<1>1. ddev.disk \in BOOLEAN
  BY DeviceAssumption
<1>2. /\ dm.used \in Seq(DevCB) /\ dm.freedev \in Seq(DevCB) /\ dm.dev \in [DevCB -> DevRec]
  BY DEF Typed, Tables
<1>3. CASE \E d \in ToSet(dm.used) :
             /\ dm'.dev = [dm.dev EXCEPT ![d].ddev = ddev]
             /\ dm'.used = dm.used /\ dm'.freedev = dm.freedev
  <2>1. PICK d \in ToSet(dm.used) :
          /\ dm'.dev = [dm.dev EXCEPT ![d].ddev = ddev]
          /\ dm'.used = dm.used /\ dm'.freedev = dm.freedev
    BY <1>3
  <2>2. ToSet(dm.used) \subseteq DevCB
    BY <1>2, EntriesOf
  <2>3. \A e \in DevCB : /\ dm'.dev[e].devnm = dm.dev[e].devnm
                         /\ dm'.dev[e].ddev = IF e = d THEN ddev ELSE dm.dev[e].ddev
    <3>1. ASSUME NEW e \in DevCB
          PROVE  /\ dm'.dev[e].devnm = dm.dev[e].devnm
                 /\ dm'.dev[e].ddev = IF e = d THEN ddev ELSE dm.dev[e].ddev
      <4>1. dm.dev[e] \in DevRec
        BY <1>2
      <4>2. dm'.dev[e] = IF e = d THEN [dm.dev[e] EXCEPT !.ddev = ddev] ELSE dm.dev[e]
        BY <1>2, <2>1
      <4> QED BY <4>1, <4>2 DEF DevRec
    <3> QED BY <3>1
  <2> QED BY <1>1, <2>1, <2>2, <2>3 DEF DevInv
<1>4. CASE \E d \in DevCB :
             /\ dm.freedev # <<>> /\ d = Head(dm.freedev)
             /\ \A e \in ToSet(dm.used) : dm.dev[e].devnm # nm
             /\ dm'.dev = [dm.dev EXCEPT ![d] = [devnm |-> nm, ddev |-> ddev, openq |-> <<>>]]
             /\ dm'.used = Append(dm.used, d) /\ dm'.freedev = Tail(dm.freedev)
  <2>1. PICK d \in DevCB :
          /\ dm.freedev # <<>> /\ d = Head(dm.freedev)
          /\ \A e \in ToSet(dm.used) : dm.dev[e].devnm # nm
          /\ dm'.dev = [dm.dev EXCEPT ![d] = [devnm |-> nm, ddev |-> ddev, openq |-> <<>>]]
          /\ dm'.used = Append(dm.used, d) /\ dm'.freedev = Tail(dm.freedev)
    BY <1>4
  <2>2. /\ d \in ToSet(dm.freedev) /\ IsInjective(dm'.freedev)
        /\ ToSet(dm'.freedev) = ToSet(dm.freedev) \ {d}
    BY <1>2, <2>1, TailSet DEF DevInv
  <2>3. d \notin ToSet(dm.used)
    BY <2>2 DEF DevInv
  <2>4. IsInjective(dm'.used) /\ ToSet(dm'.used) = ToSet(dm.used) \cup {d}
    BY <1>2, <2>1, <2>3, AppendOne DEF DevInv
  <2>5. ToSet(dm.used) \subseteq DevCB
    BY <1>2, EntriesOf
  <2>6. \A e \in DevCB : dm'.dev[e] = IF e = d THEN [devnm |-> nm, ddev |-> ddev, openq |-> <<>>]
                                      ELSE dm.dev[e]
    BY <1>2, <2>1
  <2>7. \A e, f \in ToSet(dm'.used) : dm'.dev[e].devnm = dm'.dev[f].devnm => e = f
    BY <2>1, <2>4, <2>5, <2>6 DEF DevInv
  <2>8. \A e \in ToSet(dm'.used) : dm'.dev[e].ddev.disk \in BOOLEAN
    BY <1>1, <2>4, <2>5, <2>6 DEF DevInv
  <2>9. /\ ToSet(dm'.used) \cap ToSet(dm'.freedev) = {}
        /\ ToSet(dm'.used) \cup ToSet(dm'.freedev) = DevCB
    BY <2>2, <2>3, <2>4 DEF DevInv
  <2> QED BY <2>2, <2>4, <2>7, <2>8, <2>9 DEF DevInv
<1>5. \/ \E d \in ToSet(dm.used) :
           /\ dm'.dev = [dm.dev EXCEPT ![d].ddev = ddev]
           /\ dm'.used = dm.used /\ dm'.freedev = dm.freedev
      \/ \E d \in DevCB :
           /\ dm.freedev # <<>> /\ d = Head(dm.freedev)
           /\ \A e \in ToSet(dm.used) : dm.dev[e].devnm # nm
           /\ dm'.dev = [dm.dev EXCEPT ![d] = [devnm |-> nm, ddev |-> ddev, openq |-> <<>>]]
           /\ dm'.used = Append(dm.used, d) /\ dm'.freedev = Tail(dm.freedev)
  <2>1. /\ Typed'
        /\ \/ \E d \in ToSet(dm.used) :
                /\ dm'.dev = [dm.dev EXCEPT ![d].ddev = ddev]
                /\ dm'.used = dm.used /\ dm'.freedev = dm.freedev
           \/ \E d \in DevCB :
                /\ dm.freedev # <<>> /\ d = Head(dm.freedev)
                /\ \A e \in ToSet(dm.used) : dm.dev[e].devnm # nm
                /\ dm'.dev = [dm.dev EXCEPT ![d] = [devnm |-> nm, ddev |-> ddev, openq |-> <<>>]]
                /\ dm'.used = Append(dm.used, d) /\ dm'.freedev = Tail(dm.freedev)
        /\ dm'.opn = dm.opn /\ dm'.freeopn = dm.freeopn /\ dm'.resq = dm.resq
        /\ SameReq(dm', dm)
    BY DefDevTyped, Zenon
  <2> QED BY <2>1
<1> QED BY <1>3, <1>4, <1>5

LEMMA RegistersOff ==
    ASSUME Typed, DevInv, NEW t \in Tsk, NEW nm \in Name, UndefDev(t, nm)
    PROVE  DevInv'
<1>1. PICK d \in ToSet(dm.used) :
        /\ dm'.dev = [dm.dev EXCEPT ![d] = UnusedDev]
        /\ dm'.used = QueRemove(dm.used, d) /\ dm'.freedev = Append(dm.freedev, d)
  BY UndefDevTyped
<1>2. dm.used \in Seq(DevCB) /\ dm.freedev \in Seq(DevCB) /\ dm.dev \in [DevCB -> DevRec]
  BY DEF Typed, Tables
<1>3. ToSet(dm.used) \subseteq DevCB
  BY <1>2, EntriesOf
<1>4. IsInjective(dm'.used) /\ ToSet(dm'.used) = ToSet(dm.used) \ {d}
  BY <1>1, <1>2, QueRemoveEntry DEF DevInv
<1>5. d \in DevCB /\ d \notin ToSet(dm.freedev)
  BY <1>1, <1>3 DEF DevInv
<1>6. IsInjective(dm'.freedev) /\ ToSet(dm'.freedev) = ToSet(dm.freedev) \cup {d}
  BY <1>1, <1>2, <1>5, AppendOne DEF DevInv
<1>7. \A e \in ToSet(dm'.used) : dm'.dev[e] = dm.dev[e] /\ e \in ToSet(dm.used)
  BY <1>1, <1>2, <1>3, <1>4
<1> QED BY <1>4, <1>5, <1>6, <1>7, <1>1 DEF DevInv

LEMMA KeepsRegistered ==
    ASSUME Typed, DevInv, SameDevs(dm', dm)
    PROVE  DevInv'
<1>1. ToSet(dm.used) \subseteq DevCB
  BY EntriesOf DEF Typed, Tables
<1>2. /\ dm'.used = dm.used /\ dm'.freedev = dm.freedev
      /\ \A d \in DevCB : dm'.dev[d].devnm = dm.dev[d].devnm /\ dm'.dev[d].ddev = dm.dev[d].ddev
  BY DEF SameDevs
<1> QED BY <1>1, <1>2 DEF DevInv

LEMMA DevStep ==
    ASSUME Typed, DevInv, [Next]_vars
    PROVE  DevInv'
<1>1. CASE \E t \in Tsk : SusLock(t) \/ SusEvent(t) \/ SusNext(t)
  <2>1. dm' = dm
    BY <1>1, SuspendTyped
  <2> QED BY <2>1, KeepsRegistered DEF SameDevs
<1>2. CASE UNCHANGED vars
  BY <1>2, KeepsRegistered DEF SameDevs, vars
<1>3. CASE \E t \in Tsk, nm \in Name : \E ddev \in DDev[nm] : DefDev(t, nm, ddev)
  BY <1>3, RegistersAnew
<1>4. CASE \E t \in Tsk, nm \in Name : UndefDev(t, nm)
  BY <1>4, RegistersOff
<1>5. CASE SameDevs(dm', dm)
  BY <1>5, KeepsRegistered
<1> QED BY <1>1, <1>2, <1>3, <1>4, <1>5, StepKinds

LEMMA InitDev ==
    ASSUME Init
    PROVE  DevInv
<1>1. dm.used = <<>> /\ dm.freedev = SetToSeq(DevCB)
  BY InitTables
<1>2. ToSet(SetToSeq(DevCB)) = DevCB /\ IsInjective(SetToSeq(DevCB))
  BY FreeQueue, DeviceAssumption
<1>3. ToSet(<<>>) = {} /\ IsInjective(<<>>)
  BY EmptySeq DEF ToSet, IsInjective
<1> QED BY <1>1, <1>2, <1>3 DEF DevInv

\* A device control block is registered, under a name no other registered
\* device has, or free: none is lost or registered twice, whatever is open.
THEOREM DevicesExact == Spec => []DevInv
<1>1. Init => Typed /\ DevInv
  BY InitTables, InitDev
<1>2. (Typed /\ DevInv) /\ [Next]_vars => (Typed /\ DevInv)'
  BY TypedStep, DevStep
<1> QED BY <1>1, <1>2, PTL DEF Spec

-----------------------------------------------------------------------------
(***************************************************************************)
(* Suspension                                                              *)
(***************************************************************************)
LEMMA KeepsSuspension ==
    ASSUME SuspendInv, dm'.used = dm.used, Disks' = Disks,
           lockREG' = lockREG, suspended' = suspended,
           \A t \in Tsk : (pc[t] = "susev" \/ pc'[t] = "susev") =>
               pc'[t] = pc[t] /\ loc'[t] = loc[t]
    PROVE  SuspendInv'
<1>1. \A t \in Tsk : pc'[t] = "susev" => Passed(t)' = Passed(t) /\ loc'[t] = loc[t] /\ pc[t] = "susev"
  BY DEF Passed
<1>2. \A t \in Tsk : pc'[t] = "susev" <=> lockREG' = t
  BY DEF SuspendInv
<1>3. lockREG' = NoObj => suspended' = {}
  BY DEF SuspendInv
<1>4. ASSUME NEW t \in Tsk, pc'[t] = "susev"
      PROVE  /\ Len(loc'[t].todo) <= Len(dm'.used)
             /\ loc'[t].todo = SubSeq(dm'.used, Len(dm'.used) - Len(loc'[t].todo) + 1, Len(dm'.used))
             /\ loc'[t].pass \in 1..4
             /\ loc'[t].pass = 1 => suspended' = Passed(t)' \ Disks'
             /\ loc'[t].pass = 2 => suspended' = (ToSet(dm'.used) \ Disks') \cup (Passed(t)' \cap Disks')
             /\ loc'[t].pass = 3 => suspended' = ToSet(dm'.used) \ (Passed(t)' \cap Disks')
             /\ loc'[t].pass = 4 => suspended' = (ToSet(dm'.used) \ Disks') \ Passed(t)'
  <2>1. Passed(t)' = Passed(t) /\ loc'[t] = loc[t] /\ pc[t] = "susev"
    BY <1>1, <1>4
  <2> QED BY <2>1 DEF SuspendInv
<1> QED BY <1>2, <1>3, <1>4 DEF SuspendInv

LEMMA OthersKeepSuspension ==
    ASSUME Typed, SuspendInv, SameDevs(dm', dm), NEW t \in Tsk, Elsewhere(t)
    PROVE  SuspendInv'
<1>1. ToSet(dm.used) \subseteq DevCB
  BY EntriesOf DEF Typed, Tables
<1>2. Disks' = Disks
  BY <1>1 DEF SameDevs, Disks
<1>3. \A u \in Tsk : (pc[u] = "susev" \/ pc'[u] = "susev") => pc'[u] = pc[u] /\ loc'[u] = loc[u]
  BY DEF Elsewhere
<1> QED BY <1>2, <1>3, KeepsSuspension DEF SameDevs, Elsewhere

\* Nobody suspends while a device is registered.
LEMMA RegistrationKeepsSuspension ==
    ASSUME Typed, SuspendInv, UNCHANGED <<lockREG, pc, loc, suspended>>, lockREG = NoObj
    PROVE  SuspendInv'
<1>1. \A t \in Tsk : pc[t] # "susev"
  BY Constants DEF SuspendInv
<1> QED BY <1>1 DEF SuspendInv

LEMMA LockStartsSuspension ==
    ASSUME Typed, SuspendInv, NEW t \in Tsk, SusLock(t)
    PROVE  SuspendInv'
<1>1. dm.used \in Seq(DevCB) /\ pc \in [Tsk -> Place] /\ loc \in [Tsk -> Local]
  BY DEF Typed, Tables, Controlled
<1> DEFINE l == [Idle EXCEPT !.pass = 1, !.todo = dm.used]
<1>2. /\ dm' = dm /\ lockREG' = t /\ lockREG = NoObj /\ suspended' = suspended
      /\ pc' = [pc EXCEPT ![t] = "susev"] /\ loc' = [loc EXCEPT ![t] = l]
  BY DEF SusLock, Goto
<1>3. l.pass = 1 /\ l.todo = dm.used
  BY Constants DEF Local
<1> HIDE DEF l
<1>4. loc'[t] = l /\ \A u \in Tsk : pc'[u] = "susev" <=> u = t
  BY <1>1, <1>2, Constants DEF SuspendInv
<1>5. suspended' = {}
  BY <1>2 DEF SuspendInv
<1>6. Passed(t)' = {}
  <2>1. dm'.used = dm.used /\ loc'[t].todo = dm.used
    BY <1>2, <1>3, <1>4
  <2>2. 1..(Len(dm.used) - Len(dm.used)) = {}
    <3>1. Len(dm.used) \in Nat
      BY <1>1, LenProperties
    <3> QED BY ONLY <3>1, SMT
  <2>3. Passed(t)' = {dm.used[i] : i \in 1..(Len(dm.used) - Len(dm.used))}
    BY <2>1 DEF Passed
  <2> QED BY <2>2, <2>3
<1>7. /\ Len(l.todo) <= Len(dm.used)
      /\ l.todo = SubSeq(dm.used, Len(dm.used) - Len(l.todo) + 1, Len(dm.used))
  <2>1. Len(dm.used) \in Nat /\ Len(dm.used) - Len(dm.used) + 1 = 1
    BY <1>1, LenProperties
  <2>2. SubSeq(dm.used, 1, Len(dm.used)) = dm.used
    BY <1>1
  <2> QED BY <1>3, <2>1, <2>2
<1>8. t # NoObj /\ \A u \in Tsk : pc'[u] = "susev" <=> lockREG' = u
  BY <1>2, <1>4, Constants
<1>9. ASSUME NEW u \in Tsk, pc'[u] = "susev"
      PROVE  /\ Len(loc'[u].todo) <= Len(dm'.used)
             /\ loc'[u].todo = SubSeq(dm'.used, Len(dm'.used) - Len(loc'[u].todo) + 1, Len(dm'.used))
             /\ loc'[u].pass = 1 /\ suspended' = Passed(u)' \ Disks'
  <2>1. u = t /\ loc'[u] = l /\ dm'.used = dm.used
    BY <1>2, <1>4, <1>9
  <2>2. suspended' = Passed(u)' \ Disks'
    BY <2>1, <1>5, <1>6
  <2> QED BY <2>1, <2>2, <1>3, <1>7
<1>10. 1 \in 1..4 /\ 1 # 2 /\ 1 # 3 /\ 1 # 4
  OBVIOUS
<1> QED BY <1>8, <1>2, <1>9, <1>10 DEF SuspendInv

LEMMA RestOfLoop ==
    ASSUME NEW S, NEW s \in Seq(S), NEW q \in Seq(S), Len(q) <= Len(s), q # <<>>,
           q = SubSeq(s, Len(s) - Len(q) + 1, Len(s))
    PROVE  /\ Head(q) = s[Len(s) - Len(q) + 1]
           /\ Len(Tail(q)) = Len(q) - 1 /\ Len(q) \in Nat /\ Len(q) > 0
           /\ Tail(q) = SubSeq(s, Len(s) - Len(Tail(q)) + 1, Len(s))
<1>1. Len(q) \in Nat /\ Len(s) \in Nat /\ Len(q) > 0
  BY LenProperties, EmptySeq
<1>2. Len(Tail(q)) = Len(q) - 1
  BY TailSet
<1> DEFINE a == Len(s) - Len(q) + 1
           b == Len(s)
<1>3. a \in 1..b /\ b \in Nat
  BY <1>1
<1>4. q = SubSeq(s, a, b) /\ a + 1 = Len(s) - Len(Tail(q)) + 1
  BY <1>1, <1>2
<1> HIDE DEF a
<1>5. Head(SubSeq(s, a, b)) = s[a]
  BY <1>3
<1>6. Tail(SubSeq(s, a, b)) = SubSeq(s, a + 1, b)
  BY <1>3
<1>7. Head(q) = s[a] /\ Tail(q) = SubSeq(s, a + 1, b)
  BY <1>4, <1>5, <1>6
<1>8. a = Len(s) - Len(q) + 1
  BY DEF a
<1> HIDE DEF b
<1>9. Tail(q) = SubSeq(s, Len(s) - Len(Tail(q)) + 1, Len(s))
  BY <1>4, <1>7 DEF b
<1> QED BY <1>1, <1>2, <1>7, <1>8, <1>9

\* The eventfn of one device has been called, or the device is passed over.
LEMMA EventKeepsSuspension ==
    ASSUME Typed, DevInv, SuspendInv, NEW t \in Tsk, SusEvent(t)
    PROVE  SuspendInv'
<1> DEFINE s == dm.used
           q == loc[t].todo
           p == loc[t].pass
           d == Head(q)
           l == [loc[t] EXCEPT !.todo = Tail(q)]
<1>1. /\ s \in Seq(DevCB) /\ pc \in [Tsk -> Place] /\ loc \in [Tsk -> Local]
      /\ loc[t] \in Local /\ q \in Seq(DevCB) /\ p \in 0..4
  BY DEF Typed, Tables, Controlled, Local
<1>2. /\ dm' = dm /\ lockREG' = lockREG /\ pc[t] = "susev" /\ q # <<>>
      /\ suspended' = IF dm.dev[d].ddev.disk # IsForDisks(p) THEN suspended
                      ELSE IF p \in {1, 2} THEN suspended \cup {d} ELSE suspended \ {d}
      /\ pc' = [pc EXCEPT ![t] = "susev"] /\ loc' = [loc EXCEPT ![t] = l]
  BY DEF SusEvent, Goto
<1>3. /\ Len(q) <= Len(s) /\ q = SubSeq(s, Len(s) - Len(q) + 1, Len(s)) /\ p \in 1..4
      /\ p = 1 => suspended = Passed(t) \ Disks
      /\ p = 2 => suspended = (ToSet(s) \ Disks) \cup (Passed(t) \cap Disks)
      /\ p = 3 => suspended = ToSet(s) \ (Passed(t) \cap Disks)
      /\ p = 4 => suspended = (ToSet(s) \ Disks) \ Passed(t)
      /\ \A u \in Tsk : pc[u] = "susev" <=> lockREG = u
  BY <1>2 DEF SuspendInv
<1>4. l.pass = p /\ l.todo = Tail(q) /\ Tail(q) \in Seq(DevCB)
  BY <1>1, <1>2, TailSet, SuspendLocal
<1>5. /\ d = s[Len(s) - Len(q) + 1] /\ Len(Tail(q)) = Len(q) - 1
      /\ Len(q) \in Nat /\ Len(q) > 0 /\ Tail(q) = SubSeq(s, Len(s) - Len(Tail(q)) + 1, Len(s))
  <2> HIDE DEF s, q
  <2> QED BY <1>1, <1>2, <1>3, RestOfLoop
<1> HIDE DEF l, p
<1>6. /\ loc'[t] = l /\ (\A u \in Tsk : pc'[u] = "susev" <=> u = t)
      /\ \A u \in Tsk : pc'[u] = "susev" <=> lockREG' = u
  BY <1>1, <1>2, <1>3
<1>7. Passed(t)' = Passed(t) \cup {d}
  <2>1. Len(s) \in Nat /\ Len(s) - Len(q) + 1 = Len(s) - Len(Tail(q)) /\ Len(s) - Len(q) \in Nat
    <3>1. Len(s) \in Nat /\ Len(q) \in Nat /\ Len(q) <= Len(s) /\ Len(Tail(q)) = Len(q) - 1
      BY <1>1, <1>3, <1>5, LenProperties
    <3> DEFINE m == Len(s)
               n == Len(q)
               o == Len(Tail(q))
    <3>2. m \in Nat /\ n \in Nat /\ n <= m /\ o = n - 1
      BY <3>1
    <3> HIDE DEF m, n, o
    <3>3. m - n + 1 = m - o /\ m - n \in Nat
      BY <3>2
    <3> QED BY <3>2, <3>3 DEF m, n, o
  <2>2. Passed(t)' = {s[i] : i \in 1..Len(s) - Len(Tail(q))}
    BY <1>2, <1>4, <1>6 DEF Passed
  <2>3. Passed(t) = {s[i] : i \in 1..Len(s) - Len(q)}
    BY DEF Passed
  <2> DEFINE m == Len(s) - Len(q)
  <2>4. m \in Nat /\ Passed(t)' = {s[i] : i \in 1..m + 1} /\ Passed(t) = {s[i] : i \in 1..m}
        /\ d = s[m + 1]
    BY <2>1, <2>2, <2>3, <1>5
  <2> HIDE DEF m, s, q, d
  <2> QED BY <2>4
<1>8. d \in ToSet(s) /\ (d \in Disks <=> dm.dev[d].ddev.disk) /\ dm.dev[d].ddev.disk \in BOOLEAN
  <2>1. DOMAIN s = 1..Len(s) /\ Len(s) \in Nat
    BY <1>1, LenProperties
  <2>2. Len(s) - Len(q) + 1 \in 1..Len(s)
    <3>1. Len(s) \in Nat /\ Len(q) \in Nat /\ Len(q) <= Len(s) /\ Len(q) > 0
      BY <2>1, <1>3, <1>5
    <3> HIDE DEF s, q
    <3> QED BY <3>1
  <2>3. d \in ToSet(s)
    BY <2>1, <2>2, <1>5 DEF ToSet
  <2> QED BY <2>3 DEF Disks, DevInv
<1>9. Disks' = Disks /\ Disks \subseteq ToSet(s)
  BY <1>2 DEF Disks
<1>10. suspended' = IF d \in Disks <=> p \in {2, 3}
                    THEN IF p \in {1, 2} THEN suspended \cup {d} ELSE suspended \ {d}
                    ELSE suspended
  BY <1>2, <1>8 DEF IsForDisks
<1> HIDE DEF s, d
<1>11. /\ p = 1 => suspended' = Passed(t)' \ Disks'
       /\ p = 2 => suspended' = (ToSet(s) \ Disks') \cup (Passed(t)' \cap Disks')
       /\ p = 3 => suspended' = ToSet(s) \ (Passed(t)' \cap Disks')
       /\ p = 4 => suspended' = (ToSet(s) \ Disks') \ Passed(t)'
  <2>1. CASE p = 1
    <3>1. suspended = Passed(t) \ Disks
      BY <1>3, <2>1
    <3>2. suspended' = IF d \in Disks THEN suspended ELSE suspended \cup {d}
      BY <1>10, <2>1
    <3> QED BY <2>1, <3>1, <3>2, <1>7, <1>9
  <2>2. CASE p = 2
    <3>1. suspended = (ToSet(s) \ Disks) \cup (Passed(t) \cap Disks)
      BY <1>3, <2>2
    <3>2. suspended' = IF d \in Disks THEN suspended \cup {d} ELSE suspended
      BY <1>10, <2>2
    <3> QED BY <2>2, <3>1, <3>2, <1>7, <1>8, <1>9
  <2>3. CASE p = 3
    <3>1. suspended = ToSet(s) \ (Passed(t) \cap Disks)
      BY <1>3, <2>3
    <3>2. suspended' = IF d \in Disks THEN suspended \ {d} ELSE suspended
      BY <1>10, <2>3
    <3> QED BY <2>3, <3>1, <3>2, <1>7, <1>9
  <2>4. CASE p = 4
    <3>1. suspended = (ToSet(s) \ Disks) \ Passed(t)
      BY <1>3, <2>4
    <3>2. suspended' = IF d \in Disks THEN suspended ELSE suspended \ {d}
      BY <1>10, <2>4
    <3> QED BY <2>4, <3>1, <3>2, <1>7, <1>9
  <2>5. p = 1 \/ p = 2 \/ p = 3 \/ p = 4
    BY <1>3
  <2> QED BY <2>1, <2>2, <2>3, <2>4, <2>5
<1>12. ASSUME NEW u \in Tsk, pc'[u] = "susev"
       PROVE  /\ Len(loc'[u].todo) <= Len(dm'.used)
              /\ loc'[u].todo = SubSeq(dm'.used, Len(dm'.used) - Len(loc'[u].todo) + 1, Len(dm'.used))
              /\ loc'[u].pass \in 1..4
              /\ loc'[u].pass = 1 => suspended' = Passed(u)' \ Disks'
              /\ loc'[u].pass = 2 => suspended' = (ToSet(dm'.used) \ Disks') \cup (Passed(u)' \cap Disks')
              /\ loc'[u].pass = 3 => suspended' = ToSet(dm'.used) \ (Passed(u)' \cap Disks')
              /\ loc'[u].pass = 4 => suspended' = (ToSet(dm'.used) \ Disks') \ Passed(u)'
  <2>1. u = t /\ loc'[u] = l /\ dm'.used = s
    BY <1>2, <1>6, <1>12 DEF s
  <2>2. Len(l.todo) <= Len(s)
    BY <1>1, <1>3, <1>4, <1>5, LenProperties
  <2> QED BY <2>1, <2>2, <1>3, <1>4, <1>5, <1>11
<1>13. lockREG' # NoObj
  BY <1>2, <1>6, Constants
<1> QED BY <1>6, <1>12, <1>13 DEF SuspendInv

\* The next loop begins, or the devices are as before the suspension.
LEMMA NextKeepsSuspension ==
    ASSUME Typed, DevInv, SuspendInv, NEW t \in Tsk, SusNext(t)
    PROVE  SuspendInv'
<1> DEFINE s == dm.used
           p == loc[t].pass
           l == [loc[t] EXCEPT !.pass = p + 1, !.todo = s]
<1>1. /\ s \in Seq(DevCB) /\ pc \in [Tsk -> Place] /\ loc \in [Tsk -> Local]
      /\ loc[t] \in Local /\ p \in 0..4
  BY DEF Typed, Tables, Controlled, Local
<1>2. /\ dm' = dm /\ suspended' = suspended /\ pc[t] = "susev" /\ loc[t].todo = <<>>
      /\ \/ /\ p < 4 /\ lockREG' = lockREG
            /\ pc' = [pc EXCEPT ![t] = "susev"] /\ loc' = [loc EXCEPT ![t] = l]
         \/ /\ ~(p < 4) /\ lockREG' = NoObj
            /\ pc' = [pc EXCEPT ![t] = "out"]
  BY DEF SusNext, Goto, Return
<1>3. /\ p \in 1..4
      /\ p = 1 => suspended = Passed(t) \ Disks
      /\ p = 2 => suspended = (ToSet(s) \ Disks) \cup (Passed(t) \cap Disks)
      /\ p = 3 => suspended = ToSet(s) \ (Passed(t) \cap Disks)
      /\ p = 4 => suspended = (ToSet(s) \ Disks) \ Passed(t)
      /\ \A u \in Tsk : pc[u] = "susev" <=> lockREG = u
  BY <1>2 DEF SuspendInv
<1>4. Passed(t) = ToSet(s) /\ Disks \subseteq ToSet(s)
  <2>1. DOMAIN s = 1..Len(s) /\ Len(s) \in Nat /\ Len(loc[t].todo) = 0
    BY <1>1, <1>2, LenProperties, EmptySeq
  <2>2. Passed(t) = {s[i] : i \in 1..Len(s)}
    BY <2>1 DEF Passed
  <2> QED BY <2>1, <2>2 DEF ToSet, Disks
<1>5. Disks' = Disks
  BY <1>2 DEF Disks
<1> HIDE DEF p
<1>6. CASE p < 4
  <2>1. l.pass = p + 1 /\ l.todo = s
    <3> DEFINE m == p + 1
    <3>1. m \in 0..4 /\ loc[t] \in Local /\ s \in Seq(DevCB)
      BY <1>1, <1>6
    <3>2. l = [loc[t] EXCEPT !.pass = m, !.todo = s]
      OBVIOUS
    <3> HIDE DEF m, l, s
    <3> DEFINE k == loc[t]
    <3>3. [k EXCEPT !.pass = m, !.todo = s].pass = m /\ [k EXCEPT !.pass = m, !.todo = s].todo = s
      <4>1. k \in Local
        BY <3>1
      <4> HIDE DEF k
      <4> QED BY <4>1 DEF Local
    <3>4. l.pass = m /\ l.todo = s
      BY <3>2, <3>3
    <3> QED BY <3>4 DEF m
  <2> HIDE DEF l
  <2>2. /\ lockREG' = lockREG /\ loc'[t] = l /\ (\A u \in Tsk : pc'[u] = "susev" <=> u = t)
        /\ \A u \in Tsk : pc'[u] = "susev" <=> lockREG' = u
    BY <1>1, <1>2, <1>3, <1>6
  <2>3. Len(s) \in Nat /\ s = SubSeq(s, Len(s) - Len(s) + 1, Len(s))
    <3>1. Len(s) \in Nat /\ Len(s) - Len(s) + 1 = 1
      BY <1>1, LenProperties
    <3>2. SubSeq(s, 1, Len(s)) = s
      BY <1>1
    <3> QED BY <3>1, <3>2
  <2>4. Passed(t)' = {}
    <3>1. Passed(t)' = {s[i] : i \in 1..Len(s) - Len(s)}
      BY <1>2, <2>1, <2>2 DEF Passed
    <3> QED BY <2>3, <3>1
  <2>5. /\ p = 1 => suspended = ToSet(s) \ Disks
        /\ p = 2 => suspended = ToSet(s)
        /\ p = 3 => suspended = ToSet(s) \ Disks
    BY <1>3, <1>4
  <2> HIDE DEF s
  <2>6. ASSUME NEW u \in Tsk, pc'[u] = "susev"
        PROVE  /\ Len(loc'[u].todo) <= Len(dm'.used)
               /\ loc'[u].todo = SubSeq(dm'.used, Len(dm'.used) - Len(loc'[u].todo) + 1, Len(dm'.used))
               /\ loc'[u].pass \in 1..4
               /\ loc'[u].pass = 1 => suspended' = Passed(u)' \ Disks'
               /\ loc'[u].pass = 2 => suspended' = (ToSet(dm'.used) \ Disks') \cup (Passed(u)' \cap Disks')
               /\ loc'[u].pass = 3 => suspended' = ToSet(dm'.used) \ (Passed(u)' \cap Disks')
               /\ loc'[u].pass = 4 => suspended' = (ToSet(dm'.used) \ Disks') \ Passed(u)'
    <3>1. u = t /\ loc'[u] = l /\ dm'.used = s
      BY <1>2, <2>2, <2>6 DEF s
    <3>2. l.pass \in 2..4 /\ (l.pass = 2 => p = 1) /\ (l.pass = 3 => p = 2) /\ (l.pass = 4 => p = 3)
      BY <1>3, <1>6, <2>1
    <3>3. Passed(u)' = {}
      BY <3>1, <2>4
    <3>4. Len(l.todo) <= Len(s) /\ l.todo = SubSeq(s, Len(s) - Len(l.todo) + 1, Len(s))
      BY <2>1, <2>3
    <3>5. /\ l.pass = 2 => suspended = ToSet(s) \ Disks
          /\ l.pass = 3 => suspended = ToSet(s)
          /\ l.pass = 4 => suspended = ToSet(s) \ Disks
      BY <2>5, <3>2
    <3>6. l.pass \in 1..4 /\ l.pass # 1
      BY <3>2
    <3>7. /\ l.pass = 2 => suspended' = (ToSet(s) \ Disks') \cup (Passed(u)' \cap Disks')
          /\ l.pass = 3 => suspended' = ToSet(s) \ (Passed(u)' \cap Disks')
          /\ l.pass = 4 => suspended' = (ToSet(s) \ Disks') \ Passed(u)'
      BY <3>3, <3>5, <1>2, <1>5
    <3> QED BY <3>1, <3>4, <3>6, <3>7
  <2>7. lockREG' # NoObj
    BY <2>2, Constants
  <2> QED BY <2>2, <2>6, <2>7 DEF SuspendInv
<1>7. CASE ~(p < 4)
  <2>1. p = 4
    BY <1>3, <1>7
  <2>2. suspended = {}
    BY <2>1, <1>3, <1>4
  <2>3. lockREG' = NoObj /\ suspended' = {} /\ \A u \in Tsk : pc'[u] # "susev"
    BY <1>1, <1>2, <1>3, <1>7, <2>2
  <2> QED BY <2>3, Constants DEF SuspendInv
<1> QED BY <1>6, <1>7

LEMMA SuspendStep ==
    ASSUME Typed, DevInv, SuspendInv, [Next]_vars
    PROVE  SuspendInv'
<1>1. CASE \E t \in Tsk, nm \in Name : \E ddev \in DDev[nm] : DefDev(t, nm, ddev)
  BY <1>1, RegistrationKeepsSuspension DEF DefDev
<1>2. CASE \E t \in Tsk, nm \in Name : UndefDev(t, nm)
  BY <1>2, RegistrationKeepsSuspension DEF UndefDev
<1>3. CASE \E t \in Tsk : SusLock(t) \/ SusEvent(t) \/ SusNext(t)
  BY <1>3, LockStartsSuspension, EventKeepsSuspension, NextKeepsSuspension
<1>4. CASE SameDevs(dm', dm) /\ \E t \in Tsk : Elsewhere(t)
  BY <1>4, OthersKeepSuspension
<1>5. CASE UNCHANGED vars
  BY <1>5, KeepsSuspension DEF vars, Disks
<1> QED BY <1>1, <1>2, <1>3, <1>4, <1>5, StepKinds

\* SuspendedTogether is what the invariant says of the devices.
LEMMA SuspendedAll ==
    ASSUME Typed, DevInv, SuspendInv
    PROVE  SuspendedTogether
<1>1. dm.used \in Seq(DevCB) /\ lockREG \in Tsk \cup {NoObj}
  BY DEF Typed, Tables
<1>2. DOMAIN dm.used = 1..Len(dm.used) /\ Len(dm.used) \in Nat
  BY <1>1, LenProperties
<1>3. ASSUME NEW t \in Tsk, pc[t] = "susev"
      PROVE  /\ Passed(t) \subseteq ToSet(dm.used)
             /\ loc[t].todo = <<>> => Passed(t) = ToSet(dm.used)
  <2>1. loc[t].todo \in Seq(DevCB) /\ Len(loc[t].todo) \in Nat
    BY LenProperties DEF Typed, Controlled, Local
  <2>2. 1..Len(dm.used) - Len(loc[t].todo) \subseteq 1..Len(dm.used)
    <3> DEFINE m == Len(dm.used)
               n == Len(loc[t].todo)
    <3>1. m \in Nat /\ n \in Nat
      BY <1>2, <2>1
    <3> HIDE DEF m, n
    <3>2. 1..m - n \subseteq 1..m
      BY <3>1
    <3> QED BY <3>2 DEF m, n
  <2>3. loc[t].todo = <<>> => 1..Len(dm.used) - Len(loc[t].todo) = 1..Len(dm.used)
    BY <1>2, EmptySeq
  <2> QED BY <1>2, <2>2, <2>3 DEF Passed, ToSet
<1>4. Disks \subseteq ToSet(dm.used) /\ \A d \in ToSet(dm.used) : d \in Disks <=> dm.dev[d].ddev.disk
  BY DEF Disks
<1>5. CASE lockREG = NoObj
  <2>1. suspended = {} /\ \A t \in Tsk : pc[t] # "susev"
    BY <1>5, Constants DEF SuspendInv
  <2> QED BY <2>1 DEF SuspendedTogether
<1>6. CASE lockREG # NoObj
  <2>1. PICK t \in Tsk : lockREG = t /\ pc[t] = "susev" /\ \A u \in Tsk : pc[u] = "susev" => u = t
    BY <1>1, <1>6 DEF SuspendInv
  <2> DEFINE p == loc[t].pass
  <2>2. /\ p \in 1..4
        /\ p = 1 => suspended = Passed(t) \ Disks
        /\ p = 2 => suspended = (ToSet(dm.used) \ Disks) \cup (Passed(t) \cap Disks)
        /\ p = 3 => suspended = ToSet(dm.used) \ (Passed(t) \cap Disks)
        /\ p = 4 => suspended = (ToSet(dm.used) \ Disks) \ Passed(t)
    BY <2>1 DEF SuspendInv
  <2>3. /\ Passed(t) \subseteq ToSet(dm.used)
        /\ loc[t].todo = <<>> => Passed(t) = ToSet(dm.used)
    BY <1>3, <2>1
  <2>4. suspended \subseteq ToSet(dm.used)
    BY <2>2, <2>3
  <2>5. (\E d \in suspended : d \in Disks) => \A d \in ToSet(dm.used) : d \in Disks \/ d \in suspended
    BY <2>2
  <2>6. p = 2 /\ loc[t].todo = <<>> => suspended = ToSet(dm.used)
    BY <2>2, <2>3, <1>4
  <2>7. (\E d \in suspended : dm.dev[d].ddev.disk) =>
            \A d \in ToSet(dm.used) : dm.dev[d].ddev.disk \/ d \in suspended
    BY <2>4, <2>5, <1>4
  <2> QED BY <1>6, <2>1, <2>4, <2>6, <2>7 DEF SuspendedTogether
<1> QED BY <1>5, <1>6

LEMMA InitSuspend ==
    ASSUME Init
    PROVE  SuspendInv
BY Constants DEF Init, SuspendInv

\* A suspension reaches every registered device and is taken back on every
\* one, the disks last and first, though other tasks open, close and use the
\* devices all the time: the registration lock that do_suspend holds is enough.
THEOREM SuspensionTogether == Spec => []SuspendedTogether
<1> DEFINE Inv == Typed /\ DevInv /\ SuspendInv
<1>1. Init => Inv
  BY InitTables, InitDev, InitSuspend
<1>2. Inv /\ [Next]_vars => Inv'
  BY TypedStep, DevStep, SuspendStep
<1>3. Inv => SuspendedTogether
  BY SuspendedAll
<1> QED BY <1>1, <1>2, <1>3, PTL DEF Spec

-----------------------------------------------------------------------------
(***************************************************************************)
(* Opens                                                                   *)
(***************************************************************************)
\* The block o is taken for an open of d, or is done with.
Opened(n, k, o, d, x) ==
    /\ OpnTables(n) /\ d \in DevCB /\ n.used = k.used
    /\ n.opn = [k.opn EXCEPT ![o] = x]
    /\ ToSet(n.freeopn) = ToSet(k.freeopn) \ {o} /\ o \in ToSet(k.freeopn)
    /\ o \notin ToSet(k.resq)
    /\ \A e \in DevCB : ToSet(n.dev[e].openq) =
         IF e = d THEN ToSet(k.dev[e].openq) \cup {o} ELSE ToSet(k.dev[e].openq)
Deleted(n, k, o, free) ==
    /\ OpnTables(n) /\ n.used = k.used
    /\ n.opn = [k.opn EXCEPT ![o] = UnusedOpn]
    /\ ToSet(n.freeopn) = IF free THEN ToSet(k.freeopn) \cup {o} ELSE ToSet(k.freeopn)
    /\ \A e \in DevCB : ToSet(n.dev[e].openq) = ToSet(k.dev[e].openq) \ {o}

LEMMA NewOpnTables ==
    ASSUME NEW k \in Tables, OpnTables(k), k.freeopn # <<>>, NEW o \in OpnCB, o = Head(k.freeopn),
           NEW d \in ToSet(k.used), NEW unit \in Units, NEW omode \in OpenModes
    PROVE  Opened(NewOpnCB(k, o, d, unit, omode), k, o, d, NewOpn(d, unit, omode))
<1> DEFINE x == NewOpn(d, unit, omode)
           n == NewOpnCB(k, o, d, unit, omode)
<1>1. /\ k.used \in Seq(DevCB) /\ k.freeopn \in Seq(OpnCB) /\ k.resq \in Seq(OpnCB)
      /\ k.dev \in [DevCB -> DevRec] /\ k.opn \in [OpnCB -> OpnRec]
  BY DEF Tables
<1>2. d \in DevCB
  BY <1>1, EntriesOf
<1>3. /\ SameRest(n, k) /\ SameReq(n, k)
      /\ n.opn = [k.opn EXCEPT ![o] = x]
      /\ n.dev = [k.dev EXCEPT ![d].openq = Append(@, o)]
      /\ n.freeopn = Tail(k.freeopn) /\ n.resq = Append(k.resq, o)
  <2>1. k \in Tables /\ o \in OpnCB /\ d \in DevCB /\ unit \in Units /\ omode \in OpenModes
    BY <1>2
  <2> QED BY ONLY <2>1, NewOpnFields
<1>4. x.devcb = d /\ x.resid = 0
  BY DEF NewOpn, UnusedOpn
<1> HIDE DEF x, n
<1>5. /\ o \in ToSet(k.freeopn) /\ IsInjective(n.freeopn)
      /\ ToSet(n.freeopn) = ToSet(k.freeopn) \ {o}
  BY <1>1, <1>3, TailSet DEF OpnTables
<1>6. k.opn[o].devcb = NoObj /\ o \notin ToSet(k.resq)
  BY <1>5 DEF OpnTables
<1>7. IsInjective(n.resq) /\ ToSet(n.resq) = ToSet(k.resq) \cup {o}
  BY <1>1, <1>3, <1>6, AppendOne DEF OpnTables
<1>8. \A e \in DevCB : o \notin ToSet(k.dev[e].openq)
  BY <1>6, Constants DEF OpnTables
<1>9. ASSUME NEW e \in DevCB
      PROVE  /\ IsInjective(n.dev[e].openq)
             /\ ToSet(n.dev[e].openq) =
                  IF e = d THEN ToSet(k.dev[e].openq) \cup {o} ELSE ToSet(k.dev[e].openq)
  <2>1. k.dev[e] \in DevRec /\ k.dev[e].openq \in Seq(OpnCB)
    BY <1>1 DEF DevRec
  <2>2. n.dev[e].openq = IF e = d THEN Append(k.dev[e].openq, o) ELSE k.dev[e].openq
    BY <1>1, <1>2, <1>3, <2>1 DEF DevRec
  <2> DEFINE q == k.dev[e].openq
  <2>3. q \in Seq(OpnCB) /\ IsInjective(q) /\ o \notin ToSet(q)
    BY <1>8, <2>1 DEF OpnTables
  <2>4. n.dev[e].openq = IF e = d THEN Append(q, o) ELSE q
    BY <2>2
  <2> HIDE DEF q
  <2>5. IsInjective(Append(q, o)) /\ ToSet(Append(q, o)) = ToSet(q) \cup {o}
    BY <2>3, AppendOne
  <2>6. /\ IsInjective(n.dev[e].openq)
        /\ ToSet(n.dev[e].openq) = IF e = d THEN ToSet(q) \cup {o} ELSE ToSet(q)
    BY <2>3, <2>4, <2>5
  <2> QED BY <2>6 DEF q
<1>10. /\ n.opn[o] = x /\ \A p \in OpnCB : p # o => n.opn[p] = k.opn[p]
  BY <1>1, <1>3
<1>11. n.used = k.used
  BY <1>3 DEF SameRest
<1>12. /\ ToSet(k.freeopn) \subseteq OpnCB /\ ToSet(k.resq) \subseteq OpnCB
       /\ \A e \in DevCB : ToSet(k.dev[e].openq) \subseteq OpnCB
  <2>1. \A e \in DevCB : k.dev[e].openq \in Seq(OpnCB)
    BY <1>1 DEF DevRec
  <2> QED BY <1>1, <2>1, EntriesOf
<1>13. \A e \in DevCB : \A p \in ToSet(n.dev[e].openq) : n.opn[p].devcb = e /\ e \in ToSet(n.used)
  <2> SUFFICES ASSUME NEW e \in DevCB, NEW p \in ToSet(n.dev[e].openq)
               PROVE  n.opn[p].devcb = e /\ e \in ToSet(n.used)
    OBVIOUS
  <2>1. p \in ToSet(k.dev[e].openq) \/ (e = d /\ p = o)
    BY <1>9
  <2>2. CASE p \in ToSet(k.dev[e].openq)
    <3>1. p # o /\ p \in OpnCB
      BY <1>8, <1>12, <2>2
    <3>2. k.opn[p].devcb = e /\ e \in ToSet(k.used)
      BY <2>2 DEF OpnTables
    <3> QED BY <1>10, <1>11, <3>1, <3>2
  <2>3. CASE e = d /\ p = o
    BY <1>4, <1>10, <1>11, <2>3
  <2> QED BY <2>1, <2>2, <2>3
<1>14. \A p \in OpnCB : p \in ToSet(n.resq) <=> n.opn[p].devcb # NoObj
  BY <1>2, <1>4, <1>7, <1>10, Constants DEF OpnTables
<1>15. \A p \in ToSet(n.resq) : p \in ToSet(n.dev[n.opn[p].devcb].openq)
  <2>1. ASSUME NEW p \in ToSet(k.resq)
        PROVE  k.opn[p].devcb \in DevCB /\ p \in ToSet(k.dev[k.opn[p].devcb].openq)
    <3>1. k.opn[p] \in OpnRec /\ k.opn[p].devcb # NoObj
      BY <1>1, <1>12 DEF OpnTables
    <3> QED BY <3>1 DEF OpnTables, OpnRec
  <2> QED BY <1>2, <1>4, <1>6, <1>7, <1>9, <1>10, <1>12, <2>1
<1>16. \A p \in ToSet(n.freeopn) : n.opn[p].devcb = NoObj
  BY <1>5, <1>10, <1>12 DEF OpnTables
<1>17. \A p \in OpnCB : n.opn[p].devcb = NoObj => n.opn[p].resid = 0
  BY <1>4, <1>10 DEF OpnTables
<1>18. OpnTables(n)
  BY <1>5, <1>7, <1>9, <1>13, <1>14, <1>15, <1>16, <1>17 DEF OpnTables
<1> QED BY <1>2, <1>3, <1>5, <1>6, <1>9, <1>11, <1>18 DEF x, n, Opened

LEMMA DelOpnTables ==
    ASSUME NEW k \in Tables, OpnTables(k), NEW o \in OpnCB, k.opn[o].devcb # NoObj,
           NEW free \in BOOLEAN
    PROVE  Deleted(DelOpnCB(k, o, free), k, o, free)
<1> DEFINE d == k.opn[o].devcb
           n == DelOpnCB(k, o, free)
<1>1. /\ k.freeopn \in Seq(OpnCB) /\ k.resq \in Seq(OpnCB)
      /\ k.dev \in [DevCB -> DevRec] /\ k.opn \in [OpnCB -> OpnRec]
  BY DEF Tables
<1>2. /\ SameRest(n, k) /\ SameReq(n, k)
      /\ n.dev = [k.dev EXCEPT ![d].openq = QueRemove(@, o)]
      /\ n.opn = [k.opn EXCEPT ![o] = UnusedOpn]
      /\ n.resq = QueRemove(k.resq, o)
      /\ n.freeopn = IF free THEN Append(k.freeopn, o) ELSE k.freeopn
  BY DelOpnFields
<1>3. d \in DevCB
  <2>1. k.opn[o] \in OpnRec
    BY <1>1
  <2> QED BY <2>1 DEF OpnRec
<1>4. o \notin ToSet(k.freeopn) /\ \A e \in DevCB : e # d => o \notin ToSet(k.dev[e].openq)
  BY DEF OpnTables
<1> HIDE DEF n
<1>5. /\ IsInjective(n.freeopn)
      /\ ToSet(n.freeopn) = IF free THEN ToSet(k.freeopn) \cup {o} ELSE ToSet(k.freeopn)
  <2>1. IsInjective(k.freeopn)
    BY DEF OpnTables
  <2>2. IsInjective(Append(k.freeopn, o)) /\ ToSet(Append(k.freeopn, o)) = ToSet(k.freeopn) \cup {o}
    BY <1>1, <1>4, <2>1, AppendOne
  <2> QED BY <1>2, <2>1, <2>2
<1>6. IsInjective(n.resq) /\ ToSet(n.resq) = ToSet(k.resq) \ {o}
  BY <1>1, <1>2, QueRemoveEntry DEF OpnTables
<1> HIDE DEF d
<1>7. ASSUME NEW e \in DevCB
      PROVE  IsInjective(n.dev[e].openq) /\ ToSet(n.dev[e].openq) = ToSet(k.dev[e].openq) \ {o}
  <2>1. k.dev[e] \in DevRec /\ k.dev[e].openq \in Seq(OpnCB)
    BY <1>1 DEF DevRec
  <2>2. n.dev[e].openq = IF e = d THEN QueRemove(k.dev[e].openq, o) ELSE k.dev[e].openq
    BY <1>1, <1>2, <1>3, <2>1 DEF DevRec
  <2>3. IsInjective(k.dev[e].openq)
    BY DEF OpnTables
  <2> QED BY <1>4, <2>1, <2>2, <2>3, QueRemoveEntry
<1>8. /\ n.opn[o] = UnusedOpn /\ \A p \in OpnCB : p # o => n.opn[p] = k.opn[p]
      /\ UnusedOpn.devcb = NoObj /\ UnusedOpn.resid = 0
  BY <1>1, <1>2 DEF UnusedOpn
<1>9. n.used = k.used
  BY <1>2 DEF SameRest
<1>10. /\ ToSet(k.freeopn) \subseteq OpnCB /\ ToSet(k.resq) \subseteq OpnCB
       /\ \A e \in DevCB : ToSet(k.dev[e].openq) \subseteq OpnCB
  <2>1. \A e \in DevCB : k.dev[e].openq \in Seq(OpnCB)
    BY <1>1 DEF DevRec
  <2> QED BY <1>1, <2>1, EntriesOf
<1>11. \A e \in DevCB : \A p \in ToSet(n.dev[e].openq) : n.opn[p].devcb = e /\ e \in ToSet(n.used)
  BY <1>7, <1>8, <1>9, <1>10 DEF OpnTables
<1>12. \A p \in OpnCB : p \in ToSet(n.resq) <=> n.opn[p].devcb # NoObj
  BY <1>6, <1>8 DEF OpnTables
<1>13. \A p \in ToSet(n.resq) : p \in ToSet(n.dev[n.opn[p].devcb].openq)
  <2>1. ASSUME NEW p \in ToSet(k.resq)
        PROVE  k.opn[p].devcb \in DevCB /\ p \in ToSet(k.dev[k.opn[p].devcb].openq)
    <3>1. k.opn[p] \in OpnRec /\ k.opn[p].devcb # NoObj
      BY <1>1, <1>10 DEF OpnTables
    <3> QED BY <3>1 DEF OpnTables, OpnRec
  <2> QED BY <1>6, <1>7, <1>8, <1>10, <2>1
<1>14. \A p \in ToSet(n.freeopn) : n.opn[p].devcb = NoObj
  BY <1>5, <1>8, <1>10 DEF OpnTables
<1>15. \A p \in OpnCB : n.opn[p].devcb = NoObj => n.opn[p].resid = 0
  BY <1>8 DEF OpnTables
<1>16. OpnTables(n)
  BY <1>5, <1>6, <1>7, <1>11, <1>12, <1>13, <1>14, <1>15 DEF OpnTables
<1> QED BY <1>2, <1>5, <1>7, <1>9, <1>16 DEF n, Deleted

\* The queues and the opens are the same; a request or a wait may change the
\* rest of an open control block.
SameOpn(x, y) == x.devcb = y.devcb /\ x.resid = y.resid /\ x.unitno = y.unitno /\ x.omode = y.omode
SameOpens(n, k) ==
    /\ n.freeopn = k.freeopn /\ n.resq = k.resq /\ n.dev = k.dev /\ n.used = k.used
    /\ \A o \in OpnCB : SameOpn(n.opn[o], k.opn[o])

LEMMA SameOpensTables ==
    ASSUME NEW k \in Tables, NEW n, SameOpens(n, k)
    PROVE  /\ OpnTables(k) => OpnTables(n)
           /\ Modes(k) => Modes(n)
<1>1. /\ k.freeopn \in Seq(OpnCB) /\ k.resq \in Seq(OpnCB) /\ k.dev \in [DevCB -> DevRec]
      /\ \A e \in DevCB : k.dev[e].openq \in Seq(OpnCB)
  BY DEF Tables, DevRec
<1>2. /\ ToSet(k.freeopn) \subseteq OpnCB /\ ToSet(k.resq) \subseteq OpnCB
      /\ \A e \in DevCB : ToSet(k.dev[e].openq) \subseteq OpnCB
  BY <1>1, EntriesOf
<1>3. OpnTables(k) => OpnTables(n)
  BY <1>2 DEF SameOpens, SameOpn, OpnTables
<1>4. Modes(k) => Modes(n)
  BY <1>2 DEF SameOpens, SameOpn, Modes
<1> QED BY <1>3, <1>4

\* ChkOpenMode keeps the new open apart from those it overlaps.
LEMMA NewOpnModes ==
    ASSUME dm \in Tables, OpnTables(dm), Modes(dm),
           NEW o \in OpnCB, NEW d \in DevCB, NEW unit \in Units, NEW omode \in OpenModes,
           ChkOpenMode(d, unit, omode), NEW n \in Tables, Opened(n, dm, o, d, NewOpn(d, unit, omode))
    PROVE  Modes(n)
<1> DEFINE x == NewOpn(d, unit, omode)
<1>1. /\ d \in DevCB /\ n.opn = [dm.opn EXCEPT ![o] = x]
      /\ o \in ToSet(dm.freeopn)
      /\ \A e \in DevCB : ToSet(n.dev[e].openq) =
           IF e = d THEN ToSet(dm.dev[e].openq) \cup {o} ELSE ToSet(dm.dev[e].openq)
  BY DEF Opened
<1>2. x.unitno = unit /\ x.omode = omode
  BY DEF NewOpn, UnusedOpn
<1> HIDE DEF x
<1>3. /\ dm.opn \in [OpnCB -> OpnRec] /\ \A e \in DevCB : ToSet(dm.dev[e].openq) \subseteq OpnCB
  <2>1. \A e \in DevCB : dm.dev[e].openq \in Seq(OpnCB)
    BY DEF Tables, DevRec
  <2> QED BY <2>1, EntriesOf DEF Tables
<1>4. \A e \in DevCB : o \notin ToSet(dm.dev[e].openq)
  BY <1>1, Constants DEF OpnTables
<1>5. n.opn[o] = x /\ \A p \in OpnCB : p # o => n.opn[p] = dm.opn[p]
  BY <1>1, <1>3
<1>6. ASSUME NEW p \in ToSet(dm.dev[d].openq), Overlaps(unit, dm.opn[p].unitno)
      PROVE  Apart(omode, dm.opn[p].omode) /\ Apart(dm.opn[p].omode, omode)
  <2> DEFINE overlapping == {y \in ToSet(dm.dev[d].openq) : Overlaps(unit, dm.opn[y].unitno)}
             others == {dm.opn[y].omode : y \in overlapping}
  <2>1. dm.opn[p].omode \in others
    BY <1>6
  <2>2. \A m \in others :
          /\ ~(omode \cap {"EXCL", "REXCL"} # {} /\ "READ" \in m)
          /\ ~(omode \cap {"EXCL", "WEXCL"} # {} /\ "WRITE" \in m)
          /\ ~("READ" \in omode /\ m \cap {"EXCL", "REXCL"} # {})
          /\ ~("WRITE" \in omode /\ m \cap {"EXCL", "WEXCL"} # {})
    BY Zenon DEF ChkOpenMode
  <2> HIDE DEF others
  <2> QED BY <2>1, <2>2 DEF Apart
<1> SUFFICES ASSUME NEW e \in DevCB, NEW p \in ToSet(n.dev[e].openq), NEW q \in ToSet(n.dev[e].openq),
                    p # q, Overlaps(n.opn[p].unitno, n.opn[q].unitno)
             PROVE  Apart(n.opn[p].omode, n.opn[q].omode)
  BY DEF Modes
<1>0. ASSUME NEW y \in ToSet(n.dev[e].openq)
      PROVE  \/ y # o /\ y \in ToSet(dm.dev[e].openq) /\ n.opn[y] = dm.opn[y]
             \/ y = o /\ e = d /\ n.opn[y] = x
  <2>1. ToSet(n.dev[e].openq) =
          IF e = d THEN ToSet(dm.dev[e].openq) \cup {o} ELSE ToSet(dm.dev[e].openq)
    BY <1>1
  <2>2. y \in ToSet(dm.dev[e].openq) => y # o /\ y \in OpnCB
    BY <1>3, <1>4
  <2> QED BY <2>1, <2>2, <1>5
<1>7. CASE p # o /\ q # o
  <2>1. /\ p \in ToSet(dm.dev[e].openq) /\ q \in ToSet(dm.dev[e].openq)
        /\ n.opn[p] = dm.opn[p] /\ n.opn[q] = dm.opn[q]
    BY <1>0, <1>7
  <2> QED BY <2>1 DEF Modes
<1>8. CASE p = o
  <2>1. e = d /\ q \in ToSet(dm.dev[d].openq) /\ n.opn[p] = x /\ n.opn[q] = dm.opn[q]
    BY <1>0, <1>8
  <2>2. Overlaps(unit, dm.opn[q].unitno)
    BY <1>2, <2>1
  <2> QED BY <1>2, <1>6, <2>1, <2>2
<1>9. CASE q = o
  <2>1. e = d /\ p \in ToSet(dm.dev[d].openq) /\ n.opn[q] = x /\ n.opn[p] = dm.opn[p]
    BY <1>0, <1>9
  <2>2. Overlaps(unit, dm.opn[p].unitno)
    BY <1>2, <2>1 DEF Overlaps
  <2> QED BY <1>2, <1>6, <2>1, <2>2
<1> QED BY <1>7, <1>8, <1>9

LEMMA DelOpnModes ==
    ASSUME NEW k \in Tables, OpnTables(k), Modes(k), NEW o \in OpnCB, k.opn[o].devcb # NoObj,
           NEW free \in BOOLEAN
    PROVE  Modes(DelOpnCB(k, o, free))
<1> DEFINE n == DelOpnCB(k, o, free)
<1>1. /\ n.opn = [k.opn EXCEPT ![o] = UnusedOpn]
      /\ \A e \in DevCB : ToSet(n.dev[e].openq) = ToSet(k.dev[e].openq) \ {o}
  <2>1. Deleted(n, k, o, free)
    BY DelOpnTables
  <2> QED BY <2>1 DEF Deleted
<1> HIDE DEF n
<1>2. /\ k.opn \in [OpnCB -> OpnRec] /\ \A e \in DevCB : ToSet(k.dev[e].openq) \subseteq OpnCB
  <2>1. \A e \in DevCB : k.dev[e].openq \in Seq(OpnCB)
    BY DEF Tables, DevRec
  <2> QED BY <2>1, EntriesOf DEF Tables
<1>3. \A p \in OpnCB : p # o => n.opn[p] = k.opn[p]
  BY <1>1, <1>2
<1>4. \A e \in DevCB : \A p \in ToSet(n.dev[e].openq) :
        p \in ToSet(k.dev[e].openq) /\ n.opn[p] = k.opn[p]
  BY <1>1, <1>2, <1>3
<1>5. Modes(n)
  BY <1>4 DEF Modes
<1> QED BY <1>5 DEF n

\* An open or close marks its open control block.
Marked(n, k, o, v) ==
    /\ OpnTables(n) /\ Modes(n) /\ n.freeopn = k.freeopn /\ n.dev = k.dev /\ n.resq = k.resq
    /\ \A p \in OpnCB : n.opn[p].devcb = k.opn[p].devcb
    /\ n.opn[o].resid = v /\ \A p \in OpnCB : p # o => n.opn[p] = k.opn[p]

LEMMA MarkTables ==
    ASSUME NEW k \in Tables, OpnTables(k), Modes(k), NEW o \in OpnCB, NEW v \in {0, 1},
           NEW n \in Tables, OpnUpdate(n, k, o, [k.opn[o] EXCEPT !.resid = v]),
           v = 0 \/ k.opn[o].devcb # NoObj
    PROVE  Marked(n, k, o, v)
<1> DEFINE x == [k.opn[o] EXCEPT !.resid = v]
<1>1. k.opn \in [OpnCB -> OpnRec] /\ k.opn[o] \in OpnRec
  BY DEF Tables
<1>2. /\ x.resid = v /\ x.devcb = k.opn[o].devcb
      /\ x.unitno = k.opn[o].unitno /\ x.omode = k.opn[o].omode
  BY <1>1 DEF OpnRec
<1>3. /\ SameRest(n, k) /\ n.dev = k.dev /\ n.freeopn = k.freeopn /\ n.resq = k.resq
      /\ n.opn = [k.opn EXCEPT ![o] = x]
  BY DEF OpnUpdate
<1> HIDE DEF x
<1>4. n.opn[o] = x /\ (\A p \in OpnCB : p # o => n.opn[p] = k.opn[p]) /\ n.used = k.used
  BY <1>1, <1>3 DEF SameRest
<1>5. \A p \in OpnCB : /\ n.opn[p].devcb = k.opn[p].devcb
                       /\ n.opn[p].unitno = k.opn[p].unitno /\ n.opn[p].omode = k.opn[p].omode
  BY <1>2, <1>4
<1>6. /\ ToSet(k.freeopn) \subseteq OpnCB /\ ToSet(k.resq) \subseteq OpnCB
      /\ \A e \in DevCB : ToSet(k.dev[e].openq) \subseteq OpnCB
  <2>1. /\ k.freeopn \in Seq(OpnCB) /\ k.resq \in Seq(OpnCB)
        /\ \A e \in DevCB : k.dev[e].openq \in Seq(OpnCB)
    BY DEF Tables, DevRec
  <2> QED BY <2>1, EntriesOf
<1>7. \A p \in OpnCB : n.opn[p].devcb = NoObj => n.opn[p].resid = 0
  BY <1>2, <1>4 DEF OpnTables
<1>8. OpnTables(n)
  BY <1>3, <1>4, <1>5, <1>6, <1>7 DEF OpnTables
<1>9. Modes(n)
  BY <1>3, <1>5, <1>6 DEF Modes
<1> QED BY <1>2, <1>3, <1>4, <1>5, <1>8, <1>9 DEF Marked

\* Nothing that the holders of open control blocks rely on changes.
LEMMA SameHolders ==
    ASSUME Holders, dm'.freeopn = dm.freeopn,
           \A o \in OpnCB : dm'.opn[o].devcb = dm.opn[o].devcb /\ dm'.opn[o].resid = dm.opn[o].resid,
           \A t \in Tsk : Holds(t)' <=> Holds(t),
           \A t \in Tsk : Holds(t) =>
               loc[t].o \in OpnCB /\ loc'[t].o = loc[t].o /\ (pc'[t] = "closefn" <=> pc[t] = "closefn")
    PROVE  Holders'
<1>1. \A t \in Tsk : pc[t] = "closefn" => pc'[t] = "closefn" /\ loc'[t].o = loc[t].o
  BY DEF Holds, Holding
<1> QED BY <1>1 DEF Holders

\* One task goes on with one open control block.
LEMMA OneBlock ==
    ASSUME Typed, Holders, NEW t \in Tsk, NEW o \in OpnCB,
           \A u \in Tsk \ {t} : pc'[u] = pc[u] /\ loc'[u] = loc[u],
           \A p \in OpnCB : p # o =>
               /\ dm'.opn[p].devcb = dm.opn[p].devcb /\ dm'.opn[p].resid = dm.opn[p].resid
               /\ p \in ToSet(dm'.freeopn) <=> p \in ToSet(dm.freeopn),
           Holds(t) => loc[t].o = o,
           ~Holds(t) => \A u \in Tsk : Holds(u) => loc[u].o # o,
           Holds(t)' => /\ loc'[t].o = o /\ dm'.opn[o].resid = 0 /\ o \notin ToSet(dm'.freeopn)
                        /\ pc'[t] = "closefn" <=> dm'.opn[o].devcb = NoObj,
           ~Holds(t)' /\ dm'.opn[o].devcb = NoObj => o \in ToSet(dm'.freeopn)
    PROVE  Holders'
<1>1. \A u \in Tsk : pc[u] = "closefn" => Holds(u)
  BY DEF Holds, Holding
<1>2. \A u \in Tsk \ {t} : Holds(u)' <=> Holds(u)
  BY DEF Holds
<1>3. \A u \in Tsk \ {t} : Holds(u) => loc[u].o # o /\ loc[u].o \in OpnCB
  BY DEF Holders, Typed, Controlled, Holds
<1>4. ASSUME NEW p \in OpnCB, dm'.opn[p].devcb = NoObj
      PROVE  p \in ToSet(dm'.freeopn) \/ \E u \in Tsk : pc'[u] = "closefn" /\ loc'[u].o = p
  <2>1. CASE p = o
    BY <2>1, <1>4
  <2>2. CASE p # o
    <3>1. dm.opn[p].devcb = NoObj
      BY <2>2, <1>4
    <3>2. CASE p \in ToSet(dm.freeopn)
      BY <2>2, <3>2
    <3>3. CASE \E u \in Tsk : pc[u] = "closefn" /\ loc[u].o = p
      <4>1. PICK u \in Tsk : pc[u] = "closefn" /\ loc[u].o = p
        BY <3>3
      <4>2. u # t
        BY <4>1, <2>2, <1>1
      <4> QED BY <4>1, <4>2
    <3> QED BY <3>1, <3>2, <3>3 DEF Holders
  <2> QED BY <2>1, <2>2
<1>5. ASSUME NEW u \in Tsk, Holds(u)'
      PROVE  /\ dm'.opn[loc'[u].o].resid = 0 /\ loc'[u].o \notin ToSet(dm'.freeopn)
             /\ pc'[u] = "closefn" <=> dm'.opn[loc'[u].o].devcb = NoObj
  <2>1. CASE u = t
    BY <1>5, <2>1
  <2>2. CASE u # t
    <3>1. /\ Holds(u) /\ loc'[u] = loc[u] /\ pc'[u] = pc[u]
          /\ loc[u].o # o /\ loc[u].o \in OpnCB
      BY <1>2, <1>3, <1>5, <2>2
    <3>2. /\ dm.opn[loc[u].o].resid = 0 /\ loc[u].o \notin ToSet(dm.freeopn)
          /\ pc[u] = "closefn" <=> dm.opn[loc[u].o].devcb = NoObj
      BY <3>1 DEF Holders
    <3> QED BY <3>1, <3>2
  <2> QED BY <2>1, <2>2
<1>6. \A u, v \in Tsk : Holds(u)' /\ Holds(v)' /\ u # v => loc'[u].o # loc'[v].o
  <2>1. \A u \in Tsk \ {t} : Holds(u)' => loc'[u].o = loc[u].o /\ loc[u].o # o
    BY <1>2, <1>3
  <2>2. Holds(t)' => loc'[t].o = o
    OBVIOUS
  <2>3. \A u, v \in Tsk \ {t} : Holds(u)' /\ Holds(v)' /\ u # v => loc'[u].o # loc'[v].o
    BY <1>2 DEF Holders
  <2> QED BY <2>1, <2>2, <2>3
<1> QED BY <1>4, <1>5, <1>6 DEF Holders

\* The opens are as they should be after the step.
Exact(n) == OpnTables(n) /\ Modes(n)

LEMMA OpenExact ==
    ASSUME Typed, OpnInv, Modes(dm), NEW t \in Tsk, NEW nm \in Name, NEW unit \in Units,
           NEW omode \in OpenModes, OpnDev(t, nm, unit, omode)
    PROVE  Exact(dm') /\ Holders'
<1>1. PICK d \in ToSet(dm.used), o \in OpnCB :
        /\ ChkOpenMode(d, unit, omode)
        /\ dm.freeopn # <<>> /\ o = Head(dm.freeopn)
        /\ \/ /\ dm' = NewOpnCB(dm, o, d, unit, omode)
              /\ \E fn \in BOOLEAN : Goto(t, "open", [Idle EXCEPT !.o = o, !.fn = fn])
           \/ /\ dm' = DelOpnCB(NewOpnCB(dm, o, d, unit, omode), o, TRUE)
              /\ UNCHANGED <<pc, loc>>
  BY OpnDevTyped
<1> DEFINE x == NewOpn(d, unit, omode)
           n == NewOpnCB(dm, o, d, unit, omode)
           m == DelOpnCB(n, o, TRUE)
<1>2. dm \in Tables /\ OpnTables(dm) /\ Holders /\ pc \in [Tsk -> Place] /\ loc \in [Tsk -> Local]
  BY DEF Typed, Controlled, OpnInv
<1>3. d \in DevCB
  BY <1>2, EntriesOf DEF Tables
<1>4. Opened(n, dm, o, d, x) /\ n \in Tables
  BY <1>1, <1>2, <1>3, NewOpnTables, NewOpnTyped
<1>5. x.devcb = d /\ x.resid = 0
  BY DEF NewOpn, UnusedOpn
<1>6. dm' = n \/ dm' = m
  BY <1>1
<1>9. Modes(n) /\ OpnTables(n)
  <2>1. OpnTables(n)
    BY <1>4 DEF Opened
  <2> HIDE DEF n
  <2>2. Opened(n, dm, o, d, NewOpn(d, unit, omode)) /\ n \in Tables
    BY <1>4
  <2> HIDE DEF x
  <2>3. Modes(n)
    BY <1>1, <1>2, <1>3, <2>2, NewOpnModes
  <2> QED BY <2>1, <2>3
<1>7. CASE dm' = n /\ \E fn \in BOOLEAN : Goto(t, "open", [Idle EXCEPT !.o = o, !.fn = fn])
  <2>1. PICK fn \in BOOLEAN : Goto(t, "open", [Idle EXCEPT !.o = o, !.fn = fn])
    BY <1>7
  <2> DEFINE l == [Idle EXCEPT !.o = o, !.fn = fn]
  <2>2. l.o = o
    BY Constants DEF Local
  <2>3. pc' = [pc EXCEPT ![t] = "open"] /\ loc' = [loc EXCEPT ![t] = l]
    BY <2>1 DEF Goto
  <2> HIDE DEF x, n, m, l
  <2>4. Modes(n) /\ OpnTables(n)
    BY <1>9
  <2>5. /\ n.opn[o] = x /\ \A p \in OpnCB : p # o => n.opn[p] = dm.opn[p]
    BY <1>2, <1>4 DEF Opened, Tables
  <2>6. /\ ToSet(n.freeopn) = ToSet(dm.freeopn) \ {o} /\ o \in ToSet(dm.freeopn)
    BY <1>4 DEF Opened
  <2>7. \A u \in Tsk : Holds(u) => loc[u].o # o
    BY <1>2, <2>6 DEF Holders
  <2>8. ~Holds(t) /\ pc'[t] = "open" /\ loc'[t] = l
        /\ \A u \in Tsk \ {t} : pc'[u] = pc[u] /\ loc'[u] = loc[u]
    BY <1>2, <2>3 DEF Holds, OpnDev, Holding, Aborting
  <2>9. x.devcb # NoObj
    BY <1>3, <1>5, Constants
  <2>10. \A p \in OpnCB : p # o =>
           /\ dm'.opn[p].devcb = dm.opn[p].devcb /\ dm'.opn[p].resid = dm.opn[p].resid
           /\ p \in ToSet(dm'.freeopn) <=> p \in ToSet(dm.freeopn)
    BY <1>7, <2>5, <2>6
  <2>11. Holders'
    <3>1. /\ loc'[t].o = o /\ dm'.opn[o].resid = 0 /\ o \notin ToSet(dm'.freeopn)
          /\ pc'[t] = "closefn" <=> dm'.opn[o].devcb = NoObj
      BY <1>5, <1>7, <2>2, <2>5, <2>6, <2>8, <2>9
    <3>2. Holds(t)'
      BY <2>8 DEF Holds, Holding
    <3> QED BY <1>2, <2>7, <2>8, <2>10, <3>1, <3>2, OneBlock
  <2> QED BY <1>7, <2>4, <2>11 DEF Exact
<1>8. CASE dm' = m /\ UNCHANGED <<pc, loc>>
  <2> HIDE DEF x, n
  <2>1. Modes(n) /\ OpnTables(n)
    BY <1>9
  <2>2. /\ n.opn[o] = x /\ \A p \in OpnCB : p # o => n.opn[p] = dm.opn[p]
    BY <1>2, <1>4 DEF Opened, Tables
  <2>3. x.devcb # NoObj
    BY <1>3, <1>5, Constants
  <2>4. Deleted(m, n, o, TRUE) /\ Modes(m)
    BY <1>4, <2>1, <2>2, <2>3, DelOpnTables, DelOpnModes
  <2> HIDE DEF m
  <2>5. /\ m.opn[o] = UnusedOpn /\ \A p \in OpnCB : p # o => m.opn[p] = n.opn[p]
    BY <1>4, <2>4 DEF Deleted, Tables
  <2>6. ToSet(m.freeopn) = ToSet(dm.freeopn) /\ o \in ToSet(dm.freeopn)
    BY <1>4, <2>4 DEF Opened, Deleted
  <2>7. \A u \in Tsk : Holds(u) => loc[u].o # o
    BY <1>2, <2>6 DEF Holders
  <2>8. ~Holds(t) /\ (\A u \in Tsk \ {t} : pc'[u] = pc[u] /\ loc'[u] = loc[u]) /\ ~Holds(t)'
    BY <1>8 DEF Holds, OpnDev, Holding, Aborting
  <2>9. \A p \in OpnCB : p # o =>
          /\ dm'.opn[p].devcb = dm.opn[p].devcb /\ dm'.opn[p].resid = dm.opn[p].resid
          /\ p \in ToSet(dm'.freeopn) <=> p \in ToSet(dm.freeopn)
    BY <1>8, <2>2, <2>5, <2>6
  <2>10. o \in ToSet(dm'.freeopn)
    BY <1>8, <2>6
  <2>11. Holders'
    BY <1>2, <2>7, <2>8, <2>9, <2>10, OneBlock
  <2>12. OpnTables(m)
    BY <2>4 DEF Deleted
  <2> QED BY <1>8, <2>4, <2>11, <2>12 DEF Exact
<1> QED BY <1>1, <1>7, <1>8

\* Deleting the open control block that task t holds.
LEMMA DeleteExact ==
    ASSUME Typed, OpnInv, Modes(dm), NEW t \in Tsk, Holds(t), NEW free \in BOOLEAN,
           dm' = DelOpnCB(dm, loc[t].o, free), pc[t] # "closefn", NEW at, NEW l, Goto(t, at, l),
           \/ free /\ at \notin Holding
           \/ ~free /\ at = "closefn" /\ l.o = loc[t].o
    PROVE  Exact(dm') /\ Holders'
<1> DEFINE o == loc[t].o
<1>1. /\ dm \in Tables /\ OpnTables(dm) /\ Holders /\ o \in OpnCB
      /\ pc \in [Tsk -> Place] /\ loc \in [Tsk -> Local]
  BY DEF Typed, Controlled, OpnInv, Holds
<1>2. dm.opn[o].devcb # NoObj /\ dm.opn[o].resid = 0 /\ o \notin ToSet(dm.freeopn)
  BY <1>1 DEF Holders
<1> HIDE DEF o
<1>3. Deleted(dm', dm, o, free) /\ Modes(dm')
  BY <1>1, <1>2, DelOpnTables, DelOpnModes DEF o
<1>4. /\ dm'.opn[o] = UnusedOpn /\ (\A p \in OpnCB : p # o => dm'.opn[p] = dm.opn[p])
      /\ ToSet(dm'.freeopn) = IF free THEN ToSet(dm.freeopn) \cup {o} ELSE ToSet(dm.freeopn)
  BY <1>1, <1>3 DEF Deleted, Tables
<1>5. UnusedOpn.resid = 0 /\ UnusedOpn.devcb = NoObj
  BY DEF UnusedOpn
<1>6. pc' = [pc EXCEPT ![t] = at] /\ loc' = [loc EXCEPT ![t] = l]
  BY DEF Goto
<1>7. /\ pc'[t] = at /\ loc'[t] = l /\ \A u \in Tsk \ {t} : pc'[u] = pc[u] /\ loc'[u] = loc[u]
  BY <1>1, <1>6
<1>8. Holds(t)' => ~free /\ at = "closefn" /\ l.o = o
  BY <1>7 DEF Holds, o
<1>9. ~Holds(t)' => free
  BY <1>7 DEF Holds, Holding
<1>10. \A p \in OpnCB : p # o =>
         /\ dm'.opn[p].devcb = dm.opn[p].devcb /\ dm'.opn[p].resid = dm.opn[p].resid
         /\ p \in ToSet(dm'.freeopn) <=> p \in ToSet(dm.freeopn)
  BY <1>4
<1>11. Holders'
  <2>1. Holds(t)' => /\ loc'[t].o = o /\ dm'.opn[o].resid = 0 /\ o \notin ToSet(dm'.freeopn)
                     /\ pc'[t] = "closefn" <=> dm'.opn[o].devcb = NoObj
    BY <1>2, <1>4, <1>5, <1>7, <1>8
  <2>2. ~Holds(t)' => o \in ToSet(dm'.freeopn)
    BY <1>4, <1>9
  <2>3. Holds(t) => loc[t].o = o
    BY DEF o
  <2> QED BY <1>1, <1>7, <1>10, <2>1, <2>2, <2>3, OneBlock
<1> QED BY <1>3, <1>11 DEF Exact, Deleted

LEMMA OpenEndExact ==
    ASSUME Typed, OpnInv, Modes(dm), NEW t \in Tsk, NEW ok \in BOOLEAN, OpnDevEnd(t, ok)
    PROVE  Exact(dm') /\ Holders'
<1> DEFINE o == loc[t].o
           x == [dm.opn[o] EXCEPT !.resid = 1]
<1>1. /\ pc[t] = "open" /\ Goto(t, "out", Idle) /\ "out" \notin Holding
  BY DEF OpnDevEnd, Return, Holding, Aborting
<1>2. /\ o \in OpnCB
      /\ \/ ok /\ OpnUpdate(dm', dm, o, x)
         \/ ~ok /\ dm' = DelOpnCB(dm, o, TRUE)
  BY EndOpenTyped
<1>3. Holds(t) /\ dm \in Tables /\ OpnTables(dm) /\ Holders /\ loc[t].o = o
  BY <1>1 DEF Holds, Holding, Typed, OpnInv
<1> HIDE DEF o
<1>4. CASE ok /\ OpnUpdate(dm', dm, o, x)
  <2>1. dm.opn[o].devcb # NoObj
    BY <1>1, <1>3 DEF Holders
  <2>2. /\ OpnTables(dm') /\ Modes(dm') /\ dm'.freeopn = dm.freeopn
        /\ (\A p \in OpnCB : dm'.opn[p].devcb = dm.opn[p].devcb)
        /\ \A p \in OpnCB : p # o => dm'.opn[p] = dm.opn[p]
    <3>1. dm' \in Tables
      BY EndOpenTyped DEF Typed
    <3>2. Marked(dm', dm, o, 1)
      BY <1>2, <1>3, <1>4, <2>1, <3>1, MarkTables
    <3> QED BY <3>2 DEF Marked
  <2>3. ~Holds(t)' /\ \A u \in Tsk \ {t} : pc'[u] = pc[u] /\ loc'[u] = loc[u]
    BY <1>1 DEF Holds, Goto, Typed, Controlled
  <2>4. Holders'
    BY <1>2, <1>3, <2>1, <2>2, <2>3, OneBlock
  <2> QED BY <2>2, <2>4 DEF Exact
<1>5. CASE ~ok /\ dm' = DelOpnCB(dm, o, TRUE)
  <2>1. dm' = DelOpnCB(dm, loc[t].o, TRUE)
    BY <1>3, <1>5
  <2> QED BY <1>1, <1>3, <2>1, DeleteExact
<1> QED BY <1>2, <1>4, <1>5

LEMMA CloseDeviceExact ==
    ASSUME Typed, OpnInv, Modes(dm), NEW t \in Tsk, CloseDevice(t)
    PROVE  Exact(dm') /\ Holders'
<1>1. PICK fn \in BOOLEAN : Goto(t, "closefn", [loc[t] EXCEPT !.fn = fn])
  BY CloseDeviceTyped
<1>2. pc[t] = "close" /\ dm' = DelOpnCB(dm, loc[t].o, FALSE) /\ Holds(t)
  BY DEF CloseDevice, Holds, Holding
<1> DEFINE l == [loc[t] EXCEPT !.fn = fn]
<1>3. l.o = loc[t].o
  BY DEF Typed, Controlled, Local
<1> HIDE DEF l
<1>4. Goto(t, "closefn", l)
  BY <1>1 DEF l
<1> QED BY <1>2, <1>3, <1>4, DeleteExact

LEMMA BeginCloseExact ==
    ASSUME Typed, OpnInv, Modes(dm), NEW t \in Tsk, NEW o \in OpnCB, ClsDev(t, o)
    PROVE  Exact(dm') /\ Holders'
<1> DEFINE x == [dm.opn[o] EXCEPT !.resid = 0]
           l == [Idle EXCEPT !.o = o]
<1>1. OpnUpdate(dm', dm, o, x)
  BY ClsDevTyped
<1>2. pc[t] = "out" /\ dm.opn[o].resid = 1 /\ Goto(t, "abort", l)
  BY DEF ClsDev
<1>3. l.o = o
  BY Constants DEF Local
<1>4. dm \in Tables /\ OpnTables(dm) /\ Holders
  BY DEF Typed, OpnInv
<1> HIDE DEF l
<1>5. dm.opn[o].devcb # NoObj
  BY <1>2, <1>4 DEF OpnTables
<1>6. /\ OpnTables(dm') /\ Modes(dm') /\ dm'.freeopn = dm.freeopn
      /\ (\A p \in OpnCB : dm'.opn[p].devcb = dm.opn[p].devcb)
      /\ dm'.opn[o].resid = 0 /\ \A p \in OpnCB : p # o => dm'.opn[p] = dm.opn[p]
  <2>1. dm' \in Tables
    BY ClsDevTyped DEF Typed
  <2>2. Marked(dm', dm, o, 0)
    BY <1>1, <1>4, <2>1, MarkTables
  <2> QED BY <2>2 DEF Marked
<1>7. /\ ~Holds(t) /\ Holds(t)' /\ pc'[t] = "abort" /\ loc'[t] = l
      /\ \A u \in Tsk \ {t} : pc'[u] = pc[u] /\ loc'[u] = loc[u]
  BY <1>2 DEF Holds, Holding, Aborting, Goto, Typed, Controlled
<1>8. \A u \in Tsk : Holds(u) => loc[u].o # o
  BY <1>2, <1>4 DEF Holders
<1>9. o \notin ToSet(dm'.freeopn)
  BY <1>4, <1>5, <1>6 DEF OpnTables
<1>10. Holders'
  <2>1. /\ loc'[t].o = o /\ (pc'[t] = "closefn" <=> dm'.opn[o].devcb = NoObj)
    BY <1>3, <1>5, <1>6, <1>7
  <2> QED BY <1>4, <1>6, <1>7, <1>8, <1>9, <2>1, OneBlock
<1> QED BY <1>6, <1>10 DEF Exact

\* Steps that leave the opens and their holders alone.
LEMMA KeepsExact ==
    ASSUME Typed, OpnInv, Modes(dm), SameOpens(dm', dm),
           \A t \in Tsk : Holds(t)' <=> Holds(t),
           \A t \in Tsk : Holds(t) =>
               loc'[t].o = loc[t].o /\ (pc'[t] = "closefn" <=> pc[t] = "closefn")
    PROVE  Exact(dm') /\ Holders'
<1>1. dm \in Tables /\ OpnTables(dm) /\ Holders
  BY DEF Typed, OpnInv
<1>2. Exact(dm')
  BY <1>1, SameOpensTables DEF Exact
<1>3. \A t \in Tsk : Holds(t) => loc[t].o \in OpnCB
  BY DEF Typed, Controlled, Holds
<1>4. Holders'
  BY <1>1, <1>3, SameHolders DEF SameOpens, SameOpn
<1> QED BY <1>2, <1>4

LEMMA UpdateKeepsOpens ==
    ASSUME NEW k \in Tables, NEW n, NEW o \in OpnCB, NEW x, OpnUpdate(n, k, o, x),
           SameOpn(x, k.opn[o])
    PROVE  SameOpens(n, k)
<1>1. k.opn \in [OpnCB -> OpnRec]
  BY DEF Tables
<1>2. \A p \in OpnCB : n.opn[p] = IF p = o THEN x ELSE k.opn[p]
  BY <1>1 DEF OpnUpdate
<1> QED BY <1>2 DEF OpnUpdate, SameRest, SameOpens, SameOpn

LEMMA RequestsKeepOpens ==
    ASSUME NEW k \in Tables, NEW o \in OpnCB
    PROVE  /\ \A r \in ReqCB : SameOpens(DelReqCB(k, r), k)
           /\ SameOpens(AbortCounted(k, o), k)
<1>1. k.opn \in [OpnCB -> OpnRec]
  BY DEF Tables
<1>2. ASSUME NEW r \in ReqCB PROVE SameOpens(DelReqCB(k, r), k)
  <2> DEFINE n == DelReqCB(k, r)
             p == k.req[r].opncb
  <2>1. /\ SameRest(n, k) /\ n.dev = k.dev /\ n.resq = k.resq /\ n.freeopn = k.freeopn
        /\ n.opn = [k.opn EXCEPT ![p].requestq = QueRemove(@, r)]
        /\ n.req = [k.req EXCEPT ![r] = UnusedReq]
        /\ n.freereq = Append(k.freereq, r)
    BY DelReqFields
  <2> HIDE DEF n, p
  <2>2. ASSUME NEW q \in OpnCB PROVE SameOpn(n.opn[q], k.opn[q])
    <3>1. k.opn[q] \in OpnRec
      BY <1>1
    <3>2. n.opn[q] = IF q = p THEN [k.opn[q] EXCEPT !.requestq = QueRemove(@, r)] ELSE k.opn[q]
      BY <1>1, <2>1
    <3> QED BY <3>1, <3>2 DEF OpnRec, SameOpn
  <2> QED BY <2>1, <2>2 DEF SameOpens, SameRest, n
<1>3. SameOpens(AbortCounted(k, o), k)
  <2> DEFINE n == AbortCounted(k, o)
             x == Counted(k.opn[o])
  <2>1. /\ SameRest(n, k) /\ SameReq(n, k)
        /\ n.dev = k.dev /\ n.resq = k.resq /\ n.freeopn = k.freeopn
        /\ n.opn = IF k.opn[o].abort_tskid = NoObj THEN k.opn
                   ELSE [k.opn EXCEPT ![o] = Counted(k.opn[o])]
    BY AbortCountedFields
  <2>2. SameOpn(x, k.opn[o])
    <3>1. k.opn[o] \in OpnRec
      BY <1>1
    <3> QED BY <3>1 DEF OpnRec, Counted, SameOpn
  <2> HIDE DEF n, x
  <2>3. \A q \in OpnCB : n.opn[q] = k.opn[q] \/ (q = o /\ n.opn[q] = x)
    BY <1>1, <2>1 DEF x
  <2> QED BY <2>1, <2>2, <2>3 DEF SameOpens, SameRest, SameOpn, n
<1> QED BY <1>2, <1>3

LEMMA AbortingExact ==
    ASSUME Typed, OpnInv, Modes(dm), NEW t \in Tsk,
           AbortAllRequest(t) \/ AbortTest(t) \/ AbortWait(t) \/ AbortEnd(t)
    PROVE  Exact(dm') /\ Holders'
<1>1. /\ Holds(t) /\ pc[t] # "closefn" /\ dm \in Tables /\ loc[t].o \in OpnCB
      /\ dm.opn[loc[t].o] \in OpnRec
  BY DEF AbortAllRequest, AbortTest, AbortWait, AbortEnd, Holds, Holding, Aborting, Typed,
         Controlled, Tables
<1>2. PICK at \in Aborting \cup {"drain"} : Goto(t, at, loc[t])
  BY DEF AbortAllRequest, AbortTest, AbortWait, AbortEnd, Aborting
<1>3. at \in Holding /\ at # "closefn"
  BY DEF Holding, Aborting
<1>4. SameOpens(dm', dm)
  <2> DEFINE o == loc[t].o
             y == dm.opn[o]
  <2>1. \/ dm' = dm
        \/ \E c : OpnUpdate(dm', dm, o, [y EXCEPT !.abort_tskid = t, !.abort_cnt = c])
        \/ OpnUpdate(dm', dm, o, [y EXCEPT !.sem = y.sem - 1])
        \/ OpnUpdate(dm', dm, o, [y EXCEPT !.abort_tskid = NoObj])
    BY AbortAllTyped, AbortWaitTyped, AbortEndTyped DEF AbortTest
  <2>2. y \in OpnRec /\ o \in OpnCB
    BY <1>1
  <2> HIDE DEF o, y
  <2>3. /\ \A c : SameOpn([y EXCEPT !.abort_tskid = t, !.abort_cnt = c], y)
        /\ SameOpn([y EXCEPT !.sem = y.sem - 1], y)
        /\ SameOpn([y EXCEPT !.abort_tskid = NoObj], y)
    BY <2>2 DEF SameOpn, OpnRec
  <2>4. dm' = dm \/ \E x : OpnUpdate(dm', dm, o, x) /\ SameOpn(x, dm.opn[o])
    BY <2>1, <2>3 DEF y
  <2>5. CASE dm' = dm
    BY <2>5 DEF SameOpens, SameOpn
  <2>6. CASE \E x : OpnUpdate(dm', dm, o, x) /\ SameOpn(x, dm.opn[o])
    BY <1>1, <2>2, <2>6, UpdateKeepsOpens
  <2> QED BY <2>4, <2>5, <2>6
<1>5. /\ \A u \in Tsk : Holds(u)' <=> Holds(u)
      /\ \A u \in Tsk : Holds(u) =>
           loc'[u].o = loc[u].o /\ (pc'[u] = "closefn" <=> pc[u] = "closefn")
  BY <1>1, <1>2, <1>3 DEF Holds, Goto, Typed, Controlled
<1> QED BY <1>4, <1>5, KeepsExact

LEMMA DrainExact ==
    ASSUME Typed, OpnInv, Modes(dm), NEW t \in Tsk, AbortRest(t)
    PROVE  Exact(dm') /\ Holders'
<1>1. /\ Holds(t) /\ pc[t] # "closefn" /\ dm \in Tables /\ loc[t] \in Local
  BY DEF AbortRest, Holds, Holding, Typed, Controlled
<1>2. PICK at \in {"drain", "close"} : \E q : Goto(t, at, [loc[t] EXCEPT !.reqs = q])
  BY DEF AbortRest
<1>3. PICK q : Goto(t, at, [loc[t] EXCEPT !.reqs = q])
  BY <1>2
<1> DEFINE l == [loc[t] EXCEPT !.reqs = q]
<1>4. l.o = loc[t].o
  BY <1>1 DEF Local
<1> HIDE DEF l
<1>5. Goto(t, at, l) /\ at \in Holding /\ at # "closefn"
  BY <1>3 DEF l, Holding
<1>6. SameOpens(dm', dm)
  <2>1. dm' = dm \/ \E r \in ReqCB : dm' = DelReqCB(dm, r)
    BY AbortRestTyped
  <2>2. loc[t].o \in OpnCB
    BY <1>1 DEF Typed, Controlled, Holds
  <2>3. CASE dm' = dm
    BY <2>3 DEF SameOpens, SameOpn
  <2>4. CASE \E r \in ReqCB : dm' = DelReqCB(dm, r)
    BY <1>1, <2>2, <2>4, RequestsKeepOpens
  <2> QED BY <2>1, <2>3, <2>4
<1>7. /\ \A u \in Tsk : Holds(u)' <=> Holds(u)
      /\ \A u \in Tsk : Holds(u) =>
           loc'[u].o = loc[u].o /\ (pc'[u] = "closefn" <=> pc[u] = "closefn")
  BY <1>1, <1>4, <1>5 DEF Holds, Goto, Typed, Controlled
<1> QED BY <1>6, <1>7, KeepsExact

\* A step of a task that neither opens nor closes anything.
LEMMA FreeExact ==
    ASSUME Typed, OpnInv, Modes(dm), NEW t \in Tsk, SameOpens(dm', dm),
           ~Holds(t), NEW at, at \notin Holding, NEW l,
           Goto(t, at, l) \/ UNCHANGED <<pc, loc>>
    PROVE  Exact(dm') /\ Holders'
<1>1. /\ \A u \in Tsk : Holds(u)' <=> Holds(u)
      /\ \A u \in Tsk : Holds(u) =>
           loc'[u].o = loc[u].o /\ (pc'[u] = "closefn" <=> pc[u] = "closefn")
  BY DEF Holds, Goto, Typed, Controlled
<1> QED BY <1>1, KeepsExact

LEMMA UserExact ==
    ASSUME Typed, OpnInv, Modes(dm), NEW t \in Tsk, UserCall(t) \/ Answer(t)
    PROVE  Exact(dm') /\ Holders'
<1>1. dm \in Tables /\ dm.opn \in [OpnCB -> OpnRec]
  BY DEF Typed, Tables
<1>2. CASE UserCall(t)
  <2>1. PICK o \in OpnCB :
          \/ \E mode \in {{}, {"READ"}, {"WRITE"}} : Request(t, o, mode)
          \/ \E r \in ReqCB : WaiDev(t, o, r)
          \/ WaiDevAny(t, o)
    BY <1>2 DEF UserCall
  <2> DEFINE y == dm.opn[o]
  <2>2. /\ SameButReq(dm', dm)
        /\ \/ \E q : dm'.opn = [dm.opn EXCEPT ![o] = [y EXCEPT !.requestq = q]]
           \/ \E q : dm'.opn = [dm.opn EXCEPT ![o] = [y EXCEPT !.waitone = q]]
           \/ \E q : dm'.opn = [dm.opn EXCEPT ![o] = [y EXCEPT !.waireqlst = q]]
    <3>1. CASE \E mode \in {{}, {"READ"}, {"WRITE"}} : Request(t, o, mode)
      <4>1. PICK mode \in {{}, {"READ"}, {"WRITE"}} : Request(t, o, mode)
        BY <3>1
      <4>2. SameButReq(dm', dm)
        BY <4>1, RequestTyped
      <4>3. \E r \in ReqCB :
              /\ dm.freereq # <<>> /\ r = Head(dm.freereq)
              /\ dm'.freereq = Tail(dm.freereq)
              /\ dm'.opn = [dm.opn EXCEPT ![o].requestq = Append(@, r)]
              /\ dm'.req = [dm.req EXCEPT ![r] = [opncb |-> o, tskid |-> t]]
              /\ Goto(t, "exec", [Idle EXCEPT !.o = o, !.reqs = <<r>>])
        BY <4>1, RequestTyped
      <4>4. PICK r \in ReqCB :
              dm'.opn = [dm.opn EXCEPT ![o] = [y EXCEPT !.requestq = Append(y.requestq, r)]]
        BY <4>3
      <4> QED BY <4>2, <4>4
    <3>2. CASE \E r \in ReqCB : WaiDev(t, o, r)
      <4>1. PICK r \in ReqCB : WaiDev(t, o, r)
        BY <3>2
      <4>2. /\ SameButReq(dm', dm)
            /\ dm'.opn = [dm.opn EXCEPT ![o] = [y EXCEPT !.waitone = y.waitone + 1]]
        BY <4>1, WaiDevTyped
      <4> QED BY <4>2
    <3>3. CASE WaiDevAny(t, o)
      BY <3>3, WaiDevAnyTyped DEF y
    <3> QED BY <2>1, <3>1, <3>2, <3>3
  <2>3. y \in OpnRec
    BY <1>1
  <2> HIDE DEF y
  <2>4. /\ \A q : SameOpn([y EXCEPT !.requestq = q], y)
        /\ \A q : SameOpn([y EXCEPT !.waitone = q], y)
        /\ \A q : SameOpn([y EXCEPT !.waireqlst = q], y)
    BY <2>3 DEF SameOpn, OpnRec
  <2>5. \E x : dm'.opn = [dm.opn EXCEPT ![o] = x] /\ SameOpn(x, y)
    BY <2>2, <2>4
  <2>6. \A p \in OpnCB : SameOpn(dm'.opn[p], dm.opn[p])
    BY <1>1, <2>5 DEF y, SameOpn
  <2>7. SameOpens(dm', dm)
    BY <2>2, <2>6 DEF SameOpens, SameButReq, SameRest
  <2>8. \E l : Goto(t, "exec", l) \/ Goto(t, "wait", l)
    BY <2>1 DEF Request, WaiDev, WaiDevAny
  <2>9. ~Holds(t) /\ "exec" \notin Holding /\ "wait" \notin Holding
    BY <2>1 DEF Request, WaiDev, WaiDevAny, Holds, Holding, Aborting
  <2> QED BY <2>7, <2>8, <2>9, FreeExact
<1>3. CASE Answer(t)
  <2>1. PICK k \in Tables : CallEnds(t, k)
    BY <1>3, AnswerTyped
  <2> DEFINE o == loc[t].o
             y == dm.opn[o]
             n == AbortCounted(k, o)
  <2>2. o \in OpnCB /\ loc[t].reqs \in Seq(ReqCB)
    BY <1>3, AnswerTyped DEF Typed, Controlled, Local
  <2>3. /\ SameButReq(k, dm)
        /\ \/ k.opn = dm.opn
           \/ \E q : k.opn = [dm.opn EXCEPT ![o] = [y EXCEPT !.waitone = q]]
           \/ \E q : k.opn = [dm.opn EXCEPT ![o] = [y EXCEPT !.waireqlst = q]]
    BY <2>1 DEF CallEnds, CallOver
  <2>4. dm' = n \/ \E r \in ReqCB : dm' = DelReqCB(n, r)
    <3>1. ToSet(loc[t].reqs) \subseteq ReqCB
      BY <2>2, EntriesOf
    <3> QED BY <2>1, <3>1 DEF CallEnds
  <2>5. n \in Tables /\ y \in OpnRec
    BY <1>1, <2>2, AbortCountedTyped
  <2>6. pc[t] \in Driving /\ Goto(t, "out", Idle)
    BY <2>1 DEF CallEnds, CallOver, Driving, Return
  <2> HIDE DEF o, y
  <2>7. /\ \A q : SameOpn([y EXCEPT !.waitone = q], y)
        /\ \A q : SameOpn([y EXCEPT !.waireqlst = q], y)
        /\ SameOpn(y, y)
    BY <2>5 DEF SameOpn, OpnRec
  <2>8. k.opn = dm.opn \/ \E x : k.opn = [dm.opn EXCEPT ![o] = x] /\ SameOpn(x, y)
    BY <2>3, <2>7
  <2>9. \A p \in OpnCB : SameOpn(k.opn[p], dm.opn[p])
    BY <1>1, <2>2, <2>8 DEF y, SameOpn
  <2>10. SameOpens(k, dm)
    BY <2>3, <2>9 DEF SameOpens, SameButReq, SameRest
  <2>11. SameOpens(n, k)
    BY <2>2, RequestsKeepOpens
  <2> HIDE DEF n
  <2>12. dm' = n \/ SameOpens(dm', n)
    BY <2>2, <2>4, <2>5, RequestsKeepOpens
  <2>13. SameOpens(dm', dm)
    BY <2>10, <2>11, <2>12 DEF SameOpens, SameOpn
  <2>14. ~Holds(t) /\ "out" \notin Holding
    BY <2>6 DEF Holds, Holding, Aborting, Driving
  <2> QED BY <2>6, <2>13, <2>14, FreeExact
<1> QED BY <1>2, <1>3

\* A block whose closefn has returned goes back into the free queue.
LEMMA FreedTables ==
    ASSUME dm \in Tables, OpnTables(dm), Modes(dm), NEW o \in OpnCB, dm.opn[o].devcb = NoObj,
           o \notin ToSet(dm.freeopn), NEW k \in Tables, Freed(k, o)
    PROVE  /\ OpnTables(k) /\ Modes(k) /\ k.opn = dm.opn
           /\ ToSet(k.freeopn) = ToSet(dm.freeopn) \cup {o}
<1>1. /\ k.dev = dm.dev /\ k.used = dm.used /\ k.opn = dm.opn /\ k.resq = dm.resq
      /\ k.freeopn = Append(dm.freeopn, o) /\ dm.freeopn \in Seq(OpnCB)
  BY DEF Freed, SameDev, Tables
<1>2. IsInjective(k.freeopn) /\ ToSet(k.freeopn) = ToSet(dm.freeopn) \cup {o}
  BY <1>1, AppendOne DEF OpnTables
<1>3. OpnTables(k)
  BY <1>1, <1>2 DEF OpnTables
<1>4. Modes(k)
  BY <1>1 DEF Modes
<1> QED BY <1>1, <1>2, <1>3, <1>4

\* The next device of the shutdown: nobody else holds anything.
LEMMA CloseNextExact ==
    ASSUME Typed, NEW t \in Tsk, NEW k \in Tables, OpnTables(k), Modes(k), dm' \in Tables,
           CloseNext(t, k), \A u \in Tsk : u # t => pc[u] = "out",
           \A p \in OpnCB : k.opn[p].devcb = NoObj => p \in ToSet(k.freeopn)
    PROVE  Exact(dm') /\ Holders'
<1>1. PICK o \in ToSet(k.resq) :
        /\ OpnUpdate(dm', k, o, [k.opn[o] EXCEPT !.resid = 0])
        /\ Goto(t, "abort", [Idle EXCEPT !.o = o, !.all = TRUE])
  BY DEF CloseNext
<1> DEFINE l == [Idle EXCEPT !.o = o, !.all = TRUE]
<1>2. o \in OpnCB
  <2>1. k.resq \in Seq(OpnCB)
    BY DEF Tables
  <2> QED BY <2>1, EntriesOf
<1>3. l.o = o
  BY Constants DEF Local
<1>4. pc' = [pc EXCEPT ![t] = "abort"] /\ loc' = [loc EXCEPT ![t] = l]
  BY <1>1 DEF Goto
<1> HIDE DEF l
<1>5. Marked(dm', k, o, 0)
  BY <1>1, <1>2, MarkTables
<1>6. k.opn[o].devcb # NoObj /\ o \notin ToSet(k.freeopn)
  BY <1>2 DEF OpnTables
<1>7. /\ OpnTables(dm') /\ Modes(dm') /\ dm'.freeopn = k.freeopn /\ dm'.opn[o].resid = 0
      /\ \A p \in OpnCB : dm'.opn[p].devcb = k.opn[p].devcb
  BY <1>5 DEF Marked
<1>8. /\ pc'[t] = "abort" /\ loc'[t] = l
      /\ \A u \in Tsk : Holds(u)' => u = t
  BY <1>4 DEF Holds, Holding, Aborting, Typed, Controlled
<1>9. Holders'
  BY <1>2, <1>3, <1>6, <1>7, <1>8 DEF Holders
<1> QED BY <1>7, <1>9 DEF Exact

LEMMA CloseEndExact ==
    ASSUME Typed, OpnInv, Modes(dm), AloneAtShutdown, NEW t \in Tsk, CloseEnd(t)
    PROVE  Exact(dm') /\ Holders'
<1> DEFINE o == loc[t].o
<1>1. PICK k \in Tables :
        /\ Freed(k, o)
        /\ \/ dm' = k /\ Return(t)
           \/ loc[t].all /\ CloseNext(t, k)
  BY CloseEndTyped
<1>2. /\ dm \in Tables /\ OpnTables(dm) /\ Holders /\ pc[t] = "closefn" /\ Holds(t)
      /\ pc \in [Tsk -> Place] /\ loc \in [Tsk -> Local] /\ o \in OpnCB /\ dm' \in Tables
  BY CloseEndTyped DEF Typed, Controlled, OpnInv, CloseEnd, Holds, Holding
<1>3. dm.opn[o].devcb = NoObj /\ o \notin ToSet(dm.freeopn) /\ dm.opn[o].resid = 0
  BY <1>2 DEF Holders
<1>4. loc[t].o = o
  OBVIOUS
<1> HIDE DEF o
<1>5. /\ OpnTables(k) /\ Modes(k) /\ k.opn = dm.opn
      /\ ToSet(k.freeopn) = ToSet(dm.freeopn) \cup {o}
  BY <1>1, <1>2, <1>3, FreedTables
<1>6. CASE dm' = k /\ Return(t)
  <2>1. ~Holds(t)' /\ \A u \in Tsk \ {t} : pc'[u] = pc[u] /\ loc'[u] = loc[u]
    BY <1>2, <1>6 DEF Holds, Goto, Return, Holding, Aborting
  <2>2. \A p \in OpnCB : p # o =>
          /\ dm'.opn[p].devcb = dm.opn[p].devcb /\ dm'.opn[p].resid = dm.opn[p].resid
          /\ p \in ToSet(dm'.freeopn) <=> p \in ToSet(dm.freeopn)
    BY <1>5, <1>6
  <2>3. o \in ToSet(dm'.freeopn)
    BY <1>5, <1>6
  <2>4. Holders'
    BY <1>2, <1>4, <2>1, <2>2, <2>3, OneBlock
  <2> QED BY <1>5, <1>6, <2>4 DEF Exact
<1>7. CASE loc[t].all /\ CloseNext(t, k)
  <2>1. \A u \in Tsk : u # t => pc[u] = "out"
    BY <1>7 DEF AloneAtShutdown
  <2>2. ASSUME NEW p \in OpnCB, dm.opn[p].devcb = NoObj
        PROVE  p \in ToSet(dm.freeopn) \/ p = o
    BY <1>2, <1>4, <2>1, <2>2 DEF Holders
  <2>3. \A p \in OpnCB : k.opn[p].devcb = NoObj => p \in ToSet(k.freeopn)
    BY <1>5, <2>2
  <2> QED BY <1>2, <1>5, <1>7, <2>1, <2>3, CloseNextExact
<1> QED BY <1>1, <1>6, <1>7

LEMMA CountingExact ==
    ASSUME Typed, OpnInv, Modes(dm), NEW k, Counting(k)
    PROVE  SameOpens(k, dm) /\ OpnTables(k) /\ Modes(k)
<1>1. SameOpens(k, dm)
  BY DEF Counting, SameDev, SameOpens, SameOpn
<1>2. dm \in Tables /\ OpnTables(dm)
  BY DEF Typed, OpnInv
<1> QED BY <1>1, <1>2, SameOpensTables

LEMMA CleanupExact ==
    ASSUME Typed, OpnInv, Modes(dm), NEW t \in Tsk, DevmgrCleanup(t)
    PROVE  Exact(dm') /\ Holders'
<1>1. PICK k \in Tables :
        /\ Counting(k)
        /\ \/ dm' = k /\ UNCHANGED <<pc, loc>>
           \/ CloseNext(t, k)
  BY CleanupTyped
<1>2. (\A u \in Tsk : pc[u] = "out") /\ dm' \in Tables /\ Holders
  BY CleanupTyped DEF Typed, OpnInv
<1>3. SameOpens(k, dm) /\ OpnTables(k) /\ Modes(k)
  BY <1>1, CountingExact
<1>4. \A u \in Tsk : ~Holds(u)
  BY <1>2 DEF Holds, Holding, Aborting
<1>5. CASE dm' = k /\ UNCHANGED <<pc, loc>>
  <2>1. SameOpens(dm', dm) /\ \A u \in Tsk : ~Holds(u)'
    BY <1>3, <1>4, <1>5 DEF Holds
  <2> QED BY <1>4, <2>1, KeepsExact
<1>6. CASE CloseNext(t, k)
  <2>1. \A p \in OpnCB : k.opn[p].devcb = NoObj => p \in ToSet(k.freeopn)
    BY <1>2, <1>3 DEF SameOpens, SameOpn, Holders
  <2> QED BY <1>2, <1>3, <1>6, <2>1, CloseNextExact
<1> QED BY <1>1, <1>5, <1>6

\* Suspension, and the count that forbids it.
LEMMA SuspendExact ==
    ASSUME Typed, OpnInv, Modes(dm), NEW t \in Tsk,
           \/ DisSus(t) \/ EnaSus(t) \/ (\E force \in BOOLEAN : SusDev(t, force))
           \/ SusLock(t) \/ SusEvent(t) \/ SusNext(t)
    PROVE  Exact(dm') /\ Holders'
<1>1. CASE DisSus(t) \/ EnaSus(t)
  <2>1. SameOpens(dm', dm) /\ UNCHANGED <<pc, loc>>
    BY <1>1, SuspendCountTyped, CountingExact
  <2>2. \A u \in Tsk : Holds(u)' <=> Holds(u)
    BY <2>1 DEF Holds
  <2> QED BY <2>1, <2>2, KeepsExact
<1>2. CASE (\E force \in BOOLEAN : SusDev(t, force)) \/ SusLock(t) \/ SusEvent(t) \/ SusNext(t)
  <2>1. SameOpens(dm', dm)
    <3>1. dm' = dm
      BY <1>2, SuspendTyped
    <3> QED BY <3>1 DEF SameOpens, SameOpn
  <2>2. ~Holds(t) /\ "out" \notin Holding /\ "sus" \notin Holding /\ "susev" \notin Holding
    BY <1>2 DEF Holds, Holding, Aborting, SusDev, SusLock, SusEvent, SusNext
  <2>3. \E l : Goto(t, "out", l) \/ Goto(t, "sus", l) \/ Goto(t, "susev", l)
    BY <1>2 DEF SusDev, SusLock, SusEvent, SusNext, Return
  <2>4. PICK l : Goto(t, "out", l) \/ Goto(t, "sus", l) \/ Goto(t, "susev", l)
    BY <2>3
  <2> QED BY <2>1, <2>2, <2>4, FreeExact
<1> QED BY <1>1, <1>2

\* Devices come and go, but not their opens.
LEMMA DevicesKeepExact ==
    ASSUME Typed, OpnInv, Modes(dm), UNCHANGED <<pc, loc>>,
           dm'.opn = dm.opn, dm'.freeopn = dm.freeopn, dm'.resq = dm.resq,
           \A d \in DevCB : dm'.dev[d].openq = dm.dev[d].openq,
           \A d \in ToSet(dm.used) : d \in ToSet(dm'.used) \/ dm.dev[d].openq = <<>>
    PROVE  Exact(dm') /\ Holders'
<1>1. dm \in Tables /\ OpnTables(dm) /\ Holders /\ dm.opn \in [OpnCB -> OpnRec]
  BY DEF Typed, OpnInv, Tables
<1>2. ToSet(dm.resq) \subseteq OpnCB
  BY <1>1, EntriesOf DEF Tables
<1>3. \A d \in DevCB : dm.dev[d].openq = <<>> => ToSet(dm.dev[d].openq) = {}
  <2>1. \A d \in DevCB : dm.dev[d].openq \in Seq(OpnCB)
    BY <1>1 DEF Tables, DevRec
  <2> QED BY <2>1, EntriesOf
<1>4. OpnTables(dm')
  <2>1. \A d \in DevCB : \A o \in ToSet(dm'.dev[d].openq) :
          dm'.opn[o].devcb = d /\ d \in ToSet(dm'.used)
    BY <1>1, <1>3 DEF OpnTables
  <2>2. \A o \in ToSet(dm'.resq) : o \in ToSet(dm'.dev[dm'.opn[o].devcb].openq)
    <3> SUFFICES ASSUME NEW o \in ToSet(dm.resq)
                 PROVE  o \in ToSet(dm'.dev[dm.opn[o].devcb].openq)
      OBVIOUS
    <3>1. dm.opn[o].devcb \in DevCB
      BY <1>1, <1>2 DEF OpnTables, OpnRec
    <3> QED BY <1>1, <3>1 DEF OpnTables
  <2> QED BY <1>1, <2>1, <2>2 DEF OpnTables
<1>5. Modes(dm')
  BY <1>1 DEF Modes
<1>6. Holders'
  BY <1>1 DEF Holders, Holds
<1> QED BY <1>4, <1>5, <1>6 DEF Exact

LEMMA RegistrationExact ==
    ASSUME Typed, DevInv, OpnInv, Modes(dm), NEW t \in Tsk, NEW nm \in Name,
           (\E ddev \in DDev[nm] : DefDev(t, nm, ddev)) \/ UndefDev(t, nm)
    PROVE  Exact(dm') /\ Holders'
<1>1. /\ dm \in Tables /\ dm.used \in Seq(DevCB) /\ dm.dev \in [DevCB -> DevRec]
      /\ ToSet(dm.used) \subseteq DevCB
  BY EntriesOf DEF Typed, Tables
<1>2. CASE UndefDev(t, nm)
  <2>1. PICK d \in ToSet(dm.used) :
          /\ dm.dev[d].openq = <<>> /\ dm'.dev = [dm.dev EXCEPT ![d] = UnusedDev]
          /\ dm'.used = QueRemove(dm.used, d)
    BY <1>2, UndefDevTyped
  <2>2. ToSet(dm'.used) = ToSet(dm.used) \ {d}
    BY <1>1, <2>1, QueRemoveEntry DEF DevInv
  <2>3. \A e \in DevCB : dm'.dev[e].openq = dm.dev[e].openq
    BY <1>1, <2>1 DEF UnusedDev
  <2>4. dm'.opn = dm.opn /\ dm'.freeopn = dm.freeopn /\ dm'.resq = dm.resq
    BY <1>2, UndefDevTyped
  <2>5. \A e \in ToSet(dm.used) : e \in ToSet(dm'.used) \/ dm.dev[e].openq = <<>>
    BY <2>1, <2>2
  <2>6. UNCHANGED <<pc, loc>>
    BY <1>2 DEF UndefDev
  <2> QED BY <2>3, <2>4, <2>5, <2>6, DevicesKeepExact
<1>3. CASE \E ddev \in DDev[nm] : DefDev(t, nm, ddev)
  <2>1. PICK ddev \in DDev[nm] : DefDev(t, nm, ddev)
    BY <1>3
  <2>2. /\ \/ \E d \in ToSet(dm.used) :
                /\ dm'.dev = [dm.dev EXCEPT ![d].ddev = ddev]
                /\ dm'.used = dm.used /\ dm'.freedev = dm.freedev
           \/ \E d \in DevCB :
                /\ dm.freedev # <<>> /\ d = Head(dm.freedev)
                /\ \A e \in ToSet(dm.used) : dm.dev[e].devnm # nm
                /\ dm'.dev = [dm.dev EXCEPT ![d] = [devnm |-> nm, ddev |-> ddev, openq |-> <<>>]]
                /\ dm'.used = Append(dm.used, d) /\ dm'.freedev = Tail(dm.freedev)
        /\ dm'.opn = dm.opn /\ dm'.freeopn = dm.freeopn /\ dm'.resq = dm.resq
        /\ SameReq(dm', dm)
    BY <2>1, DefDevTyped
  <2>3. UNCHANGED <<pc, loc>>
    BY <2>1 DEF DefDev
  <2>4. CASE \E d \in ToSet(dm.used) :
               dm'.dev = [dm.dev EXCEPT ![d].ddev = ddev] /\ dm'.used = dm.used
    <3>1. \A e \in DevCB : dm'.dev[e].openq = dm.dev[e].openq
      BY <1>1, <2>4 DEF DevRec
    <3> QED BY <2>2, <2>3, <2>4, <3>1, DevicesKeepExact
  <2>5. CASE \E d \in DevCB :
               /\ dm.freedev # <<>> /\ d = Head(dm.freedev)
               /\ dm'.dev = [dm.dev EXCEPT ![d] = [devnm |-> nm, ddev |-> ddev, openq |-> <<>>]]
               /\ dm'.used = Append(dm.used, d)
    <3>1. PICK d \in DevCB :
            /\ dm.freedev # <<>> /\ d = Head(dm.freedev)
            /\ dm'.dev = [dm.dev EXCEPT ![d] = [devnm |-> nm, ddev |-> ddev, openq |-> <<>>]]
            /\ dm'.used = Append(dm.used, d)
      BY <2>5
    <3>2. dm.freedev \in Seq(DevCB)
      BY <1>1 DEF Tables
    <3>3. d \in ToSet(dm.freedev)
      BY <3>1, <3>2, EntriesOf
    <3>4. d \notin ToSet(dm.used)
      BY <3>3 DEF DevInv
    <3>5. ToSet(dm'.used) = ToSet(dm.used) \cup {d}
      BY <1>1, <3>1, <3>4, AppendOne DEF DevInv
    <3>6. dm.dev[d].openq = <<>>
      <4>1. dm.dev[d].openq \in Seq(OpnCB)
        BY <1>1 DEF DevRec
      <4>2. ToSet(dm.dev[d].openq) = {}
        BY <3>4 DEF OpnInv, OpnTables
      <4> QED BY <4>1, <4>2, EntriesOf
    <3>7. \A e \in DevCB : dm'.dev[e].openq = dm.dev[e].openq
      BY <1>1, <3>1, <3>6
    <3>8. \A e \in ToSet(dm.used) : e \in ToSet(dm'.used) \/ dm.dev[e].openq = <<>>
      BY <3>5
    <3>9. dm'.opn = dm.opn /\ dm'.freeopn = dm.freeopn /\ dm'.resq = dm.resq
      BY <2>2
    <3> QED BY <2>3, <3>7, <3>8, <3>9, DevicesKeepExact
  <2> QED BY <2>2, <2>4, <2>5
<1> QED BY <1>2, <1>3

LEMMA OpnStep ==
    ASSUME Typed, DevInv, OpnInv, Modes(dm), AloneAtShutdown, [Next]_vars
    PROVE  (OpnInv /\ Modes(dm))'
<1>1. ASSUME NEW t \in Managers, ManagerCall(t)
      PROVE  Exact(dm') /\ Holders'
  <2>1. t \in Tsk
    BY DEF Tsk
  <2> QED BY <1>1, <2>1, RegistrationExact, OpenExact, BeginCloseExact, SuspendExact, CleanupExact
          DEF ManagerCall
<1>2. ASSUME NEW t \in Managers, Step(t)
      PROVE  Exact(dm') /\ Holders'
  <2>1. t \in Tsk
    BY DEF Tsk
  <2> QED BY <1>2, <2>1, OpenEndExact, AbortingExact, DrainExact, CloseDeviceExact, CloseEndExact,
             SuspendExact DEF Step
<1>3. ASSUME NEW t \in Users, UserCall(t) \/ Answer(t)
      PROVE  Exact(dm') /\ Holders'
  BY <1>3, UserExact DEF Tsk
<1>4. CASE UNCHANGED vars
  <2>1. SameOpens(dm', dm) /\ \A u \in Tsk : Holds(u)' <=> Holds(u)
    BY <1>4 DEF vars, SameOpens, SameOpn, Holds
  <2> QED BY <1>4, <2>1, KeepsExact DEF vars, Exact, OpnInv, OpnTables, Modes
<1>5. Exact(dm') /\ Holders' => (OpnInv /\ Modes(dm))'
  BY DEF Exact, OpnInv, OpnTables, Modes
<1> QED BY <1>1, <1>2, <1>3, <1>4, <1>5 DEF Next

LEMMA InitOpn ==
    ASSUME Init
    PROVE  OpnInv /\ Modes(dm)
<1>1. /\ dm.dev = [d \in DevCB |-> UnusedDev] /\ dm.used = <<>>
      /\ dm.opn = [o \in OpnCB |-> UnusedOpn]
      /\ dm.freeopn = SetToSeq(OpnCB) /\ dm.resq = <<>>
  BY InitTables
<1>2. ToSet(SetToSeq(OpnCB)) = OpnCB /\ IsInjective(SetToSeq(OpnCB))
  BY FreeQueue, DeviceAssumption
<1>3. ToSet(<<>>) = {} /\ IsInjective(<<>>)
  BY EmptySeq DEF ToSet, IsInjective
<1>4. OpnTables(dm)
  BY <1>1, <1>2, <1>3 DEF OpnTables, UnusedDev, UnusedOpn
<1>5. Holders
  BY <1>1, <1>2 DEF Init, Holders, Holds, Holding, Aborting
<1>6. Modes(dm)
  BY <1>1, <1>3 DEF Modes, UnusedDev
<1> QED BY <1>4, <1>5, <1>6 DEF OpnInv

\* Of two opens that share a unit, one for exclusive use leaves the other
\* nothing of what it excludes, though drivers fail opens, tasks close devices
\* and drivers register anew at the same time; provided that no other task is
\* in the device manager at shutdown.
THEOREM OpensExclude == Spec /\ []AloneAtShutdown => []OpenModesExclusive
<1> DEFINE Inv == Typed /\ DevInv /\ OpnInv /\ Modes(dm)
<1>1. Init => Inv
  BY InitTables, InitDev, InitOpn
<1>2. Inv /\ AloneAtShutdown /\ [Next]_vars => Inv'
  BY TypedStep, DevStep, OpnStep
<1>3. Inv => OpenModesExclusive
  BY DEF Modes, Apart, OpenModesExclusive
<1> QED BY <1>1, <1>2, <1>3, PTL DEF Spec

-----------------------------------------------------------------------------
(***************************************************************************)
(* Requests                                                                *)
(***************************************************************************)
\* The step is about another open control block than p.
Untouched(p) ==
    /\ dm'.opn[p] = dm.opn[p]
    /\ \A r \in ReqCB : dm.req[r].opncb = p \/ dm'.req[r].opncb = p => dm'.req[r] = dm.req[r]
    /\ \A u \in Tsk : At(u) = p \/ At(u)' = p => pc'[u] = pc[u] /\ loc'[u] = loc[u]

LEMMA UntouchedSets ==
    ASSUME Typed, NEW p \in OpnCB, Marks(p), Untouched(p)
    PROVE  /\ ReqOf(p)' = ReqOf(p) /\ Busy(p)' = Busy(p) /\ Waits(p)' = Waits(p)
           /\ \A r \in ReqOf(p) : dm'.req[r] = dm.req[r]
           /\ \A u \in Tsk : Drives(u, p)' <=> Drives(u, p)
           /\ \A u \in Tsk : AnyWaits(u, p)' <=> AnyWaits(u, p)
           /\ \A u \in Tsk : (Holds(u) /\ loc[u].o = p)' <=> Holds(u) /\ loc[u].o = p
           /\ \A u \in Tsk : (Holds(u) \/ Drives(u, p)) /\ loc[u].o = p =>
                pc'[u] = pc[u] /\ loc'[u] = loc[u]
<1>1. p # NoObj
  BY Constants
<1>2. \A u \in Tsk : (At(u) = p <=> pc[u] \in Holding \cup Driving /\ loc[u].o = p)
  BY <1>1 DEF At
<1>3. \A u \in Tsk : (At(u)' = p <=> pc'[u] \in Holding \cup Driving /\ loc'[u].o = p)
  BY <1>1 DEF At
<1>4. ReqOf(p)' = ReqOf(p) /\ \A r \in ReqOf(p) : dm'.req[r] = dm.req[r]
  BY DEF Untouched, ReqOf
<1>5. Busy(p)' = Busy(p)
  BY <1>4 DEF Busy
<1>6. \A u \in Tsk : pc[u] \in Holding \cup Driving /\ loc[u].o = p =>
        pc'[u] = pc[u] /\ loc'[u] = loc[u]
  BY <1>2 DEF Untouched
<1>7. \A u \in Tsk : pc'[u] \in Holding \cup Driving /\ loc'[u].o = p =>
        pc'[u] = pc[u] /\ loc'[u] = loc[u]
  BY <1>3 DEF Untouched
<1>8. Waits(p)' = Waits(p)
  <2>1. ASSUME NEW r \in Busy(p)
        PROVE  LET u == dm.req[r].tskid
               IN  /\ dm'.req[r].tskid = u /\ pc'[u] = pc[u] /\ loc'[u] = loc[u]
    <3>1. r \in ReqCB /\ r \in ReqOf(p) /\ dm.req[r].tskid # NoObj
      BY DEF Busy, ReqOf
    <3>2. dm.req[r].tskid \in Tsk
      BY <3>1 DEF Typed, Tables, ReqRec
    <3>3. Drives(dm.req[r].tskid, p)
      BY DEF Marks
    <3> QED BY <1>4, <1>6, <3>1, <3>2, <3>3 DEF Drives
  <2> QED BY <1>5, <2>1 DEF Waits
<1>9. /\ \A u \in Tsk : Drives(u, p)' <=> Drives(u, p)
      /\ \A u \in Tsk : (Holds(u) /\ loc[u].o = p)' <=> Holds(u) /\ loc[u].o = p
      /\ \A u \in Tsk : (Holds(u) \/ Drives(u, p)) /\ loc[u].o = p =>
                pc'[u] = pc[u] /\ loc'[u] = loc[u]
  BY <1>6, <1>7 DEF Drives, Holds
<1>10. \A u \in Tsk : AnyWaits(u, p)' <=> AnyWaits(u, p)
  BY <1>6, <1>7 DEF AnyWaits, Driving
<1> QED BY <1>4, <1>5, <1>8, <1>9, <1>10

LEMMA UntouchedBlock ==
    ASSUME Typed, NEW p \in OpnCB, Block(p), Untouched(p)
    PROVE  Block(p)'
<1>1. /\ ReqOf(p)' = ReqOf(p) /\ Busy(p)' = Busy(p) /\ Waits(p)' = Waits(p)
      /\ \A r \in ReqOf(p) : dm'.req[r] = dm.req[r]
      /\ \A u \in Tsk : Drives(u, p)' <=> Drives(u, p)
      /\ \A u \in Tsk : AnyWaits(u, p)' <=> AnyWaits(u, p)
      /\ \A u \in Tsk : (Holds(u) /\ loc[u].o = p)' <=> Holds(u) /\ loc[u].o = p
      /\ \A u \in Tsk : (Holds(u) \/ Drives(u, p)) /\ loc[u].o = p =>
           pc'[u] = pc[u] /\ loc'[u] = loc[u]
  BY UntouchedSets DEF Block
<1>2. dm'.opn[p] = dm.opn[p]
  BY DEF Untouched
<1>3. Marks(p) /\ Waiting(p) /\ Signals(p)
  BY DEF Block
<1>4. \A u \in Tsk : Drives(u, p) => loc[u].o = p
  BY DEF Drives
<1>5. \A r \in Busy(p) : r \in ReqOf(p) /\ dm.req[r].tskid \in Tsk
  BY DEF Busy, ReqOf, Typed, Tables, ReqRec
<1>6. Marks(p)'
  <2>1. \A r \in Busy(p) :
          LET u == dm.req[r].tskid IN (Drives(u, p) /\ r \in ToSet(loc[u].reqs))'
    BY <1>1, <1>3, <1>4, <1>5 DEF Marks
  <2>2. \A u \in Tsk : Drives(u, p)' =>
         /\ \A r \in ToSet(loc'[u].reqs) : r \in ReqOf(p) /\ dm'.req[r].tskid = u
         /\ ~loc'[u].any => loc'[u].reqs = <<Head(loc'[u].reqs)>>
         /\ pc'[u] = "exec" => ~loc'[u].any
    BY <1>1, <1>3, <1>4 DEF Marks
  <2> QED BY <1>1, <1>2, <1>3, <1>5, <2>1, <2>2 DEF Marks
<1>7. Waiting(p)'
  <2>1. \A u \in Tsk : AnyWaits(u, p) => Drives(u, p)
    BY DEF AnyWaits, Drives, Driving
  <2> QED BY <1>1, <1>2, <1>3, <1>4, <2>1 DEF Waiting
<1>8. Signals(p)'
  <2>1. Calls(p)' = Calls(p)
    BY <1>1, <1>2 DEF Calls
  <2>2. \A u \in Tsk : pc[u] \in Counts => Holds(u)
    BY DEF Counts, Holds, Holding, Aborting
  <2>3. dm.opn[p].abort_tskid # NoObj => \E u \in Tsk : pc'[u] \in Counts /\ loc'[u].o = p
    BY <1>1, <1>3, <2>2 DEF Signals
  <2>4. dm.opn[p].sem = 1 => \E u \in Tsk : (Holds(u) /\ loc[u].o = p)'
    BY <1>1, <1>3 DEF Signals
  <2>5. \A u \in Tsk : (Holds(u) /\ loc[u].o = p)' =>
          pc'[u] = pc[u] /\ loc'[u] = loc[u] /\ Holds(u) /\ loc[u].o = p
    BY <1>1
  <2>6. \A u \in Tsk : (Holds(u) /\ loc[u].o = p)' => Signalled(u, p)'
    BY <1>1, <1>2, <1>3, <2>1, <2>5 DEF Signals, Signalled
  <2> QED BY <1>2, <1>3, <2>3, <2>4, <2>6 DEF Signals
<1> QED BY <1>6, <1>7, <1>8 DEF Block

\* An open control block with no task in the driver, or nobody that holds it.
LEMMA BlockFacts ==
    ASSUME Typed, NEW o \in OpnCB, Block(o)
    PROVE  /\ IsFiniteSet(Busy(o)) /\ IsFiniteSet(Waits(o)) /\ Busy(o) \subseteq ReqCB
           /\ Waits(o) \subseteq Busy(o)
           /\ \A t \in Tsk : Drives(t, o) => Head(loc[t].reqs) \in Busy(o)
           /\ Busy(o) = {} => /\ \A t \in Tsk : ~Drives(t, o)
                              /\ dm.opn[o].waireqlst = <<>> /\ dm.opn[o].waitone = 0
                              /\ Calls(o) = 0
           /\ Calls(o) = 0 => Busy(o) = {}
           /\ dm.opn[o].devcb = NoObj => dm.opn[o] = UnusedOpn /\ ReqOf(o) = {} /\ Busy(o) = {}
           /\ (\A t \in Tsk : Holds(t) => loc[t].o # o) =>
                dm.opn[o].sem = 0 /\ dm.opn[o].abort_tskid = NoObj
<1>1. Marks(o) /\ Waiting(o) /\ Signals(o)
  BY DEF Block
<1>2. /\ Busy(o) \subseteq ReqCB /\ Waits(o) \subseteq Busy(o)
      /\ IsFiniteSet(Busy(o)) /\ IsFiniteSet(Waits(o))
  <2>1. Busy(o) \subseteq ReqCB /\ Waits(o) \subseteq Busy(o)
    BY DEF Busy, ReqOf, Waits
  <2> QED BY <2>1, Constants, FS_Subset
<1>3. ASSUME NEW t \in Tsk, Drives(t, o)
      PROVE  Head(loc[t].reqs) \in Busy(o)
  <2>1. loc[t].reqs \in Seq(ReqCB) /\ loc[t].reqs # <<>>
    BY <1>3 DEF Drives, Typed, Controlled, Local
  <2>2. Head(loc[t].reqs) \in ToSet(loc[t].reqs)
    BY <2>1, EntriesOf
  <2>3. t # NoObj
    BY Constants
  <2> QED BY <1>1, <1>3, <2>2, <2>3 DEF Marks, Busy
<1>4. ASSUME Busy(o) = {}
      PROVE  /\ \A t \in Tsk : ~Drives(t, o)
             /\ dm.opn[o].waireqlst = <<>> /\ dm.opn[o].waitone = 0 /\ Calls(o) = 0
  <2>1. \A t \in Tsk : ~Drives(t, o)
    BY <1>3, <1>4
  <2>2. \A t \in Tsk : ~AnyWaits(t, o)
    BY <2>1 DEF AnyWaits, Drives, Driving
  <2>3. Waits(o) = {} /\ Cardinality({}) = 0
    BY <1>2, <1>4, FS_EmptySet
  <2> QED BY <1>1, <1>4, <2>1, <2>2, <2>3 DEF Waiting, Calls
<1>5. ASSUME Calls(o) = 0
      PROVE  Busy(o) = {}
  <2>1. Cardinality(Busy(o)) = 0
    BY <1>5 DEF Calls
  <2> QED BY <1>2, <2>1, FS_EmptySet
<1>6. ASSUME dm.opn[o].devcb = NoObj
      PROVE  dm.opn[o] = UnusedOpn /\ ReqOf(o) = {} /\ Busy(o) = {}
  <2>1. dm.opn[o] = UnusedOpn /\ UnusedOpn.requestq = <<>>
    BY <1>1, <1>6 DEF Marks, UnusedOpn
  <2>2. ToSet(<<>>) = {}
    BY EmptySeq DEF ToSet
  <2> QED BY <1>1, <2>1, <2>2 DEF Marks, Busy
<1>7. ASSUME \A t \in Tsk : Holds(t) => loc[t].o # o
      PROVE  dm.opn[o].sem = 0 /\ dm.opn[o].abort_tskid = NoObj
  BY <1>1, <1>7 DEF Signals, Counts, Holds, Holding, Aborting
<1> QED BY <1>2, <1>3, <1>4, <1>5, <1>6, <1>7

\* A step of a task that is not in the driver, and leaves the requests alone.
Others(t) == \A u \in Tsk \ {t} : pc'[u] = pc[u] /\ loc'[u] = loc[u]
Quiet(t, o) ==
    /\ pc[t] \notin Driving /\ pc'[t] \notin Driving /\ Others(t)
    /\ dm'.req = dm.req /\ dm'.freereq = dm.freereq
    /\ \A p \in OpnCB : p # o => dm'.opn[p] = dm.opn[p]
    /\ dm'.opn[o].requestq = dm.opn[o].requestq
    /\ dm'.opn[o].waireqlst = dm.opn[o].waireqlst /\ dm'.opn[o].waitone = dm.opn[o].waitone
    /\ dm'.opn[o].devcb = NoObj => dm'.opn[o] = UnusedOpn

LEMMA QuietKeeps ==
    ASSUME Typed, NEW t \in Tsk, NEW o \in OpnCB, Quiet(t, o), NEW p \in OpnCB, Block(p)
    PROVE  /\ Marks(p)' /\ Waiting(p)'
           /\ ReqOf(p)' = ReqOf(p) /\ Busy(p)' = Busy(p) /\ Calls(p)' = Calls(p)
           /\ p # o /\ At(t) # p /\ At(t)' # p => Signals(p)'
<1>1. Marks(p) /\ Waiting(p) /\ Signals(p)
  BY DEF Block
<1>2. /\ dm'.opn[p].requestq = dm.opn[p].requestq
      /\ dm'.opn[p].waireqlst = dm.opn[p].waireqlst /\ dm'.opn[p].waitone = dm.opn[p].waitone
      /\ dm'.opn[p].devcb = NoObj => dm'.opn[p] = UnusedOpn
  BY <1>1 DEF Quiet, Marks
<1>3. ReqOf(p)' = ReqOf(p) /\ Busy(p)' = Busy(p) /\ dm'.req = dm.req
  BY DEF Quiet, ReqOf, Busy
<1>4. \A u \in Tsk : /\ Drives(u, p)' <=> Drives(u, p)
                     /\ Drives(u, p) => pc'[u] = pc[u] /\ loc'[u] = loc[u]
  BY DEF Quiet, Others, Drives
<1>5. \A u \in Tsk : AnyWaits(u, p)' <=> AnyWaits(u, p)
  BY DEF Quiet, Others, AnyWaits, Driving
<1>6. \A r \in Busy(p) : dm.req[r].tskid \in Tsk
  BY DEF Busy, ReqOf, Typed, Tables, ReqRec
<1>7. \A r \in Busy(p) : Drives(dm.req[r].tskid, p)
  BY <1>1 DEF Marks
<1>8. Waits(p)' = Waits(p)
  BY <1>3, <1>4, <1>6, <1>7 DEF Waits
<1>9. Marks(p)'
  <2>1. \A r \in Busy(p) :
          LET u == dm.req[r].tskid IN (Drives(u, p) /\ r \in ToSet(loc[u].reqs))'
    <3>1. ASSUME NEW r \in Busy(p)
          PROVE  LET u == dm.req[r].tskid IN (Drives(u, p) /\ r \in ToSet(loc[u].reqs))'
      <4>1. PICK u \in Tsk : u = dm.req[r].tskid /\ Drives(u, p) /\ r \in ToSet(loc[u].reqs)
        BY <1>1, <1>6 DEF Marks
      <4>2. Drives(u, p)' /\ r \in ToSet(loc'[u].reqs)
        BY <1>4, <4>1
      <4> QED BY <1>3, <4>1, <4>2
    <3> QED BY <3>1
  <2>2. \A u \in Tsk : Drives(u, p)' =>
         /\ \A r \in ToSet(loc'[u].reqs) : r \in ReqOf(p) /\ dm'.req[r].tskid = u
         /\ ~loc'[u].any => loc'[u].reqs = <<Head(loc'[u].reqs)>>
         /\ pc'[u] = "exec" => ~loc'[u].any
    BY <1>1, <1>3, <1>4 DEF Marks
  <2> QED BY <1>1, <1>2, <1>3, <2>1, <2>2 DEF Marks
<1>10. Waiting(p)'
  <2>1. \A u \in Tsk : AnyWaits(u, p) => Drives(u, p)
    BY DEF AnyWaits, Drives, Driving
  <2> QED BY <1>1, <1>2, <1>4, <1>5, <1>8, <2>1 DEF Waiting
<1>11. Calls(p)' = Calls(p)
  BY <1>2, <1>3 DEF Calls
<1>12. ASSUME p # o, At(t) # p, At(t)' # p
       PROVE  Signals(p)'
  <2>1. \A u \in Tsk : /\ (Holds(u) /\ loc[u].o = p)' <=> Holds(u) /\ loc[u].o = p
                       /\ Holds(u) /\ loc[u].o = p => pc'[u] = pc[u] /\ loc'[u] = loc[u]
    BY <1>12 DEF Quiet, Others, At, Holds
  <2>2. dm'.opn[p] = dm.opn[p]
    BY <1>12 DEF Quiet
  <2>3. \A u \in Tsk : pc[u] \in Counts => Holds(u)
    BY DEF Counts, Holds, Holding, Aborting
  <2>4. dm.opn[p].abort_tskid # NoObj => \E u \in Tsk : pc'[u] \in Counts /\ loc'[u].o = p
    BY <1>1, <2>1, <2>3 DEF Signals
  <2>5. dm.opn[p].sem = 1 => \E u \in Tsk : (Holds(u) /\ loc[u].o = p)'
    BY <1>1, <2>1 DEF Signals
  <2>6. \A u \in Tsk : (Holds(u) /\ loc[u].o = p)' => Signalled(u, p)'
    BY <1>1, <1>3, <1>11, <2>1, <2>2 DEF Signals, Signalled
  <2> QED BY <1>1, <2>2, <2>4, <2>5, <2>6 DEF Signals
<1> QED BY <1>3, <1>9, <1>10, <1>11, <1>12

LEMMA QuietExact ==
    ASSUME Typed, ReqInv, NEW t \in Tsk, NEW o \in OpnCB, Quiet(t, o), Signals(o)',
           At(t) \in {o, NoObj}, At(t)' \in {o, NoObj}, told' \subseteq Tsk
    PROVE  ReqInv'
<1>1. NoObj \notin OpnCB
  BY Constants
<1>2. ASSUME NEW p \in OpnCB PROVE Block(p)'
  <2>1. Block(p)
    BY DEF ReqInv
  <2>2. /\ Marks(p)' /\ Waiting(p)'
        /\ ReqOf(p)' = ReqOf(p) /\ Busy(p)' = Busy(p) /\ Calls(p)' = Calls(p)
        /\ p # o /\ At(t) # p /\ At(t)' # p => Signals(p)'
    BY <2>1, QuietKeeps
  <2> QED BY <1>1, <2>2 DEF Block
<1>3. FreeReqs'
  BY DEF ReqInv, FreeReqs, Quiet, ReqOf
<1> QED BY <1>2, <1>3 DEF ReqInv

\* What a task that opens or closes has for itself.
LEMMA HolderFacts ==
    ASSUME Typed, OpnInv, NEW t \in Tsk, Holds(t)
    PROVE  /\ loc[t].o \in OpnCB /\ At(t) = loc[t].o /\ pc[t] \notin Driving
           /\ \A u \in Tsk : Holds(u) /\ loc[u].o = loc[t].o => u = t
<1>1. loc[t].o \in OpnCB /\ pc[t] \notin Driving
  BY DEF Typed, Controlled, Holds, Holding, Driving, Aborting
<1>2. \A u \in Tsk : Holds(u) /\ loc[u].o = loc[t].o => u = t
  BY DEF OpnInv, Holders
<1> QED BY <1>1, <1>2 DEF At, Holds

LEMMA GotoFacts ==
    ASSUME Typed, NEW t \in Tsk, NEW at, NEW l, Goto(t, at, l)
    PROVE  Others(t) /\ pc'[t] = at /\ loc'[t] = l
BY DEF Typed, Controlled, Goto, Others

\* Only t can hold the block o after the step.
LEMMA SoleSignals ==
    ASSUME NEW t \in Tsk, NEW o \in OpnCB,
           \A u \in Tsk : (Holds(u) /\ loc[u].o = o)' => u = t,
           dm'.opn[o].abort_cnt \in Nat, dm'.opn[o].sem \in {0, 1},
           (Holds(t) /\ loc[t].o = o)' => Signalled(t, o)',
           dm'.opn[o].sem = 1 => (Holds(t) /\ loc[t].o = o)',
           dm'.opn[o].abort_tskid # NoObj => pc'[t] \in Counts /\ loc'[t].o = o
    PROVE  Signals(o)'
BY DEF Signals

\* Nobody holds it, and it has no count and no signal.
LEMMA UnheldSignals ==
    ASSUME NEW o \in OpnCB, \A u \in Tsk : ~(Holds(u) /\ loc[u].o = o)',
           dm'.opn[o].abort_cnt \in Nat, dm'.opn[o].sem = 0, dm'.opn[o].abort_tskid = NoObj
    PROVE  Signals(o)'
BY DEF Signals

\* A step of the task t that holds o, and goes on holding it.
SignalChange(o) ==
    \/ dm' = dm
    \/ \E x : /\ OpnUpdate(dm', dm, o, x) /\ x.requestq = dm.opn[o].requestq
              /\ x.waireqlst = dm.opn[o].waireqlst /\ x.waitone = dm.opn[o].waitone
              /\ x.devcb = dm.opn[o].devcb /\ x.devcb # NoObj
SameCalls(o) == Calls(o)' = Calls(o) /\ Busy(o)' = Busy(o) /\ ReqOf(o)' = ReqOf(o)
NextSignal(t, o, at, l) ==
    (SameCalls(o) /\ pc'[t] = at /\ loc'[t] = l) => Signalled(t, o)'

LEMMA HolderExact ==
    ASSUME Typed, OpnInv, ReqInv, NEW t \in Tsk, Holds(t), NEW o, o = loc[t].o,
           NEW at \in Holding, NEW l, l.o = o, Goto(t, at, l), SignalChange(o),
           dm'.opn[o].abort_cnt \in Nat, dm'.opn[o].sem \in {0, 1},
           dm'.opn[o].abort_tskid # NoObj => at \in Counts,
           NextSignal(t, o, at, l), told' \subseteq Tsk
    PROVE  ReqInv'
<1>1. /\ o \in OpnCB /\ At(t) = o /\ pc[t] \notin Driving
      /\ \A u \in Tsk : Holds(u) /\ loc[u].o = o => u = t
  BY HolderFacts
<1>2. Others(t) /\ pc'[t] = at /\ loc'[t] = l
  BY GotoFacts
<1>3. dm.opn \in [OpnCB -> OpnRec] /\ Block(o)
  BY <1>1 DEF Typed, Tables, ReqInv
<1>4. Quiet(t, o)
  <2>1. at \notin Driving
    BY DEF Holding, Driving, Aborting
  <2>2. CASE dm' = dm
    BY <1>1, <1>2, <1>3, <2>1, <2>2 DEF Quiet, Block, Marks
  <2>3. CASE \E x : /\ OpnUpdate(dm', dm, o, x) /\ x.requestq = dm.opn[o].requestq
                    /\ x.waireqlst = dm.opn[o].waireqlst /\ x.waitone = dm.opn[o].waitone
                    /\ x.devcb = dm.opn[o].devcb /\ x.devcb # NoObj
    BY <1>1, <1>2, <1>3, <2>1, <2>3 DEF Quiet, OpnUpdate, SameReq
  <2> QED BY <2>2, <2>3 DEF SignalChange
<1>5. At(t)' = o /\ (Holds(t) /\ loc[t].o = o)'
  BY <1>2 DEF At, Holds
<1>6. ReqOf(o)' = ReqOf(o) /\ Busy(o)' = Busy(o) /\ Calls(o)' = Calls(o)
  BY <1>1, <1>3, <1>4, QuietKeeps
<1>7. \A u \in Tsk : (Holds(u) /\ loc[u].o = o)' => u = t
  BY <1>1, <1>2 DEF Others, Holds
<1>8. Signals(o)'
  <2>1. Signalled(t, o)'
    BY <1>2, <1>6 DEF NextSignal, SameCalls
  <2> QED BY <1>1, <1>2, <1>5, <1>7, <2>1, SoleSignals
<1> QED BY <1>1, <1>4, <1>5, <1>8, QuietExact

LEMMA AbortAllReqs ==
    ASSUME Typed, OpnInv, ReqInv, NEW t \in Tsk, AbortAllRequest(t)
    PROVE  ReqInv'
<1> DEFINE o == loc[t].o
           y == dm.opn[o]
           c == Cardinality(Aborted(o))
           x == [y EXCEPT !.abort_tskid = t, !.abort_cnt = c]
<1>1. /\ o \in OpnCB /\ IsFiniteSet(Aborted(o)) /\ Aborted(o) \subseteq ReqCB
      /\ OpnUpdate(dm', dm, o, x) /\ told' = told \cup {dm.req[r].tskid : r \in Aborted(o)}
  BY AbortAllTyped
<1>2. pc[t] = "abort" /\ Goto(t, "aborted", loc[t]) /\ Holds(t) /\ "aborted" \in Holding
      /\ "aborted" \in Counts
  BY DEF AbortAllRequest, Holds, Holding, Aborting, Counts
<1>3. y \in OpnRec /\ Block(o) /\ t # NoObj /\ dm.opn \in [OpnCB -> OpnRec]
  BY <1>1, Constants DEF Typed, Tables, ReqInv
<1>4. c \in Nat
  BY <1>1, FS_CardinalityType
<1>5. y.sem = 0 /\ y.devcb # NoObj /\ loc[t].reqs = <<>>
  BY <1>1, <1>2, <1>3 DEF Block, Signals, Signalled, OpnInv, Holders
<1>6. Aborted(o) \subseteq Busy(o) /\ Calls(o) = c
  <2>1. CASE y.waireqlst # <<>>
    <3>1. PICK u \in Tsk : AnyWaits(u, o)
      BY <1>3, <2>1 DEF Block, Waiting
    <3>2. y.waireqlst = loc[u].reqs
      BY <1>3, <3>1 DEF Block, Waiting
    <3>3. Drives(u, o)
      BY <3>1 DEF AnyWaits, Drives, Driving
    <3>4. Head(y.waireqlst) \in Busy(o)
      BY <1>1, <1>3, <3>2, <3>3, BlockFacts
    <3>5. Aborted(o) = {Head(y.waireqlst)}
      BY <2>1 DEF Aborted
    <3>6. Cardinality({Head(y.waireqlst)}) = 1
      BY FS_Singleton
    <3> QED BY <2>1, <3>4, <3>5, <3>6 DEF Calls
  <2>2. CASE y.waireqlst = <<>>
    <3>1. Aborted(o) = {r \in ToSet(y.requestq) : dm.req[r].tskid # NoObj}
      BY <2>2 DEF Aborted
    <3>2. Aborted(o) = Busy(o)
      BY <1>3, <3>1 DEF Block, Marks, Busy
    <3> QED BY <2>2, <3>2 DEF Calls
  <2> QED BY <2>1, <2>2
<1>7. told' \subseteq Tsk
  <2>1. \A r \in Busy(o) : dm.req[r].tskid \in Tsk
    BY DEF Busy, ReqOf, Typed, Tables, ReqRec
  <2> QED BY <1>1, <1>6, <2>1 DEF ReqInv
<1> HIDE DEF c
<1>8. /\ x.requestq = y.requestq /\ x.waireqlst = y.waireqlst /\ x.waitone = y.waitone
      /\ x.devcb = y.devcb /\ x.abort_cnt = c /\ x.abort_tskid = t /\ x.sem = y.sem
  BY <1>3 DEF OpnRec
<1> HIDE DEF x
<1>9. dm'.opn[o] = x
  BY <1>1, <1>3 DEF OpnUpdate
<1>10. dm'.opn[o].abort_cnt \in Nat /\ dm'.opn[o].sem \in {0, 1}
  BY <1>4, <1>5, <1>8, <1>9
<1>11. SignalChange(o)
  BY <1>1, <1>5, <1>8 DEF SignalChange
<1>12. NextSignal(t, o, "aborted", loc[t])
  <2> SUFFICES ASSUME SameCalls(o), pc'[t] = "aborted", loc'[t] = loc[t]
               PROVE  Signalled(t, o)'
    BY DEF NextSignal
  <2> QED BY <1>5, <1>6, <1>8, <1>9 DEF Signalled, SameCalls
<1> HIDE DEF y
<1>13. o = loc[t].o
  OBVIOUS
<1> HIDE DEF o
<1> QED BY <1>2, <1>7, <1>10, <1>11, <1>12, <1>13, HolderExact

\* What a task that aborts the calls of its device knows of them.
LEMMA HolderSignals ==
    ASSUME Typed, OpnInv, ReqInv, NEW t \in Tsk, Holds(t), NEW o, o = loc[t].o
    PROVE  /\ o \in OpnCB /\ dm.opn \in [OpnCB -> OpnRec] /\ dm.opn[o] \in OpnRec
           /\ Block(o) /\ Signalled(t, o)
           /\ dm.opn[o].abort_cnt \in Nat /\ dm.opn[o].sem \in {0, 1}
           /\ pc[t] # "closefn" => dm.opn[o].devcb # NoObj
           /\ dm.opn[o].abort_tskid # NoObj => pc[t] \in Counts
<1>1. o \in OpnCB /\ \A u \in Tsk : Holds(u) /\ loc[u].o = o => u = t
  BY HolderFacts
<1>2. Block(o) /\ Signals(o) /\ dm.opn \in [OpnCB -> OpnRec]
  BY <1>1 DEF ReqInv, Block, Typed, Tables
<1>3. pc[t] # "closefn" => dm.opn[o].devcb # NoObj
  BY <1>1 DEF OpnInv, Holders
<1>4. \A u \in Tsk : pc[u] \in Counts => Holds(u)
  BY DEF Counts, Holds, Holding, Aborting
<1> QED BY <1>1, <1>2, <1>3, <1>4 DEF Signals

LEMMA AbortStepReqs ==
    ASSUME Typed, OpnInv, ReqInv, NEW t \in Tsk, AbortTest(t) \/ AbortWait(t) \/ AbortEnd(t)
    PROVE  ReqInv'
<1> DEFINE o == loc[t].o
           y == dm.opn[o]
<1>1. Holds(t) /\ pc[t] \in Counts /\ told' \subseteq Tsk
  BY DEF AbortTest, AbortWait, AbortEnd, Holds, Holding, Aborting, Counts, ReqInv
<1>2. /\ o \in OpnCB /\ dm.opn \in [OpnCB -> OpnRec] /\ dm.opn[o] \in OpnRec
      /\ Block(o) /\ Signalled(t, o)
      /\ dm.opn[o].abort_cnt \in Nat /\ dm.opn[o].sem \in {0, 1}
      /\ pc[t] # "closefn" => dm.opn[o].devcb # NoObj
  BY <1>1, HolderSignals
<1>3. /\ y.devcb # NoObj /\ y.abort_tskid = t /\ y.abort_cnt = Calls(o)
      /\ loc[t].reqs = <<>>
  BY <1>1, <1>2 DEF Counts, Signalled
<1>4. CASE AbortTest(t)
  <2> DEFINE at == IF y.abort_cnt > 0 THEN "abtwai" ELSE "abtend"
  <2>1. Goto(t, at, loc[t]) /\ dm' = dm /\ at \in Holding /\ at \in Counts /\ pc[t] = "aborted"
    BY <1>4 DEF AbortTest, Holding, Aborting, Counts
  <2>2. NextSignal(t, o, at, loc[t])
    <3> SUFFICES ASSUME SameCalls(o), pc'[t] = at, loc'[t] = loc[t]
                 PROVE  Signalled(t, o)'
      BY DEF NextSignal
    <3> QED BY <1>2, <1>3, <2>1 DEF Signalled, SameCalls, Counts
  <2>3. SignalChange(o) /\ o = loc[t].o
    BY <2>1 DEF SignalChange
  <2>4. dm'.opn[o].abort_cnt \in Nat /\ dm'.opn[o].sem \in {0, 1}
    BY <1>2, <2>1
  <2> HIDE DEF at, o
  <2> QED BY <1>1, <2>1, <2>2, <2>3, <2>4, HolderExact
<1>5. CASE AbortWait(t)
  <2> DEFINE x == [y EXCEPT !.sem = y.sem - 1]
  <2>1. /\ Goto(t, "abtend", loc[t]) /\ pc[t] = "abtwai" /\ "abtend" \in Holding
        /\ OpnUpdate(dm', dm, o, x) /\ "abtend" \in Counts /\ y.sem > 0
    BY <1>5, AbortWaitTyped DEF AbortWait, Holding, Aborting, Counts
  <2>2. y.abort_cnt = 0 /\ y.sem = 1
    BY <1>2, <2>1 DEF Signalled
  <2>3. /\ x.requestq = y.requestq /\ x.waireqlst = y.waireqlst /\ x.waitone = y.waitone
        /\ x.devcb = y.devcb /\ x.abort_cnt = y.abort_cnt /\ x.abort_tskid = y.abort_tskid
        /\ x.sem = 0
    BY <1>2, <2>2 DEF OpnRec
  <2> HIDE DEF x
  <2>4. dm'.opn[o] = x
    BY <1>2, <2>1 DEF OpnUpdate
  <2>5. NextSignal(t, o, "abtend", loc[t])
    <3> SUFFICES ASSUME SameCalls(o), pc'[t] = "abtend", loc'[t] = loc[t]
                 PROVE  Signalled(t, o)'
      BY DEF NextSignal
    <3> QED BY <1>3, <2>2, <2>3, <2>4 DEF Signalled, SameCalls, Counts
  <2>6. SignalChange(o)
    BY <1>3, <2>1, <2>3 DEF SignalChange
  <2>7. dm'.opn[o].abort_cnt \in Nat /\ dm'.opn[o].sem \in {0, 1} /\ o = loc[t].o
    BY <1>2, <2>3, <2>4
  <2> HIDE DEF o, y
  <2> QED BY <1>1, <2>1, <2>5, <2>6, <2>7, HolderExact
<1>6. CASE AbortEnd(t)
  <2> DEFINE x == [y EXCEPT !.abort_tskid = NoObj]
  <2>1. /\ Goto(t, "drain", loc[t]) /\ pc[t] = "abtend" /\ "drain" \in Holding
        /\ OpnUpdate(dm', dm, o, x)
    BY <1>6, AbortEndTyped DEF AbortEnd, Holding
  <2>2. Busy(o) = {}
    BY <1>2, <1>3, <2>1, BlockFacts DEF Signalled
  <2>3. /\ x.requestq = y.requestq /\ x.waireqlst = y.waireqlst /\ x.waitone = y.waitone
        /\ x.devcb = y.devcb /\ x.abort_cnt = y.abort_cnt /\ x.abort_tskid = NoObj
        /\ x.sem = y.sem
    BY <1>2 DEF OpnRec
  <2> HIDE DEF x
  <2>4. dm'.opn[o] = x
    BY <1>2, <2>1 DEF OpnUpdate
  <2>5. NextSignal(t, o, "drain", loc[t])
    <3> SUFFICES ASSUME SameCalls(o), pc'[t] = "drain", loc'[t] = loc[t]
                 PROVE  Signalled(t, o)'
      BY DEF NextSignal
    <3> QED BY <1>3, <2>2, <2>3, <2>4 DEF Signalled, SameCalls, Counts
  <2>6. SignalChange(o)
    BY <1>3, <2>1, <2>3 DEF SignalChange
  <2>7. /\ dm'.opn[o].abort_cnt \in Nat /\ dm'.opn[o].sem \in {0, 1} /\ o = loc[t].o
        /\ dm'.opn[o].abort_tskid = NoObj
    BY <1>2, <2>3, <2>4
  <2> HIDE DEF o, y
  <2> QED BY <1>1, <2>1, <2>5, <2>6, <2>7, HolderExact
<1> QED BY <1>4, <1>5, <1>6

\* A block that nobody uses is taken, or comes back.
Empty(x) == x.requestq = <<>> /\ x.waireqlst = <<>> /\ x.waitone = 0
NoSignal(x) == x.abort_cnt = 0 /\ x.sem = 0 /\ x.abort_tskid = NoObj

LEMMA NewOpnEmpty ==
    /\ \A d, unit, omode : Empty(NewOpn(d, unit, omode)) /\ NoSignal(NewOpn(d, unit, omode))
    /\ Empty(UnusedOpn) /\ NoSignal(UnusedOpn) /\ UnusedOpn.devcb = NoObj
BY DEF NewOpn, UnusedOpn, Empty, NoSignal

\* One open control block gets a new content without requests.
EmptyUpdate(o) ==
    /\ Empty(dm.opn[o]) /\ Empty(dm'.opn[o])
    /\ \A p \in OpnCB : p # o => dm'.opn[p] = dm.opn[p]
    /\ dm'.opn[o].devcb = NoObj => dm'.opn[o] = UnusedOpn
    /\ SameReq(dm', dm)

LEMMA EmptyQuiet ==
    ASSUME NEW t \in Tsk, NEW o \in OpnCB, EmptyUpdate(o), Others(t),
           pc[t] \notin Driving, pc'[t] \notin Driving
    PROVE  Quiet(t, o)
BY DEF EmptyUpdate, Empty, Quiet, SameReq

LEMMA OpenReqs ==
    ASSUME Typed, OpnInv, ReqInv, NEW t \in Tsk, NEW nm \in Name, NEW unit \in Units,
           NEW omode \in OpenModes, OpnDev(t, nm, unit, omode)
    PROVE  ReqInv'
<1>1. PICK d \in ToSet(dm.used), o \in OpnCB :
        /\ ChkOpenMode(d, unit, omode)
        /\ dm.freeopn # <<>> /\ o = Head(dm.freeopn)
        /\ \/ /\ dm' = NewOpnCB(dm, o, d, unit, omode)
              /\ \E fn \in BOOLEAN : Goto(t, "open", [Idle EXCEPT !.o = o, !.fn = fn])
           \/ /\ dm' = DelOpnCB(NewOpnCB(dm, o, d, unit, omode), o, TRUE)
              /\ UNCHANGED <<pc, loc>>
  BY OpnDevTyped
<1> DEFINE x == NewOpn(d, unit, omode)
           n == NewOpnCB(dm, o, d, unit, omode)
           m == DelOpnCB(n, o, TRUE)
<1>2. dm \in Tables /\ dm.freeopn \in Seq(OpnCB) /\ dm.opn \in [OpnCB -> OpnRec] /\ Block(o)
  BY DEF Typed, Tables, ReqInv
<1>3. d \in DevCB
  BY <1>2, EntriesOf DEF Tables
<1>4. /\ SameRest(n, dm) /\ SameReq(n, dm) /\ n.opn = [dm.opn EXCEPT ![o] = x] /\ n \in Tables
  <2>1. dm \in Tables /\ o \in OpnCB /\ d \in DevCB /\ unit \in Units /\ omode \in OpenModes
    BY <1>2, <1>3
  <2>2. n \in Tables
    BY <1>1, <2>1, NewOpnTyped
  <2>3. /\ SameRest(n, dm) /\ SameReq(n, dm)
        /\ n.opn = [dm.opn EXCEPT ![o] = x]
        /\ n.dev = [dm.dev EXCEPT ![d].openq = Append(@, o)]
        /\ n.freeopn = Tail(dm.freeopn) /\ n.resq = Append(dm.resq, o)
    BY ONLY <2>1, NewOpnFields
  <2> QED BY <2>2, <2>3
<1>5. dm.opn[o] = UnusedOpn /\ Busy(o) = {} /\ \A u \in Tsk : ~(Holds(u) /\ loc[u].o = o)
  <2>1. o \in ToSet(dm.freeopn)
    BY <1>1, <1>2, TailSet
  <2>2. dm.opn[o].devcb = NoObj /\ \A u \in Tsk : ~(Holds(u) /\ loc[u].o = o)
    BY <2>1 DEF OpnInv, OpnTables, Holders
  <2> QED BY <1>2, <2>2, BlockFacts
<1>6. /\ Empty(x) /\ NoSignal(x) /\ x.devcb = d
      /\ Empty(UnusedOpn) /\ NoSignal(UnusedOpn) /\ UnusedOpn.devcb = NoObj
  BY NewOpnEmpty DEF NewOpn, UnusedOpn
<1>7. pc[t] = "out" /\ told' \subseteq Tsk /\ d # NoObj
  BY <1>3, Constants DEF OpnDev, ReqInv
<1>8. pc[t] \notin Driving /\ At(t) = NoObj
  BY <1>7 DEF Driving, Holding, Aborting, At
<1> HIDE DEF x
<1>9. CASE dm' = n /\ \E fn \in BOOLEAN : Goto(t, "open", [Idle EXCEPT !.o = o, !.fn = fn])
  <2>1. PICK fn \in BOOLEAN : Goto(t, "open", [Idle EXCEPT !.o = o, !.fn = fn])
    BY <1>9
  <2> DEFINE l == [Idle EXCEPT !.o = o, !.fn = fn]
  <2>2. l.o = o /\ l.reqs = <<>>
    BY Constants DEF Local, Idle
  <2>3. Goto(t, "open", l)
    BY <2>1
  <2> HIDE DEF l
  <2>4. Others(t) /\ pc'[t] = "open" /\ loc'[t] = l
    BY <2>3, GotoFacts
  <2> HIDE DEF n
  <2>5. dm'.opn[o] = x /\ EmptyUpdate(o)
    BY <1>2, <1>4, <1>5, <1>6, <1>7, <1>9 DEF EmptyUpdate
  <2>6. pc'[t] \notin Driving /\ At(t)' = o
    BY <2>2, <2>4 DEF Driving, Holding, Aborting, At
  <2>7. Quiet(t, o)
    BY <1>8, <2>4, <2>5, <2>6, EmptyQuiet
  <2>8. ReqOf(o)' = ReqOf(o) /\ Busy(o)' = Busy(o) /\ Calls(o)' = Calls(o)
    BY <1>2, <2>7, QuietKeeps
  <2>9. Signalled(t, o)'
    BY <1>5, <1>6, <2>2, <2>4, <2>5, <2>8 DEF Signalled, NoSignal, Empty, Counts
  <2>10. \A u \in Tsk : (Holds(u) /\ loc[u].o = o)' => u = t
    BY <1>5, <2>4 DEF Others, Holds
  <2>11. Signals(o)'
    BY <1>6, <2>5, <2>9, <2>10, SoleSignals DEF NoSignal
  <2> QED BY <1>7, <1>8, <2>6, <2>7, <2>11, QuietExact
<1>10. CASE dm' = m /\ UNCHANGED <<pc, loc>>
  <2> HIDE DEF n
  <2>1. SameReq(m, n) /\ m.opn = [n.opn EXCEPT ![o] = UnusedOpn]
    BY <1>4, DelOpnFields
  <2> HIDE DEF m
  <2>2. dm'.opn[o] = UnusedOpn /\ EmptyUpdate(o)
    BY <1>2, <1>4, <1>5, <1>6, <1>10, <2>1 DEF EmptyUpdate, SameReq
  <2>3. Quiet(t, o) /\ At(t)' = NoObj
    BY <1>8, <1>10, <2>2, EmptyQuiet DEF Others, At
  <2>4. \A u \in Tsk : ~(Holds(u) /\ loc[u].o = o)'
    BY <1>5, <1>10 DEF Holds
  <2>5. Signals(o)'
    BY <1>6, <2>2, <2>4, UnheldSignals DEF NoSignal
  <2> QED BY <1>7, <1>8, <2>3, <2>5, QuietExact
<1> QED BY <1>1, <1>9, <1>10

\* The end of an open, and the begin of a close.
LEMMA OpenEndReqs ==
    ASSUME Typed, OpnInv, ReqInv, NEW t \in Tsk, NEW ok \in BOOLEAN, OpnDevEnd(t, ok)
    PROVE  ReqInv'
<1> SUFFICES ASSUME NEW o, o = loc[t].o PROVE ReqInv'
  OBVIOUS
<1> DEFINE y == dm.opn[o]
           x == [y EXCEPT !.resid = 1]
<1>1. /\ pc[t] = "open" /\ Return(t) /\ told' = told /\ Holds(t)
      /\ \/ ok /\ OpnUpdate(dm', dm, o, x)
         \/ ~ok /\ dm' = DelOpnCB(dm, o, TRUE)
  BY EndOpenTyped DEF OpnDevEnd, Holds, Holding
<1>2. /\ o \in OpnCB /\ dm.opn \in [OpnCB -> OpnRec] /\ dm.opn[o] \in OpnRec
      /\ Block(o) /\ Signalled(t, o)
      /\ dm.opn[o].abort_cnt \in Nat /\ dm.opn[o].sem \in {0, 1}
      /\ pc[t] # "closefn" => dm.opn[o].devcb # NoObj
      /\ dm.opn[o].abort_tskid # NoObj => pc[t] \in Counts
  BY <1>1, HolderSignals
<1>3. /\ y.devcb # NoObj /\ y.abort_tskid = NoObj /\ y.sem = 0 /\ y.requestq = <<>>
      /\ Busy(o) = {}
  BY <1>1, <1>2 DEF Signalled, Counts
<1>4. Empty(y)
  BY <1>2, <1>3, BlockFacts DEF Empty
<1>5. Others(t) /\ pc'[t] = "out" /\ loc'[t] = Idle
  BY <1>1, GotoFacts DEF Return
<1>6. At(t) = o /\ At(t)' = NoObj /\ pc[t] \notin Driving /\ pc'[t] \notin Driving
  BY <1>1, <1>5 DEF At, Driving, Holding, Aborting
<1>7. \A u \in Tsk : ~(Holds(u) /\ loc[u].o = o)'
  <2>1. \A u \in Tsk : Holds(u) /\ loc[u].o = o => u = t
    BY <1>1, HolderFacts
  <2> QED BY <1>5, <2>1 DEF Others, Holds, Holding, Aborting
<1>8. told' \subseteq Tsk /\ dm \in Tables
  BY <1>1 DEF ReqInv, Typed
<1>9. CASE OpnUpdate(dm', dm, o, x)
  <2>1. /\ Empty(x) /\ x.devcb = y.devcb /\ x.abort_tskid = NoObj /\ x.sem = 0
        /\ x.abort_cnt = y.abort_cnt
    BY <1>2, <1>3, <1>4 DEF OpnRec, Empty
  <2> HIDE DEF x
  <2>2. dm'.opn[o] = x /\ EmptyUpdate(o)
    BY <1>2, <1>3, <1>4, <1>9, <2>1 DEF EmptyUpdate, OpnUpdate
  <2>3. Quiet(t, o)
    BY <1>2, <1>5, <1>6, <2>2, EmptyQuiet
  <2>4. Signals(o)'
    BY <1>2, <1>7, <2>1, <2>2, UnheldSignals
  <2> QED BY <1>2, <1>6, <1>8, <2>3, <2>4, QuietExact
<1>10. CASE dm' = DelOpnCB(dm, o, TRUE)
  <2>1. SameReq(dm', dm) /\ dm'.opn = [dm.opn EXCEPT ![o] = UnusedOpn]
    BY <1>2, <1>8, <1>10, DelOpnFields
  <2>2. Empty(UnusedOpn) /\ NoSignal(UnusedOpn) /\ UnusedOpn.devcb = NoObj
    BY NewOpnEmpty
  <2>3. dm'.opn[o] = UnusedOpn /\ EmptyUpdate(o)
    BY <1>2, <1>4, <2>1, <2>2 DEF EmptyUpdate
  <2>4. Quiet(t, o)
    BY <1>2, <1>5, <1>6, <2>3, EmptyQuiet
  <2>5. Signals(o)'
    BY <1>2, <1>7, <2>2, <2>3, UnheldSignals DEF NoSignal
  <2> QED BY <1>2, <1>6, <1>8, <2>4, <2>5, QuietExact
<1> QED BY <1>1, <1>9, <1>10

LEMMA BeginCloseReqs ==
    ASSUME Typed, OpnInv, ReqInv, NEW t \in Tsk, NEW o \in OpnCB, ClsDev(t, o)
    PROVE  ReqInv'
<1> DEFINE y == dm.opn[o]
           x == [y EXCEPT !.resid = 0]
           l == [Idle EXCEPT !.o = o]
<1>1. /\ pc[t] = "out" /\ Goto(t, "abort", l) /\ told' = told /\ y.resid = 1
      /\ OpnUpdate(dm', dm, o, x)
  BY ClsDevTyped DEF ClsDev
<1>2. l.o = o /\ l.reqs = <<>>
  BY Constants DEF Local, Idle
<1> HIDE DEF l
<1>3. /\ dm.opn \in [OpnCB -> OpnRec] /\ y \in OpnRec /\ Block(o) /\ told' \subseteq Tsk
  BY <1>1 DEF Typed, Tables, ReqInv
<1>4. \A u \in Tsk : Holds(u) => loc[u].o # o
  BY <1>1 DEF OpnInv, Holders
<1>5. y.sem = 0 /\ y.abort_tskid = NoObj /\ y.abort_cnt \in Nat /\ y.devcb # NoObj
  BY <1>1, <1>3, <1>4, BlockFacts DEF Block, Signals, UnusedOpn
<1>6. Others(t) /\ pc'[t] = "abort" /\ loc'[t] = l
  BY <1>1, GotoFacts
<1>7. At(t) = NoObj /\ At(t)' = o /\ pc[t] \notin Driving /\ pc'[t] \notin Driving
  BY <1>1, <1>2, <1>6 DEF At, Driving, Holding, Aborting
<1>8. \A u \in Tsk : (Holds(u) /\ loc[u].o = o)' => u = t
  BY <1>4, <1>6 DEF Others, Holds
<1>9. /\ x.requestq = y.requestq /\ x.waireqlst = y.waireqlst /\ x.waitone = y.waitone
      /\ x.devcb = y.devcb /\ x.abort_tskid = NoObj /\ x.sem = 0 /\ x.abort_cnt = y.abort_cnt
  BY <1>3, <1>5 DEF OpnRec
<1> HIDE DEF x
<1>10. dm'.opn[o] = x /\ Quiet(t, o)
  BY <1>1, <1>3, <1>5, <1>6, <1>7, <1>9 DEF Quiet, OpnUpdate, SameReq
<1>11. Signalled(t, o)'
  BY <1>2, <1>6, <1>9, <1>10 DEF Signalled, Counts
<1>12. Signals(o)'
  BY <1>5, <1>8, <1>9, <1>10, <1>11, SoleSignals
<1> QED BY <1>3, <1>7, <1>10, <1>12, QuietExact

LEMMA CloseDeviceReqs ==
    ASSUME Typed, OpnInv, ReqInv, NEW t \in Tsk, CloseDevice(t)
    PROVE  ReqInv'
<1> SUFFICES ASSUME NEW o, o = loc[t].o PROVE ReqInv'
  OBVIOUS
<1> DEFINE y == dm.opn[o]
<1>1. PICK fn \in BOOLEAN : Goto(t, "closefn", [loc[t] EXCEPT !.fn = fn])
  BY CloseDeviceTyped
<1> DEFINE l == [loc[t] EXCEPT !.fn = fn]
<1>2. /\ pc[t] = "close" /\ Goto(t, "closefn", l) /\ told' = told /\ Holds(t)
      /\ dm' = DelOpnCB(dm, o, FALSE)
  BY <1>1, CloseDeviceTyped DEF CloseDevice, Holds, Holding
<1>3. /\ o \in OpnCB /\ dm.opn \in [OpnCB -> OpnRec] /\ dm.opn[o] \in OpnRec
      /\ Block(o) /\ Signalled(t, o)
      /\ dm.opn[o].abort_cnt \in Nat /\ dm.opn[o].sem \in {0, 1}
      /\ pc[t] # "closefn" => dm.opn[o].devcb # NoObj
      /\ dm.opn[o].abort_tskid # NoObj => pc[t] \in Counts
  BY <1>2, HolderSignals
<1>4. y.requestq = <<>> /\ Busy(o) = {} /\ loc[t].reqs = <<>>
  BY <1>2, <1>3 DEF Signalled
<1>5. Empty(y)
  BY <1>3, <1>4, BlockFacts DEF Empty
<1>6. l.o = o /\ l.reqs = <<>>
  BY <1>4 DEF Typed, Controlled, Local
<1> HIDE DEF l
<1>7. Others(t) /\ pc'[t] = "closefn" /\ loc'[t] = l
  BY <1>2, GotoFacts
<1>8. At(t) = o /\ At(t)' = o /\ pc[t] \notin Driving /\ pc'[t] \notin Driving
  BY <1>2, <1>6, <1>7 DEF At, Driving, Holding, Aborting
<1>9. \A u \in Tsk : (Holds(u) /\ loc[u].o = o)' => u = t
  <2>1. \A u \in Tsk : Holds(u) /\ loc[u].o = o => u = t
    BY <1>2, HolderFacts
  <2> QED BY <1>7, <2>1 DEF Others, Holds
<1>10. told' \subseteq Tsk /\ dm \in Tables
  BY <1>2 DEF ReqInv, Typed
<1>11. SameReq(dm', dm) /\ dm'.opn = [dm.opn EXCEPT ![o] = UnusedOpn]
  BY <1>2, <1>3, <1>10, DelOpnFields
<1>12. Empty(UnusedOpn) /\ NoSignal(UnusedOpn) /\ UnusedOpn.devcb = NoObj
  BY NewOpnEmpty
<1>13. dm'.opn[o] = UnusedOpn /\ EmptyUpdate(o)
  BY <1>3, <1>5, <1>11, <1>12 DEF EmptyUpdate
<1>14. Quiet(t, o)
  BY <1>3, <1>7, <1>8, <1>13, EmptyQuiet
<1>15. Signalled(t, o)'
  BY <1>6, <1>7 DEF Signalled, Counts
<1>16. Signals(o)'
  BY <1>3, <1>9, <1>12, <1>13, <1>15, SoleSignals DEF NoSignal
<1> QED BY <1>3, <1>8, <1>10, <1>14, <1>16, QuietExact

\* A step of a task that is nowhere at work for a device, or none.
LEMMA StillReqs ==
    ASSUME Typed, ReqInv, dm'.opn = dm.opn, SameReq(dm', dm), told' = told,
           \A u \in Tsk : \/ pc'[u] = pc[u] /\ loc'[u] = loc[u]
                          \/ At(u) = NoObj /\ At(u)' = NoObj
    PROVE  ReqInv'
<1>1. NoObj \notin OpnCB
  BY Constants
<1>2. ASSUME NEW p \in OpnCB PROVE Block(p)'
  <2>1. Untouched(p)
    BY <1>1 DEF Untouched, SameReq
  <2> QED BY <2>1, UntouchedBlock DEF ReqInv
<1>3. FreeReqs'
  BY DEF ReqInv, FreeReqs, SameReq, ReqOf
<1> QED BY <1>2, <1>3 DEF ReqInv

LEMMA RegistrationReqs ==
    ASSUME Typed, ReqInv, NEW t \in Tsk, NEW nm \in Name,
           (\E ddev \in DDev[nm] : DefDev(t, nm, ddev)) \/ UndefDev(t, nm)
    PROVE  ReqInv'
<1>1. dm'.opn = dm.opn /\ SameReq(dm', dm)
  BY DefDevTyped, UndefDevTyped
<1>2. UNCHANGED <<pc, loc, told>>
  BY DEF DefDev, UndefDev
<1> QED BY <1>1, <1>2, StillReqs

LEMMA SuspendReqs ==
    ASSUME Typed, ReqInv, NEW t \in Tsk,
           \/ DisSus(t) \/ EnaSus(t) \/ (\E force \in BOOLEAN : SusDev(t, force))
           \/ SusLock(t) \/ SusEvent(t) \/ SusNext(t)
    PROVE  ReqInv'
<1>1. CASE DisSus(t) \/ EnaSus(t)
  <2>1. dm'.opn = dm.opn /\ SameReq(dm', dm) /\ UNCHANGED <<pc, loc, told>>
    BY <1>1, SuspendCountTyped DEF Counting, DisSus, EnaSus
  <2> QED BY <2>1, StillReqs
<1>2. CASE (\E force \in BOOLEAN : SusDev(t, force)) \/ SusLock(t) \/ SusEvent(t) \/ SusNext(t)
  <2>1. dm' = dm /\ told' = told
    BY <1>2 DEF SusDev, SusLock, SusEvent, SusNext
  <2>2. /\ pc[t] \in {"out", "sus", "susev"}
        /\ \E at \in {"out", "sus", "susev"} : \E l : Goto(t, at, l)
    BY <1>2 DEF SusDev, SusLock, SusEvent, SusNext, Return
  <2>3. PICK at \in {"out", "sus", "susev"} : \E l : Goto(t, at, l)
    BY <2>2
  <2>4. Others(t) /\ pc'[t] = at
    BY <2>3, GotoFacts
  <2>5. At(t) = NoObj /\ At(t)' = NoObj
    BY <2>2, <2>4 DEF At, Holding, Aborting, Driving
  <2> QED BY <2>1, <2>4, <2>5, StillReqs DEF Others, SameReq
<1> QED BY <1>1, <1>2

\* The next device of the shutdown.
LEMMA CloseNextReqs ==
    ASSUME Typed, OpnInv, ReqInv, NEW t \in Tsk, NEW k \in Tables, OpnTables(k), k.opn = dm.opn,
           SameReq(k, dm), CloseNext(t, k), \A u \in Tsk : u # t => pc[u] = "out",
           pc[t] \in {"out", "closefn"}, told' = told
    PROVE  ReqInv'
<1>1. PICK o \in ToSet(k.resq) :
        /\ OpnUpdate(dm', k, o, [k.opn[o] EXCEPT !.resid = 0])
        /\ Goto(t, "abort", [Idle EXCEPT !.o = o, !.all = TRUE])
  BY DEF CloseNext
<1> DEFINE y == dm.opn[o]
           x == [y EXCEPT !.resid = 0]
           l == [Idle EXCEPT !.o = o, !.all = TRUE]
<1>2. o \in OpnCB /\ y.devcb # NoObj
  <2>1. o \in OpnCB
    BY EntriesOf DEF Tables
  <2> QED BY <2>1 DEF OpnTables
<1>3. l.o = o /\ l.reqs = <<>>
  BY Constants DEF Local, Idle
<1>4. Goto(t, "abort", l) /\ OpnUpdate(dm', k, o, x)
  BY <1>1
<1> HIDE DEF l
<1>5. dm.opn \in [OpnCB -> OpnRec] /\ y \in OpnRec /\ told' \subseteq Tsk
  BY <1>2 DEF Typed, Tables, ReqInv
<1>6. Others(t) /\ pc'[t] = "abort" /\ loc'[t] = l
  BY <1>4, GotoFacts
<1>7. \A p \in OpnCB, u \in Tsk : Holds(u) /\ loc[u].o = p => u = t /\ dm.opn[p].devcb = NoObj
  BY DEF OpnInv, Holders, Holds, Holding, Aborting
<1>8. ASSUME NEW p \in OpnCB
      PROVE  /\ dm.opn[p].sem = 0 /\ dm.opn[p].abort_tskid = NoObj
             /\ dm.opn[p].abort_cnt \in Nat
  <2>1. Block(p)
    BY DEF ReqInv
  <2>2. CASE dm.opn[p].devcb = NoObj
    BY <2>1, <2>2, BlockFacts DEF UnusedOpn
  <2>3. CASE dm.opn[p].devcb # NoObj
    <3>1. \A u \in Tsk : Holds(u) => loc[u].o # p
      BY <1>7, <2>3
    <3> QED BY <2>1, <3>1, BlockFacts DEF Block, Signals
  <2> QED BY <2>2, <2>3
<1>9. /\ x.requestq = y.requestq /\ x.waireqlst = y.waireqlst /\ x.waitone = y.waitone
      /\ x.devcb = y.devcb /\ x.abort_tskid = y.abort_tskid /\ x.sem = y.sem
      /\ x.abort_cnt = y.abort_cnt
  BY <1>5 DEF OpnRec
<1> HIDE DEF x
<1>10. /\ dm'.opn[o] = x /\ \A p \in OpnCB : p # o => dm'.opn[p] = dm.opn[p]
       /\ SameReq(dm', dm)
  BY <1>2, <1>4, <1>5 DEF OpnUpdate, SameReq
<1>11. pc[t] \notin Driving /\ pc'[t] \notin Driving
  BY <1>6 DEF Driving
<1>12. Quiet(t, o)
  BY <1>2, <1>6, <1>9, <1>10, <1>11 DEF Quiet, SameReq
<1>13. ASSUME NEW p \in OpnCB PROVE Block(p)'
  <2>1. Block(p)
    BY DEF ReqInv
  <2>2. Marks(p)' /\ Waiting(p)'
    BY <1>2, <1>12, <2>1, QuietKeeps
  <2>3. CASE p = o
    <3>1. Signalled(t, o)'
      BY <1>2, <1>3, <1>6, <1>8, <1>9, <1>10 DEF Signalled, Counts
    <3>2. \A u \in Tsk : (Holds(u) /\ loc[u].o = o)' => u = t
      BY <1>6 DEF Others, Holds, Holding, Aborting
    <3>3. dm'.opn[o].abort_cnt \in Nat /\ dm'.opn[o].sem = 0 /\ dm'.opn[o].abort_tskid = NoObj
      BY <1>2, <1>8, <1>9, <1>10
    <3>4. Signals(o)'
      BY <1>2, <3>1, <3>2, <3>3, SoleSignals
    <3> QED BY <2>2, <2>3, <3>4 DEF Block
  <2>4. CASE p # o
    <3>1. \A u \in Tsk : ~(Holds(u) /\ loc[u].o = p)'
      BY <1>3, <1>6, <2>4 DEF Others, Holds, Holding, Aborting
    <3>2. Signals(p)'
      BY <1>8, <1>10, <2>4, <3>1, UnheldSignals
    <3> QED BY <2>2, <3>2 DEF Block
  <2> QED BY <2>3, <2>4
<1>14. FreeReqs'
  BY <1>10 DEF ReqInv, FreeReqs, SameReq, ReqOf
<1> QED BY <1>5, <1>13, <1>14 DEF ReqInv

LEMMA CloseEndReqs ==
    ASSUME Typed, OpnInv, Modes(dm), ReqInv, AloneAtShutdown, NEW t \in Tsk, CloseEnd(t)
    PROVE  ReqInv'
<1> SUFFICES ASSUME NEW o, o = loc[t].o PROVE ReqInv'
  OBVIOUS
<1>1. PICK k \in Tables :
        /\ Freed(k, o)
        /\ \/ dm' = k /\ Return(t)
           \/ loc[t].all /\ CloseNext(t, k)
  BY CloseEndTyped
<1>2. pc[t] = "closefn" /\ told' = told /\ Holds(t)
  BY DEF CloseEnd, Holds, Holding
<1>3. /\ o \in OpnCB /\ At(t) = o /\ \A u \in Tsk : Holds(u) /\ loc[u].o = o => u = t
  BY <1>2, HolderFacts
<1>4. dm.opn[o].devcb = NoObj /\ o \notin ToSet(dm.freeopn)
  BY <1>2 DEF OpnInv, Holders
<1>5. /\ OpnTables(k) /\ Modes(k) /\ k.opn = dm.opn
      /\ ToSet(k.freeopn) = ToSet(dm.freeopn) \cup {o}
  BY <1>1, <1>3, <1>4, FreedTables DEF Typed, OpnInv
<1>6. SameReq(k, dm)
  BY <1>1 DEF Freed
<1>7. CASE dm' = k /\ Return(t)
  <2>1. Others(t) /\ pc'[t] = "out" /\ loc'[t] = Idle
    BY <1>7, GotoFacts DEF Return
  <2>2. pc[t] \notin Driving /\ pc'[t] \notin Driving /\ At(t)' = NoObj
    BY <1>2, <2>1 DEF Driving, Holding, Aborting, At
  <2>3. dm.opn[o] = UnusedOpn
    BY <1>3, <1>4, BlockFacts DEF ReqInv
  <2>4. Quiet(t, o)
    BY <1>5, <1>6, <1>7, <2>1, <2>2, <2>3 DEF Quiet, SameReq
  <2>5. \A u \in Tsk : ~(Holds(u) /\ loc[u].o = o)'
    BY <1>3, <2>1 DEF Others, Holds, Holding, Aborting
  <2>6. Signals(o)'
    BY <1>3, <1>5, <1>7, <2>3, <2>5, UnheldSignals DEF UnusedOpn
  <2>7. told' \subseteq Tsk
    BY <1>2 DEF ReqInv
  <2> QED BY <1>3, <2>2, <2>4, <2>6, <2>7, QuietExact
<1>8. CASE loc[t].all /\ CloseNext(t, k)
  <2>1. \A u \in Tsk : u # t => pc[u] = "out"
    BY <1>8 DEF AloneAtShutdown
  <2> QED BY <1>2, <1>5, <1>6, <1>8, <2>1, CloseNextReqs
<1> QED BY <1>1, <1>7, <1>8

LEMMA CleanupReqs ==
    ASSUME Typed, OpnInv, Modes(dm), ReqInv, NEW t \in Tsk, DevmgrCleanup(t)
    PROVE  ReqInv'
<1>1. PICK k \in Tables :
        /\ Counting(k)
        /\ \/ dm' = k /\ UNCHANGED <<pc, loc>>
           \/ CloseNext(t, k)
  BY CleanupTyped
<1>2. (\A u \in Tsk : pc[u] = "out") /\ told' = told
  BY DEF DevmgrCleanup
<1>3. k.opn = dm.opn /\ SameReq(k, dm) /\ OpnTables(k)
  BY <1>1, CountingExact DEF Counting
<1>4. CASE dm' = k /\ UNCHANGED <<pc, loc>>
  BY <1>2, <1>3, <1>4, StillReqs
<1>5. CASE CloseNext(t, k)
  BY <1>2, <1>3, <1>5, CloseNextReqs
<1> QED BY <1>1, <1>4, <1>5

\* A step of task t about the requests of o only.
Only(t, o) ==
    /\ Others(t) /\ At(t) \in {o, NoObj} /\ At(t)' \in {o, NoObj}
    /\ \A p \in OpnCB : p # o => dm'.opn[p] = dm.opn[p]
    /\ \A r \in ReqCB : \/ dm'.req[r] = dm.req[r]
                        \/ dm.req[r].opncb \in {o, NoObj} /\ dm'.req[r].opncb \in {o, NoObj}

LEMMA OnlyExact ==
    ASSUME Typed, ReqInv, NEW t \in Tsk, NEW o \in OpnCB, Only(t, o), Block(o)', FreeReqs',
           told' \subseteq Tsk
    PROVE  ReqInv'
<1>1. NoObj \notin OpnCB
  BY Constants
<1>2. ASSUME NEW p \in OpnCB PROVE Block(p)'
  <2>1. CASE p # o
    <3>1. Untouched(p)
      BY <1>1, <2>1 DEF Only, Others, Untouched
    <3> QED BY <3>1, UntouchedBlock DEF ReqInv
  <2> QED BY <2>1
<1> QED BY <1>2 DEF ReqInv

\* The request queues of the tables k, and of those where r is deleted.
ReqsOf(k, o) == {r \in ReqCB : k.req[r].opncb = o}
Queued(k, o) ==
    /\ IsInjective(k.opn[o].requestq) /\ ToSet(k.opn[o].requestq) = ReqsOf(k, o)
    /\ IsInjective(k.freereq) /\ ToSet(k.freereq) = ReqsOf(k, NoObj)
SameCalling(x, y) ==
    /\ x.devcb = y.devcb /\ x.waireqlst = y.waireqlst /\ x.waitone = y.waitone
    /\ x.abort_tskid = y.abort_tskid /\ x.abort_cnt = y.abort_cnt /\ x.sem = y.sem
Dropped(n, k, o, r) ==
    /\ Queued(n, o) /\ SameCalling(n.opn[o], k.opn[o])
    /\ \A p \in OpnCB : p # o => n.opn[p] = k.opn[p]
    /\ n.req[r] = UnusedReq /\ \A s \in ReqCB : s # r => n.req[s] = k.req[s]

LEMMA DelReqQueues ==
    ASSUME NEW k \in Tables, NEW o \in OpnCB, NEW r \in ReqCB, k.req[r].opncb = o, Queued(k, o)
    PROVE  Dropped(DelReqCB(k, r), k, o, r)
<1> DEFINE n == DelReqCB(k, r)
           y == k.opn[o]
           q == QueRemove(y.requestq, r)
<1>1. /\ k.freereq \in Seq(ReqCB) /\ k.req \in [ReqCB -> ReqRec] /\ k.opn \in [OpnCB -> OpnRec]
      /\ y.requestq \in Seq(ReqCB) /\ NoObj \notin OpnCB /\ y \in OpnRec
  BY Constants DEF Tables, OpnRec
<1>2. /\ n.opn = [k.opn EXCEPT ![k.req[r].opncb].requestq = QueRemove(@, r)]
      /\ n.req = [k.req EXCEPT ![r] = UnusedReq]
      /\ n.freereq = Append(k.freereq, r)
  BY DelReqFields
<1>3. n.opn = [k.opn EXCEPT ![o].requestq = QueRemove(@, r)]
  BY <1>2
<1>4. /\ r \in ToSet(y.requestq) /\ r \notin ToSet(k.freereq)
  BY <1>1 DEF Queued, ReqsOf
<1>5. IsInjective(q) /\ ToSet(q) = ToSet(y.requestq) \ {r}
  BY <1>1, QueRemoveEntry DEF Queued
<1>6. IsInjective(Append(k.freereq, r)) /\ ToSet(Append(k.freereq, r)) = ToSet(k.freereq) \cup {r}
  BY <1>1, <1>4, AppendOne DEF Queued
<1> DEFINE x == [y EXCEPT !.requestq = q]
<1>7. n.opn[o] = x /\ \A p \in OpnCB : p # o => n.opn[p] = k.opn[p]
  BY <1>1, <1>3
<1> HIDE DEF q
<1>8. x.requestq = q /\ SameCalling(x, y)
  BY <1>1 DEF OpnRec, SameCalling
<1> HIDE DEF x, n
<1>9. n.req[r] = UnusedReq /\ \A s \in ReqCB : s # r => n.req[s] = k.req[s]
  BY <1>1, <1>2
<1>10. ReqsOf(n, o) = ReqsOf(k, o) \ {r} /\ ReqsOf(n, NoObj) = ReqsOf(k, NoObj) \cup {r}
  BY <1>1, <1>9 DEF ReqsOf, UnusedReq
<1>11. Queued(n, o)
  BY <1>2, <1>5, <1>6, <1>7, <1>8, <1>10 DEF Queued
<1> QED BY <1>7, <1>8, <1>9, <1>11 DEF Dropped, n

LEMMA QueuedNow ==
    ASSUME ReqInv, NEW o \in OpnCB
    PROVE  /\ Queued(dm, o) /\ ReqsOf(dm, o) = ReqOf(o)
           /\ Queued(dm', o) => FreeReqs' /\ IsInjective(dm'.opn[o].requestq)
                                /\ ToSet(dm'.opn[o].requestq) = ReqOf(o)'
BY DEF ReqInv, FreeReqs, Block, Marks, Queued, ReqsOf, ReqOf

\* No task is in the driver for the block o.
LEMMA DrainedMarks ==
    ASSUME NEW o \in OpnCB, Busy(o)' = {}, \A u \in Tsk : ~Drives(u, o)',
           IsInjective(dm'.opn[o].requestq), ToSet(dm'.opn[o].requestq) = ReqOf(o)',
           dm'.opn[o].devcb # NoObj, dm'.opn[o].waireqlst = <<>>, dm'.opn[o].waitone = 0
    PROVE  Marks(o)' /\ Waiting(o)'
<1>1. Marks(o)'
  BY DEF Marks
<1>2. \A u \in Tsk : ~AnyWaits(u, o)'
  BY DEF AnyWaits, Drives, Driving
<1>3. Waits(o)' = {}
  BY DEF Waits
<1> QED BY <1>1, <1>2, <1>3, FS_EmptySet DEF Waiting

LEMMA DrainReqs ==
    ASSUME Typed, OpnInv, ReqInv, NEW t \in Tsk, AbortRest(t)
    PROVE  ReqInv'
<1> SUFFICES ASSUME NEW o, o = loc[t].o PROVE ReqInv'
  OBVIOUS
<1> DEFINE y == dm.opn[o]
           r == Head(loc[t].reqs)
           left == dm'.opn[o].requestq
<1>1. /\ pc[t] = "drain" /\ Holds(t) /\ told' \subseteq Tsk
      /\ \/ dm' = dm
         \/ loc[t].reqs # <<>> /\ r \in ReqCB /\ dm' = DelReqCB(dm, r)
      /\ \/ left = <<>> /\ Goto(t, "close", [loc[t] EXCEPT !.reqs = <<>>])
         \/ left # <<>> /\ Goto(t, "drain", [loc[t] EXCEPT !.reqs = <<Head(left)>>])
  BY AbortRestTyped DEF AbortRest, Holds, Holding, ReqInv
<1>2. /\ o \in OpnCB /\ dm.opn \in [OpnCB -> OpnRec] /\ dm.opn[o] \in OpnRec
      /\ Block(o) /\ Signalled(t, o)
      /\ dm.opn[o].abort_cnt \in Nat /\ dm.opn[o].sem \in {0, 1}
      /\ pc[t] # "closefn" => dm.opn[o].devcb # NoObj
      /\ dm.opn[o].abort_tskid # NoObj => pc[t] \in Counts
  BY <1>1, HolderSignals
<1>3. /\ y.devcb # NoObj /\ y.abort_tskid = NoObj /\ Busy(o) = {}
      /\ loc[t].reqs # <<>> => r \in ReqOf(o)
  BY <1>1, <1>2 DEF Signalled, Counts
<1>4. (\A u \in Tsk : ~Drives(u, o)) /\ y.waireqlst = <<>> /\ y.waitone = 0
  BY <1>2, <1>3, BlockFacts
<1>5. \E at \in {"drain", "close"} : \E l :
        /\ Goto(t, at, l) /\ l.o = o
        /\ at = "close" => left = <<>> /\ l.reqs = <<>>
        /\ at = "drain" => left # <<>> /\ Head(l.reqs) = Head(left)
  <2>1. loc[t] \in Local
    BY DEF Typed, Controlled
  <2>2. CASE left = <<>> /\ Goto(t, "close", [loc[t] EXCEPT !.reqs = <<>>])
    <3> DEFINE l == [loc[t] EXCEPT !.reqs = <<>>]
    <3>1. l.o = o /\ l.reqs = <<>>
      BY <2>1 DEF Local
    <3> HIDE DEF left
    <3> QED BY <2>2, <3>1
  <2>3. CASE left # <<>> /\ Goto(t, "drain", [loc[t] EXCEPT !.reqs = <<Head(left)>>])
    <3> DEFINE l == [loc[t] EXCEPT !.reqs = <<Head(left)>>]
    <3> HIDE DEF left
    <3>1. l.o = o /\ Head(l.reqs) = Head(left)
      BY <2>1 DEF Local
    <3> QED BY <2>3, <3>1
  <2> QED BY <1>1, <2>2, <2>3
<1>6. PICK at \in {"drain", "close"} : \E l :
        /\ Goto(t, at, l) /\ l.o = o
        /\ at = "close" => left = <<>> /\ l.reqs = <<>>
        /\ at = "drain" => left # <<>> /\ Head(l.reqs) = Head(left)
  BY <1>5
<1>7. PICK l : /\ Goto(t, at, l) /\ l.o = o
               /\ at = "close" => left = <<>> /\ l.reqs = <<>>
               /\ at = "drain" => left # <<>> /\ Head(l.reqs) = Head(left)
  BY <1>6
<1>8. Others(t) /\ pc'[t] = at /\ loc'[t] = l
  BY <1>7, GotoFacts
<1>9. At(t) = o /\ At(t)' = o /\ \A u \in Tsk : ~Drives(u, o)'
  BY <1>1, <1>4, <1>7, <1>8 DEF At, Others, Drives, Driving, Holding, Aborting
<1>10. /\ Queued(dm', o) /\ SameCalling(dm'.opn[o], y)
       /\ \A p \in OpnCB : p # o => dm'.opn[p] = dm.opn[p]
       /\ \A s \in ReqCB : \/ dm'.req[s] = dm.req[s]
                           \/ dm.req[s].opncb = o /\ dm'.req[s] = UnusedReq
  <2>1. Queued(dm, o)
    BY <1>2, QueuedNow
  <2>2. CASE dm' = dm
    BY <2>1, <2>2 DEF SameCalling
  <2>3. CASE loc[t].reqs # <<>> /\ r \in ReqCB /\ dm' = DelReqCB(dm, r)
    <3>1. dm.req[r].opncb = o
      BY <1>3, <2>3 DEF ReqOf
    <3>2. Dropped(DelReqCB(dm, r), dm, o, r)
      <4>1. dm \in Tables
        BY DEF Typed
      <4> HIDE DEF r
      <4> QED BY <1>2, <2>1, <2>3, <3>1, <4>1, DelReqQueues
    <3> QED BY <2>3, <3>1, <3>2 DEF Dropped
  <2> QED BY <1>1, <2>2, <2>3
<1>11. /\ FreeReqs' /\ IsInjective(dm'.opn[o].requestq)
       /\ ToSet(dm'.opn[o].requestq) = ReqOf(o)'
  BY <1>2, <1>10, QueuedNow
<1>12. Busy(o)' = {}
  BY <1>3, <1>10 DEF Busy, ReqOf, UnusedReq
<1>13. Marks(o)' /\ Waiting(o)'
  BY <1>2, <1>3, <1>4, <1>9, <1>10, <1>11, <1>12, DrainedMarks DEF SameCalling
<1>14. Signals(o)'
  <2>1. \A u \in Tsk : (Holds(u) /\ loc[u].o = o)' => u = t
    <3>1. \A u \in Tsk : Holds(u) /\ loc[u].o = o => u = t
      BY <1>1, HolderFacts
    <3> QED BY <1>8, <3>1 DEF Others, Holds
  <2>2. at = "drain" => Head(l.reqs) \in ReqOf(o)'
    <3>1. dm'.opn[o].requestq \in Seq(ReqCB)
      BY <1>2, AbortRestTyped DEF Typed, Tables, OpnRec
    <3> QED BY <1>7, <1>11, <3>1, EntriesOf
  <2>3. Signalled(t, o)'
    BY <1>7, <1>8, <1>12, <2>2 DEF Signalled, Counts
  <2>4. /\ dm'.opn[o].abort_cnt \in Nat /\ dm'.opn[o].sem \in {0, 1}
        /\ dm'.opn[o].abort_tskid = NoObj
    BY <1>2, <1>3, <1>10 DEF SameCalling
  <2>5. (Holds(t) /\ loc[t].o = o)'
    BY <1>7, <1>8 DEF Holds, Holding
  <2> QED BY <1>2, <2>1, <2>3, <2>4, <2>5, SoleSignals
<1>15. Only(t, o)
  BY <1>8, <1>9, <1>10 DEF Only, UnusedReq
<1>16. Block(o)'
  BY <1>13, <1>14 DEF Block
<1> QED BY <1>1, <1>2, <1>11, <1>15, <1>16, OnlyExact

\* A request that a task executes or waits for, and what that task has.
Driven(r, o) ==
    \E u \in Tsk : u = dm.req[r].tskid /\ Drives(u, o) /\ r \in ToSet(loc[u].reqs)
Owns(u, o) ==
    /\ \A r \in ToSet(loc[u].reqs) : r \in ReqOf(o) /\ dm.req[r].tskid = u
    /\ ~loc[u].any => loc[u].reqs = <<Head(loc[u].reqs)>>
    /\ pc[u] = "exec" => ~loc[u].any

LEMMA MarksNow ==
    ASSUME Typed, NEW o \in OpnCB, Marks(o)
    PROVE  /\ \A r \in Busy(o) : Driven(r, o)
           /\ \A u \in Tsk : Drives(u, o) => Owns(u, o)
<1>1. \A r \in Busy(o) : dm.req[r].tskid \in Tsk
  BY DEF Busy, ReqOf, Typed, Tables, ReqRec
<1> QED BY <1>1 DEF Marks, Driven, Owns

LEMMA MarksOf ==
    ASSUME NEW o \in OpnCB, dm'.opn[o].devcb # NoObj,
           IsInjective(dm'.opn[o].requestq), ToSet(dm'.opn[o].requestq) = ReqOf(o)',
           \A r \in Busy(o)' : Driven(r, o)',
           \A u \in Tsk : Drives(u, o)' => Owns(u, o)'
    PROVE  Marks(o)'
<1>1. \A r \in Busy(o)' : (LET u == dm.req[r].tskid IN Drives(u, o) /\ r \in ToSet(loc[u].reqs))'
  BY DEF Driven, Drives
<1>2. \A u \in Tsk : Drives(u, o)' =>
         /\ \A r \in ToSet(loc'[u].reqs) : r \in ReqOf(o)' /\ dm'.req[r].tskid = u
         /\ ~loc'[u].any => loc'[u].reqs = <<Head(loc'[u].reqs)>>
         /\ pc'[u] = "exec" => ~loc'[u].any
  BY DEF Owns
<1> QED BY <1>1, <1>2 DEF Marks

\* A task that is in the driver all along, and whose requests stay as they are.
LEMMA StillOwns ==
    ASSUME NEW o \in OpnCB, NEW u \in Tsk, Owns(u, o), pc'[u] = pc[u], loc'[u] = loc[u],
           \A r \in ToSet(loc[u].reqs) : dm'.req[r] = dm.req[r]
    PROVE  Owns(u, o)'
BY DEF Owns, ReqOf

LEMMA StillDriven ==
    ASSUME NEW o \in OpnCB, NEW r, dm'.req[r] = dm.req[r], NEW t \in Tsk, Others(t),
           Driven(r, o), dm.req[r].tskid # t
    PROVE  Driven(r, o)'
<1>1. PICK u \in Tsk : u = dm.req[r].tskid /\ Drives(u, o) /\ r \in ToSet(loc[u].reqs)
  BY DEF Driven
<1>2. pc'[u] = pc[u] /\ loc'[u] = loc[u] /\ u = dm'.req[r].tskid
  BY <1>1 DEF Others
<1>3. Drives(u, o)' /\ r \in ToSet(loc'[u].reqs)
  BY <1>1, <1>2 DEF Drives
<1> QED BY <1>2, <1>3 DEF Driven

\* Nothing is counted or signalled.
SameSignal(o) ==
    /\ dm'.opn[o].abort_tskid = dm.opn[o].abort_tskid /\ dm'.opn[o].sem = dm.opn[o].sem
    /\ dm'.opn[o].abort_cnt = dm.opn[o].abort_cnt

\* A task comes into the driver for o, which nobody closes: nobody holds it.
LEMMA UnheldBlock ==
    ASSUME Typed, OpnInv, ReqInv, NEW o \in OpnCB, dm.opn[o].resid = 1,
           NEW t \in Tsk, pc[t] = "out", Others(t), pc'[t] \in Driving, SameSignal(o)
    PROVE  Signals(o)' /\ dm.opn[o].devcb # NoObj /\ Block(o)
<1>1. \A u \in Tsk : Holds(u) => loc[u].o # o
  BY DEF OpnInv, Holders
<1>2. Block(o)
  BY DEF ReqInv
<1>3. dm.opn[o].sem = 0 /\ dm.opn[o].abort_tskid = NoObj
  BY <1>1, <1>2, BlockFacts
<1>4. dm.opn[o].devcb # NoObj /\ dm.opn[o].abort_cnt \in Nat
  BY <1>2 DEF OpnInv, OpnTables, Block, Signals
<1>5. \A u \in Tsk : ~(Holds(u) /\ loc[u].o = o)'
  BY <1>1 DEF Others, Holds, Holding, Aborting, Driving
<1>6. Signals(o)'
  BY <1>3, <1>4, <1>5, UnheldSignals DEF SameSignal
<1> QED BY <1>2, <1>4, <1>6

LEMMA RequestReqs ==
    ASSUME Typed, OpnInv, ReqInv, NoOverlap', NEW t \in Tsk, NEW o \in OpnCB, NEW mode,
           Request(t, o, mode)
    PROVE  ReqInv'
<1>1. PICK r \in ReqCB :
        /\ dm.freereq # <<>> /\ r = Head(dm.freereq)
        /\ dm'.freereq = Tail(dm.freereq)
        /\ dm'.opn = [dm.opn EXCEPT ![o].requestq = Append(@, r)]
        /\ dm'.req = [dm.req EXCEPT ![r] = [opncb |-> o, tskid |-> t]]
        /\ Goto(t, "exec", [Idle EXCEPT !.o = o, !.reqs = <<r>>])
  BY RequestTyped
<1> DEFINE y == dm.opn[o]
           q == Append(y.requestq, r)
           x == [y EXCEPT !.requestq = q]
           l == [Idle EXCEPT !.o = o, !.reqs = <<r>>]
<1>2. pc[t] = "out" /\ y.resid = 1 /\ told' \subseteq Tsk
  BY DEF Request, ReqInv
<1>3. /\ dm.opn \in [OpnCB -> OpnRec] /\ dm.req \in [ReqCB -> ReqRec] /\ y \in OpnRec
      /\ dm.freereq \in Seq(ReqCB) /\ y.requestq \in Seq(ReqCB)
  BY DEF Typed, Tables, OpnRec
<1>4. l.o = o /\ l.reqs = <<r>> /\ l.any = FALSE /\ Goto(t, "exec", l)
  BY <1>1, Constants DEF Local, Idle
<1> HIDE DEF l
<1>5. Others(t) /\ pc'[t] = "exec" /\ loc'[t] = l
  BY <1>4, GotoFacts
<1>6. ToSet(<<r>>) = {r} /\ Head(<<r>>) = r
  BY DEF ToSet
<1>7. /\ ToSet(dm.freereq) = ReqOf(NoObj) /\ ToSet(y.requestq) = ReqOf(o) /\ r \in ReqOf(NoObj)
      /\ IsInjective(dm.freereq) /\ IsInjective(y.requestq)
  BY <1>1, <1>3, TailSet DEF ReqInv, FreeReqs, Block, Marks
<1>8. NoObj \notin OpnCB /\ r \notin ReqOf(o) /\ t # NoObj
  BY <1>7, Constants DEF ReqOf
<1>9. /\ dm'.opn[o] = x /\ \A p \in OpnCB : p # o => dm'.opn[p] = dm.opn[p]
      /\ dm'.req[r].opncb = o /\ dm'.req[r].tskid = t
      /\ \A s \in ReqCB : s # r => dm'.req[s] = dm.req[s]
  BY <1>1, <1>3
<1>10. IsInjective(q) /\ ToSet(q) = ReqOf(o) \cup {r}
  BY <1>3, <1>7, <1>8, AppendOne
<1> HIDE DEF q
<1>11. /\ x.requestq = q /\ x.devcb = y.devcb /\ x.waireqlst = y.waireqlst /\ x.waitone = y.waitone
       /\ x.abort_tskid = y.abort_tskid /\ x.abort_cnt = y.abort_cnt /\ x.sem = y.sem
  BY <1>3 DEF OpnRec
<1> HIDE DEF x
<1>12. FreeReqs'
  <2>1. ReqOf(NoObj)' = ReqOf(NoObj) \ {r}
    BY <1>8, <1>9 DEF ReqOf
  <2> QED BY <1>1, <1>3, <1>7, <2>1, TailSet DEF FreeReqs
<1>13. ReqOf(o)' = ReqOf(o) \cup {r} /\ Busy(o)' = Busy(o) \cup {r}
  BY <1>8, <1>9 DEF ReqOf, Busy
<1>14. Signals(o)' /\ y.devcb # NoObj /\ Block(o)
  BY <1>2, <1>5, <1>9, <1>11, UnheldBlock DEF SameSignal, Driving
<1>15. pc[t] \notin Driving /\ pc'[t] \in Driving /\ \A u \in Tsk : Drives(u, o) => u # t
  BY <1>2, <1>5 DEF Driving, Drives
<1>16. \A u \in Tsk : ~AnyWaits(u, o)' /\ ~AnyWaits(u, o)
  <2>1. ASSUME NEW u \in Tsk, AnyWaits(u, o)' PROVE FALSE
    BY <1>4, <1>5, <2>1 DEF NoOverlap, AnyWaits
  <2>2. ASSUME NEW u \in Tsk, AnyWaits(u, o) PROVE AnyWaits(u, o)'
    BY <1>2, <1>5, <2>2 DEF Others, AnyWaits
  <2> QED BY <2>1, <2>2
<1>17. Marks(o)'
  <2>1. ASSUME NEW s \in Busy(o)' PROVE Driven(s, o)'
    <3>1. CASE s = r
      <4>1. Drives(t, o)' /\ s \in ToSet(loc'[t].reqs) /\ t = dm'.req[s].tskid
        BY <1>4, <1>5, <1>6, <1>9, <3>1 DEF Drives, Driving
      <4> QED BY <4>1 DEF Driven
    <3>2. CASE s # r
      <4>1. s \in Busy(o) /\ dm'.req[s] = dm.req[s]
        BY <1>9, <1>13, <2>1, <3>2 DEF Busy, ReqOf
      <4>2. Driven(s, o) /\ dm.req[s].tskid # t
        BY <1>14, <1>15, <4>1, MarksNow DEF Block, Driven
      <4> QED BY <1>5, <4>1, <4>2, StillDriven
    <3> QED BY <3>1, <3>2
  <2>2. ASSUME NEW u \in Tsk, Drives(u, o)' PROVE Owns(u, o)'
    <3>1. CASE u = t
      BY <1>4, <1>5, <1>6, <1>9, <1>13, <3>1 DEF Owns
    <3>2. CASE u # t
      <4>1. Drives(u, o) /\ pc'[u] = pc[u] /\ loc'[u] = loc[u]
        BY <1>5, <2>2, <3>2 DEF Others, Drives
      <4>2. Owns(u, o)
        BY <1>14, <4>1, MarksNow DEF Block
      <4>3. \A s \in ToSet(loc[u].reqs) : dm'.req[s] = dm.req[s]
        BY <1>8, <1>9, <4>2 DEF Owns, ReqOf
      <4> QED BY <4>1, <4>2, <4>3, StillOwns
    <3> QED BY <3>1, <3>2
  <2> QED BY <1>9, <1>10, <1>11, <1>13, <1>14, <2>1, <2>2, MarksOf
<1>18. Waiting(o)'
  <2>1. Waits(o)' = Waits(o)
    <3>1. r \notin Waits(o)'
      BY <1>5, <1>9 DEF Waits
    <3>2. ASSUME NEW s \in Busy(o)
          PROVE  s \in ReqCB /\ s # r /\ dm.req[s].tskid \in Tsk \ {t} /\ dm'.req[s] = dm.req[s]
      <4>1. s \in ReqCB /\ s # r /\ dm.req[s].tskid # NoObj
        BY <1>8 DEF Busy, ReqOf
      <4>2. dm.req[s].tskid \in Tsk
        BY <1>3, <4>1 DEF ReqRec
      <4>3. Drives(dm.req[s].tskid, o)
        BY <1>14 DEF Block, Marks
      <4> QED BY <1>9, <1>15, <4>1, <4>2, <4>3
    <3>3. \A s \in Busy(o) : s \in Waits(o)' <=> s \in Waits(o)
      BY <1>5, <1>13, <3>2 DEF Waits, Others
    <3> QED BY <1>13, <3>1, <3>3 DEF Waits
  <2>2. y.waireqlst = <<>> /\ y.waitone = Cardinality(Waits(o))
    BY <1>14, <1>16 DEF Block, Waiting
  <2> QED BY <1>9, <1>11, <1>16, <2>1, <2>2 DEF Waiting
<1>19. Only(t, o)
  <2>1. At(t) = NoObj /\ At(t)' = o
    BY <1>2, <1>4, <1>5 DEF At, Holding, Aborting, Driving
  <2>2. dm.req[r].opncb = NoObj
    BY <1>7 DEF ReqOf
  <2> QED BY <1>5, <1>9, <2>1, <2>2 DEF Only
<1>20. Block(o)'
  BY <1>14, <1>17, <1>18 DEF Block
<1> QED BY <1>2, <1>12, <1>19, <1>20, OnlyExact

\* The single wait of task t for the request r begins.
LEMMA WaitReqs ==
    ASSUME Typed, OpnInv, ReqInv, NEW t \in Tsk, NEW o \in OpnCB, NEW r \in ReqCB,
           WaiDev(t, o, r)
    PROVE  ReqInv'
<1> DEFINE y == dm.opn[o]
           x == [y EXCEPT !.waitone = y.waitone + 1]
           l == [Idle EXCEPT !.o = o, !.reqs = <<r>>]
<1>1. /\ pc[t] = "out" /\ y.resid = 1 /\ told' \subseteq Tsk /\ Goto(t, "wait", l)
      /\ dm.req[r].opncb = o /\ y.waireqlst = <<>> /\ dm.req[r].tskid = NoObj
  BY DEF WaiDev, ReqInv
<1>2. /\ dm.opn \in [OpnCB -> OpnRec] /\ dm.req \in [ReqCB -> ReqRec] /\ y \in OpnRec
      /\ t # NoObj /\ NoObj \notin OpnCB
  BY Constants DEF Typed, Tables
<1>3. /\ dm'.freereq = dm.freereq /\ dm'.opn = [dm.opn EXCEPT ![o] = x]
      /\ dm'.req = [dm.req EXCEPT ![r].tskid = t]
  BY WaiDevTyped
<1>4. l.o = o /\ l.reqs = <<r>> /\ l.any = FALSE
  BY Constants DEF Local, Idle
<1> HIDE DEF l
<1>5. Others(t) /\ pc'[t] = "wait" /\ loc'[t] = l
  BY <1>1, GotoFacts
<1>6. ToSet(<<r>>) = {r} /\ Head(<<r>>) = r
  BY DEF ToSet
<1>7. /\ x.requestq = y.requestq /\ x.devcb = y.devcb /\ x.waireqlst = <<>>
      /\ x.waitone = y.waitone + 1
      /\ x.abort_tskid = y.abort_tskid /\ x.abort_cnt = y.abort_cnt /\ x.sem = y.sem
  BY <1>1, <1>2 DEF OpnRec
<1> HIDE DEF x
<1>8. /\ dm'.opn[o] = x /\ \A p \in OpnCB : p # o => dm'.opn[p] = dm.opn[p]
      /\ \A s \in ReqCB : s # r => dm'.req[s] = dm.req[s]
  BY <1>2, <1>3
<1>9. dm'.req[r].opncb = o /\ dm'.req[r].tskid = t
  BY <1>1, <1>2, <1>3 DEF ReqRec
<1>10. /\ ReqOf(o)' = ReqOf(o) /\ ReqOf(NoObj)' = ReqOf(NoObj)
       /\ Busy(o)' = Busy(o) \cup {r} /\ r \notin Busy(o)
  BY <1>1, <1>2, <1>8, <1>9 DEF ReqOf, Busy
<1>11. FreeReqs'
  BY <1>3, <1>10 DEF ReqInv, FreeReqs
<1>12. Signals(o)' /\ y.devcb # NoObj /\ Block(o)
  BY <1>1, <1>5, <1>7, <1>8, UnheldBlock DEF SameSignal, Driving
<1>13. pc[t] \notin Driving /\ pc'[t] \in Driving /\ \A u \in Tsk : Drives(u, o) => u # t
  BY <1>1, <1>5 DEF Driving, Drives
<1>14. \A u \in Tsk : ~AnyWaits(u, o)' /\ ~AnyWaits(u, o)
  <2>1. ASSUME NEW u \in Tsk, AnyWaits(u, o) PROVE FALSE
    <3>1. y.waireqlst = loc[u].reqs /\ Drives(u, o)
      BY <1>12, <2>1 DEF Block, Waiting, AnyWaits, Drives, Driving
    <3> QED BY <1>1, <3>1 DEF Typed, Controlled, Drives
  <2> QED BY <1>4, <1>5, <2>1 DEF Others, AnyWaits
<1>15. Marks(o)'
  <2>1. ASSUME NEW s \in Busy(o)' PROVE Driven(s, o)'
    <3>1. CASE s = r
      <4>1. Drives(t, o)' /\ s \in ToSet(loc'[t].reqs) /\ t = dm'.req[s].tskid
        BY <1>4, <1>5, <1>6, <1>9, <3>1 DEF Drives, Driving
      <4> QED BY <4>1 DEF Driven
    <3>2. CASE s # r
      <4>1. s \in Busy(o) /\ dm'.req[s] = dm.req[s]
        BY <1>8, <1>10, <2>1, <3>2 DEF Busy, ReqOf
      <4>2. Driven(s, o) /\ dm.req[s].tskid # t
        BY <1>12, <1>13, <4>1, MarksNow DEF Block, Driven
      <4> QED BY <1>5, <4>1, <4>2, StillDriven
    <3> QED BY <3>1, <3>2
  <2>2. ASSUME NEW u \in Tsk, Drives(u, o)' PROVE Owns(u, o)'
    <3>1. CASE u = t
      BY <1>1, <1>4, <1>5, <1>6, <1>9, <1>10, <3>1 DEF Owns, ReqOf
    <3>2. CASE u # t
      <4>1. Drives(u, o) /\ pc'[u] = pc[u] /\ loc'[u] = loc[u]
        BY <1>5, <2>2, <3>2 DEF Others, Drives
      <4>2. Owns(u, o) /\ u # NoObj
        BY <1>12, <4>1, MarksNow, Constants DEF Block
      <4>3. \A s \in ToSet(loc[u].reqs) : dm'.req[s] = dm.req[s]
        BY <1>1, <1>8, <4>2 DEF Owns, ReqOf
      <4> QED BY <4>1, <4>2, <4>3, StillOwns
    <3> QED BY <3>1, <3>2
  <2>3. IsInjective(dm'.opn[o].requestq) /\ ToSet(dm'.opn[o].requestq) = ReqOf(o)'
    BY <1>7, <1>8, <1>10, <1>12 DEF Block, Marks
  <2>4. dm'.opn[o].devcb # NoObj
    BY <1>7, <1>8, <1>12
  <2> QED BY <2>1, <2>2, <2>3, <2>4, MarksOf
<1>16. Waiting(o)'
  <2>1. Waits(o)' = Waits(o) \cup {r} /\ r \notin Waits(o)
    <3>1. r \in Waits(o)' /\ r \notin Waits(o)
      BY <1>4, <1>5, <1>9, <1>10 DEF Waits
    <3>2. ASSUME NEW s \in Busy(o)
          PROVE  dm.req[s].tskid \in Tsk \ {t} /\ dm'.req[s] = dm.req[s]
      <4>1. s \in ReqCB /\ s # r /\ dm.req[s].tskid # NoObj
        BY <1>10 DEF Busy, ReqOf
      <4>2. Driven(s, o)
        BY <1>12, MarksNow DEF Block
      <4> QED BY <1>8, <1>13, <4>1, <4>2 DEF Driven
    <3>3. \A s \in Busy(o) : s \in Waits(o)' <=> s \in Waits(o)
      BY <1>5, <1>10, <3>2 DEF Waits, Others
    <3> QED BY <1>10, <3>1, <3>3 DEF Waits
  <2>2. IsFiniteSet(Waits(o)) /\ y.waitone = Cardinality(Waits(o))
    BY <1>12, BlockFacts DEF Block, Waiting
  <2>3. Cardinality(Waits(o)') = y.waitone + 1
    BY <2>1, <2>2, FS_AddElement
  <2>4. dm'.opn[o].waireqlst = <<>> /\ dm'.opn[o].waitone = y.waitone + 1
    BY <1>7, <1>8
  <2> QED BY <1>14, <2>3, <2>4 DEF Waiting
<1>17. Only(t, o)
  <2>1. At(t) = NoObj /\ At(t)' = o
    BY <1>1, <1>4, <1>5 DEF At, Holding, Aborting, Driving
  <2> QED BY <1>1, <1>5, <1>8, <1>9, <2>1 DEF Only
<1>18. Block(o)'
  BY <1>12, <1>15, <1>16 DEF Block
<1> QED BY <1>1, <1>11, <1>17, <1>18, OnlyExact

\* The wait of task t for any request of o begins, while there is no other call.
LEMMA WaitAnyReqs ==
    ASSUME Typed, OpnInv, ReqInv, NoOverlap', NEW t \in Tsk, NEW o \in OpnCB, WaiDevAny(t, o)
    PROVE  ReqInv'
<1> DEFINE y == dm.opn[o]
<1> SUFFICES ASSUME NEW all, all = y.requestq PROVE ReqInv'
  OBVIOUS
<1> DEFINE x == [y EXCEPT !.waireqlst = all]
           l == [Idle EXCEPT !.o = o, !.reqs = all, !.any = TRUE]
<1>1. /\ pc[t] = "out" /\ y.resid = 1 /\ told' \subseteq Tsk /\ Goto(t, "wait", l)
      /\ y.waireqlst = <<>> /\ y.waitone = 0 /\ all # <<>>
  BY DEF WaiDevAny, ReqInv
<1>2. /\ dm.opn \in [OpnCB -> OpnRec] /\ dm.req \in [ReqCB -> ReqRec] /\ y \in OpnRec
      /\ t # NoObj /\ NoObj \notin OpnCB /\ all \in Seq(ReqCB)
  BY Constants DEF Typed, Tables, OpnRec
<1>3. /\ dm'.freereq = dm.freereq /\ dm'.opn = [dm.opn EXCEPT ![o] = x]
      /\ dm'.req = [s \in ReqCB |-> IF s \in ToSet(all)
                      THEN [dm.req[s] EXCEPT !.tskid = t] ELSE dm.req[s]]
  BY WaiDevAnyTyped
<1>4. l.o = o /\ l.reqs = all /\ l.any = TRUE
  BY Constants DEF Local, Idle
<1> HIDE DEF l
<1>5. Others(t) /\ pc'[t] = "wait" /\ loc'[t] = l
  BY <1>1, GotoFacts
<1>6. /\ x.requestq = all /\ x.devcb = y.devcb /\ x.waireqlst = all /\ x.waitone = 0
      /\ x.abort_tskid = y.abort_tskid /\ x.abort_cnt = y.abort_cnt /\ x.sem = y.sem
  BY <1>1, <1>2 DEF OpnRec
<1> HIDE DEF x
<1>7. dm'.opn[o] = x /\ \A p \in OpnCB : p # o => dm'.opn[p] = dm.opn[p]
  BY <1>2, <1>3
<1>8. Signals(o)' /\ y.devcb # NoObj /\ Block(o)
  BY <1>1, <1>5, <1>6, <1>7, UnheldBlock DEF SameSignal, Driving
<1>9. ToSet(all) = ReqOf(o) /\ IsInjective(all)
  BY <1>8 DEF Block, Marks
<1>10. /\ \A s \in ReqOf(o) : dm'.req[s].opncb = o /\ dm'.req[s].tskid = t
       /\ \A s \in ReqCB \ ReqOf(o) : dm'.req[s] = dm.req[s]
  <2>1. \A s \in ReqCB : /\ [dm.req[s] EXCEPT !.tskid = t].tskid = t
                         /\ [dm.req[s] EXCEPT !.tskid = t].opncb = dm.req[s].opncb
    BY <1>2 DEF ReqRec
  <2> QED BY <1>3, <1>9, <2>1 DEF ReqOf
<1>11. /\ ReqOf(o)' = ReqOf(o) /\ ReqOf(NoObj)' = ReqOf(NoObj) /\ Busy(o)' = ReqOf(o)
  BY <1>2, <1>10 DEF ReqOf, Busy
<1>12. FreeReqs'
  BY <1>3, <1>11 DEF ReqInv, FreeReqs
<1>13. \A u \in Tsk : ~Drives(u, o)
  <2> SUFFICES ASSUME NEW u \in Tsk, Drives(u, o) PROVE FALSE
    OBVIOUS
  <2>1. u # t /\ pc'[u] = pc[u] /\ loc'[u] = loc[u]
    BY <1>1, <1>5 DEF Others, Drives, Driving
  <2>2. pc[u] # "exec"
    BY <1>4, <1>5, <2>1 DEF NoOverlap, Drives
  <2>3. pc[u] = "wait"
    BY <2>2 DEF Drives, Driving
  <2>4. loc[u].reqs # <<>>
    BY DEF Drives, Typed, Controlled
  <2>5. ~loc[u].any
    BY <1>1, <1>8, <2>3, <2>4 DEF Block, Waiting, AnyWaits, Drives
  <2>6. Head(loc[u].reqs) \in Busy(o) /\ IsFiniteSet(Waits(o))
    BY <1>8, BlockFacts
  <2>7. dm.req[Head(loc[u].reqs)].tskid = u
    <3>1. loc[u].reqs \in Seq(ReqCB)
      BY DEF Typed, Controlled, Local
    <3>2. Head(loc[u].reqs) \in ToSet(loc[u].reqs)
      BY <2>4, <3>1, EntriesOf
    <3> QED BY <1>8, <3>2, MarksNow DEF Block, Owns
  <2>8. Head(loc[u].reqs) \in Waits(o)
    BY <2>3, <2>5, <2>6, <2>7 DEF Waits
  <2>9. Cardinality(Waits(o)) = 0
    BY <1>1, <1>8 DEF Block, Waiting
  <2> QED BY <2>6, <2>8, <2>9, FS_EmptySet
<1>14. Drives(t, o)' /\ \A u \in Tsk : Drives(u, o)' => u = t
  BY <1>4, <1>5, <1>13 DEF Others, Drives, Driving
<1>15. Marks(o)'
  <2>1. ASSUME NEW s \in Busy(o)' PROVE Driven(s, o)'
    <3>1. s \in ToSet(loc'[t].reqs) /\ t = dm'.req[s].tskid
      BY <1>4, <1>5, <1>9, <1>10, <1>11
    <3> QED BY <1>14, <3>1 DEF Driven
  <2>2. Owns(t, o)'
    BY <1>4, <1>5, <1>9, <1>10, <1>11 DEF Owns
  <2>3. IsInjective(dm'.opn[o].requestq) /\ ToSet(dm'.opn[o].requestq) = ReqOf(o)'
    BY <1>6, <1>7, <1>9, <1>11
  <2>4. dm'.opn[o].devcb # NoObj
    BY <1>6, <1>7, <1>8
  <2> QED BY <1>14, <2>1, <2>2, <2>3, <2>4, MarksOf
<1>16. Waiting(o)'
  <2>1. AnyWaits(t, o)' /\ \A u \in Tsk : AnyWaits(u, o)' => u = t
    BY <1>4, <1>5, <1>14 DEF AnyWaits, Drives, Driving
  <2>2. Waits(o)' = {}
    BY <1>4, <1>5, <1>10, <1>11 DEF Waits
  <2> QED BY <1>4, <1>5, <1>6, <1>7, <1>14, <2>1, <2>2, FS_EmptySet DEF Waiting
<1>17. Only(t, o)
  <2>1. At(t) = NoObj /\ At(t)' = o
    BY <1>1, <1>4, <1>5 DEF At, Holding, Aborting, Driving
  <2>2. \A s \in ReqOf(o) : dm.req[s].opncb = o /\ dm'.req[s].opncb = o
    BY <1>10 DEF ReqOf
  <2> QED BY <1>5, <1>7, <1>10, <2>1, <2>2 DEF Only
<1>18. Block(o)'
  BY <1>8, <1>15, <1>16 DEF Block
<1> QED BY <1>1, <1>12, <1>17, <1>18, OnlyExact

\* A call of the driver ends: the marks of its requests are gone, and a task
\* that aborts the calls has counted it.
Ended(t, o) ==
    LET y == dm.opn[o]
        z == dm'.opn[o]
        R == ToSet(loc[t].reqs)
    IN  /\ Queued(dm', o) /\ \A p \in OpnCB : p # o => dm'.opn[p] = dm.opn[p]
        /\ \A s \in ReqCB : s \notin R => dm'.req[s] = dm.req[s]
        /\ \A s \in R : dm'.req[s].tskid = NoObj /\ dm'.req[s].opncb \in {o, NoObj}
        /\ z.devcb = y.devcb /\ z.abort_tskid = y.abort_tskid
        /\ z.waireqlst = IF loc[t].any THEN <<>> ELSE y.waireqlst
        /\ z.waitone = IF pc[t] = "wait" /\ ~loc[t].any THEN y.waitone - 1 ELSE y.waitone
        /\ y.abort_tskid = NoObj => z.abort_cnt = y.abort_cnt /\ z.sem = y.sem
        /\ y.abort_tskid # NoObj =>
             z.abort_cnt = y.abort_cnt - 1 /\ z.sem = IF y.abort_cnt = 1 THEN 1 ELSE y.sem

LEMMA CallIsOver ==
    ASSUME Typed, NEW t \in Tsk, NEW o \in OpnCB, o = loc[t].o, Block(o), FreeReqs,
           pc[t] \in Driving, NEW k \in Tables, CallOver(t, k)
    PROVE  /\ Queued(k, o) /\ \A p \in OpnCB : p # o => k.opn[p] = dm.opn[p]
           /\ \A s \in ReqCB : s \notin ToSet(loc[t].reqs) => k.req[s] = dm.req[s]
           /\ \A s \in ToSet(loc[t].reqs) : s \in ReqCB /\ k.req[s] = [opncb |-> o, tskid |-> NoObj]
           /\ k.opn[o] =
                IF loc[t].any THEN [dm.opn[o] EXCEPT !.waireqlst = <<>>]
                ELSE IF pc[t] = "wait" THEN [dm.opn[o] EXCEPT !.waitone = dm.opn[o].waitone - 1]
                ELSE dm.opn[o]
<1> DEFINE y == dm.opn[o]
           R == ToSet(loc[t].reqs)
<1>1. /\ dm.opn \in [OpnCB -> OpnRec] /\ dm.req \in [ReqCB -> ReqRec] /\ y \in OpnRec
      /\ NoObj \notin OpnCB /\ loc[t].reqs \in Seq(ReqCB) /\ k.freereq = dm.freereq
  BY Constants DEF Typed, Tables, Controlled, Local, CallOver
<1>2. Owns(t, o)
  BY MarksNow DEF Block, Drives
<1>3. R \subseteq ReqCB /\ \A s \in R : dm.req[s].opncb = o /\ dm.req[s].tskid = t
  BY <1>1, <1>2, EntriesOf DEF Owns, ReqOf
<1>4. ASSUME NEW s \in R PROVE [dm.req[s] EXCEPT !.tskid = NoObj] = [opncb |-> o, tskid |-> NoObj]
  <2>1. dm.req[s] \in ReqRec /\ dm.req[s].opncb = o
    BY <1>1, <1>3
  <2> QED BY <2>1 DEF ReqRec
<1>5. /\ \A s \in ReqCB : s \notin R => k.req[s] = dm.req[s]
      /\ \A s \in R : s \in ReqCB /\ k.req[s] = [opncb |-> o, tskid |-> NoObj]
  <2>1. CASE pc[t] = "exec"
    <3>1. R = {Head(loc[t].reqs)}
      <4>1. loc[t].reqs = <<Head(loc[t].reqs)>>
        BY <1>2, <2>1 DEF Owns
      <4>2. ToSet(<<Head(loc[t].reqs)>>) = {Head(loc[t].reqs)}
        BY DEF ToSet
      <4> QED BY <4>1, <4>2
    <3> DEFINE r == Head(loc[t].reqs)
    <3> HIDE DEF R
    <3>2. k.req = [dm.req EXCEPT ![r] = [dm.req[r] EXCEPT !.tskid = NoObj]]
      BY <2>1 DEF CallOver
    <3> QED BY <1>1, <1>3, <1>4, <3>1, <3>2
  <2>2. CASE pc[t] = "wait"
    <3>1. k.req = [s \in ReqCB |-> IF s \in R THEN [dm.req[s] EXCEPT !.tskid = NoObj] ELSE dm.req[s]]
      BY <2>2 DEF CallOver
    <3> HIDE DEF R
    <3> QED BY <1>3, <1>4, <3>1
  <2> QED BY <2>1, <2>2 DEF Driving
<1>6. /\ \A p \in OpnCB : p # o => k.opn[p] = dm.opn[p]
      /\ k.opn[o] = IF loc[t].any THEN [y EXCEPT !.waireqlst = <<>>]
                    ELSE IF pc[t] = "wait" THEN [y EXCEPT !.waitone = y.waitone - 1] ELSE y
  <2>1. CASE pc[t] = "exec"
    <3>1. k.opn = dm.opn /\ ~loc[t].any
      BY <1>2, <2>1 DEF CallOver, Owns
    <3> QED BY <2>1, <3>1
  <2>2. CASE pc[t] = "wait"
    <3>1. k.opn = IF loc[t].any THEN [dm.opn EXCEPT ![o].waireqlst = <<>>]
                  ELSE [dm.opn EXCEPT ![o].waitone = @ - 1]
      BY <2>2 DEF CallOver
    <3> QED BY <1>1, <2>2, <3>1
  <2> QED BY <2>1, <2>2 DEF Driving
<1>7. k.opn[o].requestq = y.requestq
  BY <1>1, <1>6 DEF OpnRec
<1>8. ReqsOf(k, o) = ReqOf(o) /\ ReqsOf(k, NoObj) = ReqOf(NoObj)
  BY <1>1, <1>3, <1>5 DEF ReqsOf, ReqOf
<1>9. Queued(k, o)
  BY <1>1, <1>7, <1>8 DEF Queued, FreeReqs, Block, Marks
<1> QED BY <1>5, <1>6, <1>9

LEMMA CallHasEnded ==
    ASSUME Typed, NEW t \in Tsk, NEW o \in OpnCB, o = loc[t].o, Block(o), FreeReqs,
           pc[t] \in Driving, NEW k \in Tables, CallEnds(t, k)
    PROVE  Ended(t, o)
<1> DEFINE y == dm.opn[o]
           x == k.opn[o]
           n == AbortCounted(k, o)
           R == ToSet(loc[t].reqs)
<1>1. /\ Queued(k, o) /\ \A p \in OpnCB : p # o => k.opn[p] = dm.opn[p]
      /\ \A s \in ReqCB : s \notin ToSet(loc[t].reqs) => k.req[s] = dm.req[s]
      /\ \A s \in ToSet(loc[t].reqs) : s \in ReqCB /\ k.req[s] = [opncb |-> o, tskid |-> NoObj]
      /\ k.opn[o] =
           IF loc[t].any THEN [dm.opn[o] EXCEPT !.waireqlst = <<>>]
           ELSE IF pc[t] = "wait" THEN [dm.opn[o] EXCEPT !.waitone = dm.opn[o].waitone - 1]
           ELSE dm.opn[o]
  BY CallIsOver DEF CallEnds
<1>2. y \in OpnRec /\ x \in OpnRec /\ k.opn \in [OpnCB -> OpnRec]
  BY DEF Typed, Tables
<1>3. /\ x.devcb = y.devcb /\ x.abort_tskid = y.abort_tskid /\ x.abort_cnt = y.abort_cnt
      /\ x.sem = y.sem
      /\ x.waireqlst = IF loc[t].any THEN <<>> ELSE y.waireqlst
      /\ x.waitone = IF pc[t] = "wait" /\ ~loc[t].any THEN y.waitone - 1 ELSE y.waitone
  <2>1. x = IF loc[t].any THEN [y EXCEPT !.waireqlst = <<>>]
            ELSE IF pc[t] = "wait" THEN [y EXCEPT !.waitone = y.waitone - 1] ELSE y
    BY <1>1
  <2> HIDE DEF x, y
  <2>2. CASE loc[t].any
    <3>1. x = [y EXCEPT !.waireqlst = <<>>]
      BY <2>1, <2>2
    <3> QED BY <1>2, <2>2, <3>1 DEF OpnRec
  <2>3. CASE ~loc[t].any /\ pc[t] = "wait"
    <3>1. x = [y EXCEPT !.waitone = y.waitone - 1]
      BY <2>1, <2>3
    <3> QED BY <1>2, <2>3, <3>1 DEF OpnRec
  <2>4. CASE ~loc[t].any /\ pc[t] # "wait"
    BY <2>1, <2>4
  <2> QED BY <2>2, <2>3, <2>4
<1>4. /\ n \in Tables /\ SameReq(n, k)
      /\ n.opn = IF x.abort_tskid = NoObj THEN k.opn ELSE [k.opn EXCEPT ![o] = Counted(x)]
  BY AbortCountedFields, AbortCountedTyped
<1> HIDE DEF n
<1>5. /\ \A p \in OpnCB : p # o => n.opn[p] = k.opn[p]
      /\ n.opn[o] = IF x.abort_tskid = NoObj THEN x ELSE Counted(x)
  BY <1>2, <1>4
<1> HIDE DEF x
<1>6. /\ Counted(x).requestq = x.requestq /\ Counted(x).devcb = x.devcb
      /\ Counted(x).waireqlst = x.waireqlst /\ Counted(x).waitone = x.waitone
      /\ Counted(x).abort_tskid = x.abort_tskid /\ Counted(x).abort_cnt = x.abort_cnt - 1
      /\ Counted(x).sem = IF x.abort_cnt = 1 THEN 1 ELSE x.sem
  BY <1>2 DEF Counted, OpnRec
<1>7. Queued(n, o)
  <2>1. n.opn[o].requestq = k.opn[o].requestq
    BY <1>5, <1>6 DEF x
  <2>2. n.req = k.req /\ n.freereq = k.freereq
    BY <1>4 DEF SameReq
  <2>3. ReqsOf(n, o) = ReqsOf(k, o) /\ ReqsOf(n, NoObj) = ReqsOf(k, NoObj)
    BY <2>2 DEF ReqsOf
  <2>4. Queued(k, o)
    BY <1>1
  <2> QED BY ONLY <2>1, <2>2, <2>3, <2>4 DEF Queued
<1>8. \/ dm' = n
      \/ \E r \in R : Dropped(dm', n, o, r)
  <2>1. ASSUME NEW r \in R, dm' = DelReqCB(n, r)
        PROVE  Dropped(dm', n, o, r)
    <3>1. r \in ReqCB /\ n.req[r].opncb = o
      BY <1>1, <1>4 DEF SameReq
    <3> QED BY <1>4, <1>7, <2>1, <3>1, DelReqQueues
  <2> QED BY <2>1 DEF CallEnds, n
<1>9. /\ Queued(dm', o) /\ SameCalling(dm'.opn[o], n.opn[o])
      /\ \A p \in OpnCB : p # o => dm'.opn[p] = n.opn[p]
      /\ \A s \in ReqCB : s \notin R => dm'.req[s] = n.req[s]
      /\ \A s \in R : dm'.req[s] = n.req[s] \/ dm'.req[s] = UnusedReq
  <2>1. CASE dm' = n
    BY <1>7, <2>1 DEF SameCalling
  <2>2. CASE \E r \in R : Dropped(dm', n, o, r)
    BY <1>1, <2>2 DEF Dropped
  <2> QED BY <1>8, <2>1, <2>2
<1>10. /\ \A s \in ReqCB : s \notin R => dm'.req[s] = dm.req[s]
       /\ \A s \in R : dm'.req[s].tskid = NoObj /\ dm'.req[s].opncb \in {o, NoObj}
  BY <1>1, <1>4, <1>9 DEF SameReq, UnusedReq
<1>11. /\ dm'.opn[o].devcb = y.devcb /\ dm'.opn[o].abort_tskid = y.abort_tskid
       /\ dm'.opn[o].waireqlst = x.waireqlst /\ dm'.opn[o].waitone = x.waitone
       /\ y.abort_tskid = NoObj => dm'.opn[o].abort_cnt = y.abort_cnt /\ dm'.opn[o].sem = y.sem
       /\ y.abort_tskid # NoObj =>
            /\ dm'.opn[o].abort_cnt = y.abort_cnt - 1
            /\ dm'.opn[o].sem = IF y.abort_cnt = 1 THEN 1 ELSE y.sem
  BY <1>3, <1>5, <1>6, <1>9 DEF SameCalling
<1>12. \A p \in OpnCB : p # o => dm'.opn[p] = dm.opn[p]
  BY <1>1, <1>5, <1>9
<1> QED BY <1>3, <1>9, <1>10, <1>11, <1>12 DEF Ended

\* What is left of the calls for o when the call of task t has ended.
LEMMA CallsLeft ==
    ASSUME Typed, NEW t \in Tsk, NEW o \in OpnCB, o = loc[t].o, Block(o), pc[t] \in Driving,
           Ended(t, o), FreeReqs', IsInjective(dm'.opn[o].requestq),
           ToSet(dm'.opn[o].requestq) = ReqOf(o)', Others(t), pc'[t] = "out"
    PROVE  /\ Marks(o)' /\ Waiting(o)' /\ dm.opn[o].devcb # NoObj
           /\ Calls(o)' \in Nat /\ Calls(o) = Calls(o)' + 1
<1> DEFINE y == dm.opn[o]
           z == dm'.opn[o]
           R == ToSet(loc[t].reqs)
           r == Head(loc[t].reqs)
<1>1. /\ dm.req \in [ReqCB -> ReqRec] /\ NoObj \notin Tsk /\ NoObj \notin OpnCB
      /\ loc[t].reqs \in Seq(ReqCB) /\ loc[t].reqs # <<>>
  BY Constants DEF Typed, Tables, Controlled, Local
<1>2. Drives(t, o) /\ Marks(o) /\ Waiting(o)
  BY DEF Drives, Block
<1>3. /\ \A s \in Busy(o) : Driven(s, o)
      /\ \A u \in Tsk : Drives(u, o) => Owns(u, o)
  BY <1>2, MarksNow
<1>4. /\ r \in Busy(o) /\ IsFiniteSet(Busy(o)) /\ IsFiniteSet(Waits(o))
      /\ Waits(o) \subseteq Busy(o) /\ Busy(o) \subseteq ReqCB
  BY <1>2, BlockFacts
<1>5. R \subseteq Busy(o) /\ \A s \in R : dm.req[s].tskid = t
  BY <1>1, <1>2, <1>3 DEF Owns, Busy
<1>6. \A s \in Busy(o) : dm.req[s].tskid = t => s \in R
  BY <1>3 DEF Driven
<1>7. /\ \A s \in ReqCB : s \notin R => dm'.req[s] = dm.req[s]
      /\ \A s \in R : dm'.req[s].tskid = NoObj
      /\ z.devcb = y.devcb
      /\ z.waireqlst = IF loc[t].any THEN <<>> ELSE y.waireqlst
      /\ z.waitone = IF pc[t] = "wait" /\ ~loc[t].any THEN y.waitone - 1 ELSE y.waitone
  BY DEF Ended
<1> HIDE DEF R
<1>8. Busy(o)' = Busy(o) \ R
  <2>1. \A s \in ReqCB \ R : s \in Busy(o)' <=> s \in Busy(o)
    BY <1>7 DEF Busy, ReqOf
  <2>2. \A s \in R : s \notin Busy(o)'
    BY <1>7 DEF Busy
  <2>3. Busy(o)' \subseteq ReqCB
    BY DEF Busy, ReqOf
  <2> QED BY <1>4, <2>1, <2>2, <2>3
<1>9. y.devcb # NoObj
  BY <1>4, BlockFacts
<1>10. \A u \in Tsk : Drives(u, o)' => u # t /\ Drives(u, o) /\ pc'[u] = pc[u] /\ loc'[u] = loc[u]
  BY DEF Drives, Driving, Others
<1>11. CASE loc[t].any
  <2>1. AnyWaits(t, o)
    BY <1>2, <1>3, <1>11 DEF Owns, AnyWaits, Drives, Driving
  <2>2. y.waireqlst # <<>> /\ \A u \in Tsk : Drives(u, o) => u = t
    BY <1>1, <1>2, <2>1 DEF Waiting
  <2>3. \A s \in Busy(o) : dm.req[s].tskid = t
    BY <1>3, <2>2 DEF Driven
  <2>4. Busy(o)' = {} /\ Waits(o) = {}
    <3>1. \A s \in Busy(o) : s \in R
      BY <1>6, <2>3
    <3>2. Busy(o)' = {}
      BY <1>8, <3>1
    <3>3. Waits(o) = {}
      BY <1>11, <2>3 DEF Waits
    <3> QED BY <3>2, <3>3
  <2>5. \A u \in Tsk : ~Drives(u, o)'
    BY <1>10, <2>2
  <2>6. z.waireqlst = <<>> /\ z.waitone = 0
    BY <1>2, <1>7, <1>11, <2>4, FS_EmptySet DEF Waiting
  <2>7. Marks(o)' /\ Waiting(o)'
    BY <1>7, <1>9, <2>4, <2>5, <2>6, DrainedMarks
  <2>8. Calls(o) = 1 /\ Calls(o)' = 0
    BY <2>2, <2>4, <2>6, FS_EmptySet DEF Calls
  <2> QED BY <1>9, <2>7, <2>8
<1>12. CASE ~loc[t].any
  <2>1. \A u \in Tsk : ~AnyWaits(u, o)
    BY <1>2, <1>12 DEF Waiting, AnyWaits
  <2>2. y.waireqlst = <<>> /\ z.waireqlst = <<>>
    BY <1>2, <1>7, <1>12, <2>1 DEF Waiting
  <2>3. R = {r}
    <3>1. loc[t].reqs = <<r>>
      BY <1>2, <1>3, <1>12 DEF Owns
    <3>2. ToSet(<<r>>) = {r}
      BY DEF ToSet
    <3> QED BY <3>1, <3>2 DEF R
  <2>4. Marks(o)'
    <3>1. ASSUME NEW s \in Busy(o)' PROVE Driven(s, o)'
      <4>1. s \in Busy(o) /\ s \notin R /\ dm'.req[s] = dm.req[s]
        BY <1>4, <1>7, <1>8
      <4>2. Driven(s, o) /\ dm.req[s].tskid # t
        BY <1>3, <1>6, <4>1
      <4> QED BY <4>1, <4>2, StillDriven
    <3>2. ASSUME NEW u \in Tsk, Drives(u, o)' PROVE Owns(u, o)'
      <4>1. u # t /\ Owns(u, o) /\ pc'[u] = pc[u] /\ loc'[u] = loc[u]
        BY <1>3, <1>10, <3>2
      <4>2. \A s \in ToSet(loc[u].reqs) : dm'.req[s] = dm.req[s]
        BY <1>5, <1>7, <4>1 DEF Owns, ReqOf
      <4> QED BY <4>1, <4>2, StillOwns
    <3> QED BY <1>7, <1>9, <3>1, <3>2, MarksOf
  <2>5. z.waitone = Cardinality(Waits(o)')
    <3>1. \A s \in Busy(o) \ R : s \in Waits(o)' <=> s \in Waits(o)
      <4>1. ASSUME NEW s \in Busy(o) \ R
            PROVE  /\ dm'.req[s] = dm.req[s] /\ pc'[dm.req[s].tskid] = pc[dm.req[s].tskid]
                   /\ loc'[dm.req[s].tskid] = loc[dm.req[s].tskid] /\ s \in Busy(o)'
        <5>1. dm'.req[s] = dm.req[s] /\ dm.req[s].tskid # t /\ dm.req[s].tskid \in Tsk
          BY <1>3, <1>4, <1>6, <1>7 DEF Driven
        <5> QED BY <1>8, <5>1 DEF Others
      <4> QED BY <4>1 DEF Waits
    <3>2. Waits(o)' \subseteq Busy(o) \ R
      BY <1>8 DEF Waits
    <3>3. Waits(o)' = Waits(o) \ {r}
      BY <1>4, <2>3, <3>1, <3>2
    <3>4. CASE pc[t] = "wait"
      <4>1. r \in Waits(o)
        BY <1>4, <1>5, <1>12, <2>3, <3>4 DEF Waits
      <4>2. Cardinality(Waits(o) \ {r}) = Cardinality(Waits(o)) - 1
        <5> SUFFICES ASSUME NEW W, W = Waits(o)
                     PROVE  Cardinality(W \ {r}) = Cardinality(W) - 1
          OBVIOUS
        <5>1. IsFiniteSet(W) /\ r \in W
          BY <1>4, <4>1
        <5> QED BY ONLY <5>1, FS_RemoveElement, Zenon
      <4> QED BY <1>2, <1>7, <1>12, <3>3, <3>4, <4>2 DEF Waiting
    <3>5. CASE pc[t] # "wait"
      <4>1. r \notin Waits(o)
        BY <1>5, <2>3, <3>5 DEF Waits
      <4> QED BY <1>2, <1>7, <3>3, <3>5, <4>1 DEF Waiting
    <3> QED BY <3>4, <3>5
  <2>6. Waiting(o)'
    <3>1. \A u \in Tsk : ~AnyWaits(u, o)'
      BY <2>1 DEF AnyWaits, Others
    <3> QED BY <2>2, <2>5, <3>1 DEF Waiting
  <2>7. Calls(o)' \in Nat /\ Calls(o) = Calls(o)' + 1
    <3>1. /\ Cardinality(Busy(o) \ {r}) = Cardinality(Busy(o)) - 1
          /\ Cardinality(Busy(o) \ {r}) \in Nat /\ Cardinality(Busy(o)) \in Nat
      BY <1>4, FS_RemoveElement, FS_CardinalityType
    <3> QED BY <1>8, <2>2, <2>3, <3>1 DEF Calls
  <2> QED BY <1>9, <2>4, <2>6, <2>7
<1> QED BY <1>11, <1>12

\* The task that aborts the calls for o counts the one that ends.
LEMMA CallCounted ==
    ASSUME Typed, OpnInv, ReqInv, NEW t \in Tsk, NEW o \in OpnCB, o = loc[t].o,
           pc[t] \in Driving, Ended(t, o), Others(t), pc'[t] = "out",
           dm.opn[o].devcb # NoObj, Calls(o)' \in Nat, Calls(o) = Calls(o)' + 1
    PROVE  Signals(o)'
<1> DEFINE y == dm.opn[o]
           z == dm'.opn[o]
<1>1. /\ z.abort_tskid = y.abort_tskid
      /\ y.abort_tskid = NoObj => z.abort_cnt = y.abort_cnt /\ z.sem = y.sem
      /\ y.abort_tskid # NoObj =>
           z.abort_cnt = y.abort_cnt - 1 /\ z.sem = IF y.abort_cnt = 1 THEN 1 ELSE y.sem
  BY DEF Ended
<1>2. Block(o) /\ Busy(o) # {} /\ y.abort_cnt \in Nat /\ y.sem \in {0, 1}
  <2>1. Drives(t, o) /\ Block(o)
    BY DEF Drives, ReqInv
  <2> QED BY <2>1, BlockFacts DEF Block, Signals
<1>3. \A u \in Tsk : (Holds(u) /\ loc[u].o = o)' =>
         Holds(u) /\ loc[u].o = o /\ pc'[u] = pc[u] /\ loc'[u] = loc[u]
  BY DEF Others, Holds, Holding, Aborting
<1>4. CASE \A u \in Tsk : Holds(u) => loc[u].o # o
  <2>1. y.sem = 0 /\ y.abort_tskid = NoObj
    BY <1>2, <1>4, BlockFacts
  <2>2. \A u \in Tsk : ~(Holds(u) /\ loc[u].o = o)'
    BY <1>3, <1>4
  <2> QED BY <1>1, <1>2, <2>1, <2>2, UnheldSignals
<1>5. CASE \E u \in Tsk : Holds(u) /\ loc[u].o = o
  <2>1. PICK u \in Tsk : Holds(u) /\ loc[u].o = o
    BY <1>5
  <2>2. Signalled(u, o) /\ (y.abort_tskid # NoObj => pc[u] \in Counts)
    BY <2>1, HolderSignals
  <2>3. u # t /\ pc'[u] = pc[u] /\ loc'[u] = loc[u]
    BY <2>1, HolderFacts DEF Others
  <2>4. \A v \in Tsk : (Holds(v) /\ loc[v].o = o)' => v = u
    BY <1>3, <2>1, HolderFacts
  <2>5. (Holds(u) /\ loc[u].o = o)'
    BY <2>1, <2>3 DEF Holds
  <2>6. pc[u] \notin {"open", "drain", "close", "closefn"}
    BY <1>2, <2>1, <2>2 DEF Signalled, OpnInv, Holders
  <2>7. CASE pc[u] \in Counts
    <3>1. /\ y.abort_tskid = u /\ y.abort_cnt = Calls(o) /\ u # NoObj
          /\ pc[u] = "aborted" => y.abort_cnt = 0 \/ y.sem = 0
          /\ pc[u] = "abtwai" => y.sem = (IF y.abort_cnt = 0 THEN 1 ELSE 0)
          /\ pc[u] = "abtend" => y.abort_cnt = 0
          /\ loc[u].reqs = <<>>
      BY <2>2, <2>7, Constants DEF Signalled, Counts
    <3>2. pc[u] # "abtend" /\ y.abort_cnt # 0 /\ y.sem = 0
      BY <2>7, <3>1 DEF Counts
    <3>3. /\ z.abort_cnt = Calls(o)' /\ z.abort_tskid = u
          /\ z.sem = IF Calls(o)' = 0 THEN 1 ELSE 0
      BY <1>1, <3>1, <3>2
    <3>4. Signalled(u, o)'
      BY <2>3, <2>7, <3>1, <3>2, <3>3 DEF Signalled, Counts
    <3> QED BY <2>3, <2>4, <2>5, <2>7, <3>3, <3>4, SoleSignals
  <2>8. CASE pc[u] \notin Counts
    <3>1. pc[u] = "abort" /\ y.abort_tskid = NoObj
      BY <2>1, <2>2, <2>6, <2>8 DEF Holds, Holding, Aborting, Counts
    <3>2. y.sem = 0 /\ loc[u].reqs = <<>>
      BY <2>2, <3>1 DEF Signalled
    <3>3. Signalled(u, o)'
      BY <1>1, <2>3, <3>1, <3>2 DEF Signalled, Counts
    <3> QED BY <1>1, <1>2, <2>4, <2>5, <3>1, <3>3, SoleSignals
  <2> QED BY <2>7, <2>8
<1> QED BY <1>4, <1>5

LEMMA AnswerReqs ==
    ASSUME Typed, OpnInv, ReqInv, NEW t \in Tsk, Answer(t)
    PROVE  ReqInv'
<1> SUFFICES ASSUME NEW o, o = loc[t].o PROVE ReqInv'
  OBVIOUS
<1>1. o \in OpnCB /\ \E k \in Tables : CallEnds(t, k)
  BY AnswerTyped
<1>2. PICK k \in Tables : CallEnds(t, k)
  BY <1>1
<1>3. pc[t] \in Driving /\ Return(t) /\ told' = told \ {t}
  BY <1>2 DEF CallEnds, CallOver, Driving
<1>4. Others(t) /\ pc'[t] = "out"
  BY <1>3, GotoFacts DEF Return
<1>5. Block(o) /\ FreeReqs
  BY <1>1 DEF ReqInv
<1>6. Ended(t, o)
  BY <1>1, <1>2, <1>3, <1>5, CallHasEnded
<1>7. /\ FreeReqs' /\ IsInjective(dm'.opn[o].requestq)
      /\ ToSet(dm'.opn[o].requestq) = ReqOf(o)'
  BY <1>1, <1>6, QueuedNow DEF Ended
<1>8. /\ Marks(o)' /\ Waiting(o)' /\ dm.opn[o].devcb # NoObj
      /\ Calls(o)' \in Nat /\ Calls(o) = Calls(o)' + 1
  BY <1>1, <1>3, <1>4, <1>5, <1>6, <1>7, CallsLeft
<1>9. Signals(o)'
  BY <1>1, <1>3, <1>4, <1>6, <1>8, CallCounted
<1>10. Only(t, o)
  <2>1. At(t) = o /\ At(t)' = NoObj
    BY <1>3, <1>4 DEF At, Holding, Aborting, Driving
  <2>2. Owns(t, o)
    BY <1>1, <1>3, <1>5, MarksNow DEF Block, Drives
  <2> QED BY <1>4, <1>6, <2>1, <2>2 DEF Only, Ended, Owns, ReqOf
<1>11. Block(o)' /\ told' \subseteq Tsk
  BY <1>3, <1>8, <1>9 DEF Block, ReqInv
<1> QED BY <1>1, <1>7, <1>10, <1>11, OnlyExact

-----------------------------------------------------------------------------
(***************************************************************************)
(* Requests and the control blocks                                         *)
(***************************************************************************)
LEMMA InitReqs ==
    ASSUME Init
    PROVE  ReqInv
<1>1. /\ Typed /\ dm.opn = [o \in OpnCB |-> UnusedOpn]
      /\ dm.req = [r \in ReqCB |-> UnusedReq] /\ dm.freereq = SetToSeq(ReqCB)
  BY InitTables
<1>2. ToSet(SetToSeq(ReqCB)) = ReqCB /\ IsInjective(SetToSeq(ReqCB))
  BY FreeQueue, DeviceAssumption
<1>3. ToSet(<<>>) = {} /\ IsInjective(<<>>)
  BY EmptySeq DEF ToSet, IsInjective
<1>4. FreeReqs
  BY <1>1, <1>2 DEF FreeReqs, ReqOf, UnusedReq
<1>5. ASSUME NEW o \in OpnCB PROVE Block(o)
  <2>1. ReqOf(o) = {} /\ Busy(o) = {} /\ Waits(o) = {} /\ dm.opn[o] = UnusedOpn
    BY <1>1, Constants DEF ReqOf, Busy, Waits, UnusedReq
  <2>2. \A t \in Tsk : ~Drives(t, o) /\ ~AnyWaits(t, o) /\ ~Holds(t)
    BY DEF Init, Drives, AnyWaits, Holds, Driving, Holding, Aborting
  <2>3. Marks(o)
    BY <1>3, <2>1, <2>2 DEF Marks, UnusedOpn
  <2>4. Waiting(o)
    BY <2>1, <2>2, FS_EmptySet DEF Waiting, UnusedOpn
  <2>5. Signals(o)
    BY <2>1, <2>2 DEF Signals, UnusedOpn
  <2> QED BY <2>3, <2>4, <2>5 DEF Block
<1> QED BY <1>4, <1>5 DEF ReqInv, Init

LEMMA ReqStep ==
    ASSUME Typed, OpnInv, Modes(dm), ReqInv, AloneAtShutdown, NoOverlap', [Next]_vars
    PROVE  ReqInv'
<1>1. ASSUME NEW t \in Managers, ManagerCall(t)
      PROVE  ReqInv'
  <2>1. t \in Tsk
    BY DEF Tsk
  <2> QED BY <1>1, <2>1, RegistrationReqs, OpenReqs, BeginCloseReqs, SuspendReqs, CleanupReqs
          DEF ManagerCall
<1>2. ASSUME NEW t \in Managers, Step(t)
      PROVE  ReqInv'
  <2>1. t \in Tsk
    BY DEF Tsk
  <2> QED BY <1>2, <2>1, OpenEndReqs, AbortAllReqs, AbortStepReqs, DrainReqs, CloseDeviceReqs,
             CloseEndReqs, SuspendReqs DEF Step
<1>3. ASSUME NEW t \in Users, UserCall(t)
      PROVE  ReqInv'
  <2>1. t \in Tsk
    BY DEF Tsk
  <2> QED BY <1>3, <2>1, RequestReqs, WaitReqs, WaitAnyReqs DEF UserCall
<1>4. ASSUME NEW t \in Users, Answer(t)
      PROVE  ReqInv'
  BY <1>4, AnswerReqs DEF Tsk
<1>5. CASE UNCHANGED vars
  BY <1>5, StillReqs DEF vars, SameReq
<1> QED BY <1>1, <1>2, <1>3, <1>4, <1>5 DEF Next

\* What the invariant says of a task in the driver.
LEMMA InUse ==
    ASSUME Typed, OpnInv, ReqInv
    PROVE  NoUseAfterClose
<1>1. AbortCompletes
  <2> SUFFICES ASSUME NEW t \in Tsk, NEW u \in Tsk, pc[t] \in {"abtend", "drain", "close"},
                      InDriver(u), loc[t].o = loc[u].o
               PROVE  FALSE
    BY DEF AbortCompletes
  <2> SUFFICES ASSUME NEW o, o = loc[t].o PROVE FALSE
    OBVIOUS
  <2>1. Holds(t)
    BY DEF Holds, Holding, Aborting
  <2>2. o \in OpnCB /\ Block(o) /\ Signalled(t, o)
    BY <2>1, HolderSignals
  <2>3. Drives(u, o)
    BY DEF InDriver, Drives, Driving
  <2>4. Calls(o) # 0 /\ Busy(o) # {}
    BY <2>2, <2>3, BlockFacts
  <2> QED BY <2>2, <2>4 DEF Signalled, Counts
<1>2. ASSUME NEW t \in Tsk, InDriver(t)
      PROVE  /\ loc[t].o \in ToSet(dm.resq)
             /\ \A r \in ToSet(loc[t].reqs) :
                  dm.req[r].opncb = loc[t].o /\ dm.req[r].tskid # NoObj
  <2> SUFFICES ASSUME NEW o, o = loc[t].o
               PROVE  /\ o \in ToSet(dm.resq)
                      /\ \A r \in ToSet(loc[t].reqs) :
                           dm.req[r].opncb = o /\ dm.req[r].tskid # NoObj
    OBVIOUS
  <2>1. o \in OpnCB /\ Drives(t, o)
    BY <1>2 DEF InDriver, Drives, Driving, Typed, Controlled
  <2>2. Block(o)
    BY <2>1 DEF ReqInv
  <2>3. Owns(t, o) /\ t # NoObj
    BY <2>1, <2>2, MarksNow, Constants DEF Block
  <2>4. dm.opn[o].devcb # NoObj
    BY <2>1, <2>2, BlockFacts
  <2> QED BY <2>1, <2>3, <2>4 DEF Owns, ReqOf, OpnInv, OpnTables
<1> QED BY <1>1, <1>2 DEF NoUseAfterClose

\* While a task is in the driver of a device, the device stays open and its
\* requests stay its own: a close frees nothing that the driver still uses,
\* for any number of tasks, devices and requests; provided that no task waits
\* for any request of a device where another executes one, and that no other
\* task is in the device manager at shutdown.
THEOREM UseEndsBeforeClose == Spec /\ []NoOverlap /\ []AloneAtShutdown => []NoUseAfterClose
<1> DEFINE Inv == Typed /\ DevInv /\ OpnInv /\ Modes(dm) /\ ReqInv
<1>1. Init => Inv
  BY InitTables, InitDev, InitOpn, InitReqs
<1>2. Inv /\ AloneAtShutdown /\ NoOverlap' /\ [Next]_vars => Inv'
  BY TypedStep, DevStep, OpnStep, ReqStep
<1>3. Inv => NoUseAfterClose
  BY InUse
<1> QED BY <1>1, <1>2, <1>3, PTL DEF Spec

\* An open control block is in one place.
LEMMA OnePlace ==
    ASSUME Typed, OpnInv, NEW o \in OpnCB
    PROVE  Cardinality(Closing(o)) + Cardinality({d \in DevCB : o \in ToSet(dm.dev[d].openq)})
              + (IF o \in ToSet(dm.freeopn) THEN 1 ELSE 0) = 1
<1> DEFINE D == {d \in DevCB : o \in ToSet(dm.dev[d].openq)}
<1>1. \A d \in D : dm.opn[o].devcb = d /\ d # NoObj
  BY Constants DEF OpnInv, OpnTables
<1>2. \A t \in Closing(o) : Holds(t) /\ pc[t] = "closefn" /\ loc[t].o = o
  BY DEF Closing, Holds, Holding
<1>3. Cardinality({}) = 0
  BY FS_EmptySet
<1>4. CASE dm.opn[o].devcb = NoObj
  <2>1. D = {}
    BY <1>1, <1>4
  <2>2. CASE o \in ToSet(dm.freeopn)
    <3>1. Closing(o) = {}
      BY <1>2, <2>2 DEF OpnInv, Holders, Closing
    <3> QED BY <1>3, <2>1, <2>2, <3>1
  <2>3. CASE o \notin ToSet(dm.freeopn)
    <3>1. PICK t \in Tsk : pc[t] = "closefn" /\ loc[t].o = o
      BY <1>4, <2>3 DEF OpnInv, Holders
    <3>2. t \in Closing(o)
      BY <3>1 DEF Closing
    <3>3. \A u \in Closing(o) : u \in Tsk /\ u = t
      BY <1>2, <3>2 DEF OpnInv, Holders, Closing
    <3>4. Closing(o) = {t} /\ Cardinality({t}) = 1
      BY <3>2, <3>3, FS_Singleton
    <3>5. Cardinality(Closing(o)) = 1 /\ Cardinality(D) = 0
      BY <1>3, <2>1, <3>4
    <3> QED BY <2>3, <3>5
  <2> QED BY <2>2, <2>3
<1>5. CASE dm.opn[o].devcb # NoObj
  <2>1. Closing(o) = {} /\ o \notin ToSet(dm.freeopn)
    BY <1>2, <1>5 DEF OpnInv, OpnTables, Holders, Closing
  <2>2. dm.opn[o].devcb \in DevCB
    BY <1>5 DEF Typed, Tables, OpnRec
  <2>3. dm.opn[o].devcb \in D
    BY <1>5, <2>2 DEF OpnInv, OpnTables
  <2>4. D = {dm.opn[o].devcb} /\ Cardinality({dm.opn[o].devcb}) = 1
    BY <1>1, <2>3, FS_Singleton
  <2>5. Cardinality(Closing(o)) = 0 /\ Cardinality(D) = 1
    BY <1>3, <2>1, <2>4
  <2> QED BY <2>1, <2>5
<1> QED BY <1>4, <1>5

LEMMA DeviceTypes ==
    ASSUME Typed, ReqInv
    PROVE  DeviceTypeOK
<1>1. dm \in Tables /\ loc \in [Tsk -> Local]
  BY DEF Typed, Controlled
<1>2. ASSUME NEW o \in OpnCB
      PROVE  /\ dm.opn[o].sem \in {0, 1} /\ dm.opn[o].resid \in {0, 1}
             /\ dm.opn[o].waitone \in Nat /\ dm.opn[o].abort_cnt \in Nat
             /\ dm.opn[o].abort_tskid \in Tsk \cup {NoObj}
  <2>1. Block(o) /\ dm.opn[o] \in OpnRec
    BY <1>1 DEF ReqInv, Tables
  <2>2. IsFiniteSet(Waits(o)) /\ dm.opn[o].waitone = Cardinality(Waits(o))
    BY <2>1, BlockFacts DEF Block, Waiting
  <2> QED BY <2>1, <2>2, FS_CardinalityType DEF Block, Signals, OpnRec
<1>3. /\ \A r \in ReqCB : dm.req[r].tskid \in Tsk \cup {NoObj}
      /\ \A t \in Tsk : loc[t].o \in OpnCB \cup {NoObj} /\ loc[t].pass \in 0..4
      /\ dm.DisSusCnt \in 0..MaxDisSus
  BY <1>1 DEF Tables, ReqRec, Local
<1> QED BY <1>2, <1>3 DEF DeviceTypeOK, Typed, ReqInv

LEMMA BlocksAre ==
    ASSUME Typed, DevInv, OpnInv, ReqInv
    PROVE  DeviceBlocksExact
<1>1. DeviceTypeOK
  BY DeviceTypes
<1>2. Once(dm.used \o dm.freedev) /\ ToSet(dm.used \o dm.freedev) = DevCB
  <2>1. /\ dm.used \in Seq(DevCB) /\ dm.freedev \in Seq(DevCB)
        /\ IsInjective(dm.used) /\ IsInjective(dm.freedev)
        /\ ToSet(dm.used) \cap ToSet(dm.freedev) = {}
    BY DEF Typed, Tables, DevInv
  <2>2. /\ IsInjective(dm.used \o dm.freedev)
        /\ ToSet(dm.used \o dm.freedev) = ToSet(dm.used) \cup ToSet(dm.freedev)
    BY <2>1, InjectiveConcat
  <2> QED BY <2>2 DEF DevInv, Once
<1>3. \A nm \in Name : \A d, e \in Registered(nm) : d = e
  BY DEF DevInv, Registered
<1>4. /\ Once(dm.freeopn) /\ Once(dm.resq) /\ Once(dm.freereq)
      /\ \A d \in DevCB : Once(dm.dev[d].openq)
  BY DEF OpnInv, OpnTables, ReqInv, FreeReqs, Once
<1>5. ASSUME NEW o \in OpnCB
      PROVE  /\ Cardinality(Closing(o)) + Cardinality({d \in DevCB : o \in ToSet(dm.dev[d].openq)})
                  + (IF o \in ToSet(dm.freeopn) THEN 1 ELSE 0) = 1
             /\ \A d \in DevCB : o \in ToSet(dm.dev[d].openq) =>
                    d \in ToSet(dm.used) /\ dm.opn[o].devcb = d /\ o \in ToSet(dm.resq)
             /\ ToSet(dm.opn[o].requestq) = {r \in ReqCB : dm.req[r].opncb = o}
             /\ Once(dm.opn[o].requestq)
             /\ dm.opn[o].devcb = NoObj => dm.opn[o] = UnusedOpn
  <2>1. \A d \in DevCB : o \in ToSet(dm.dev[d].openq) =>
           d \in ToSet(dm.used) /\ dm.opn[o].devcb = d /\ o \in ToSet(dm.resq)
    BY Constants DEF OpnInv, OpnTables
  <2>2. Marks(o)
    BY DEF ReqInv, Block
  <2> QED BY <2>1, <2>2, OnePlace DEF Marks, ReqOf, Once
<1>6. \A r \in ReqCB : r \in ToSet(dm.freereq) <=> dm.req[r].opncb = NoObj
  BY DEF ReqInv, FreeReqs, ReqOf
<1> QED BY <1>1, <1>2, <1>3, <1>4, <1>5, <1>6 DEF DeviceBlocksExact

\* Every control block of the device manager is in one place: registered, open
\* or free, an open control block with the task that closes it for the time of
\* closefn, and a request on the queue of its open device; none is lost or
\* queued twice, whatever the drivers answer and whichever step fails, on the
\* same two provisos.
THEOREM BlocksExact == Spec /\ []NoOverlap /\ []AloneAtShutdown => []DeviceBlocksExact
<1> DEFINE Inv == Typed /\ DevInv /\ OpnInv /\ Modes(dm) /\ ReqInv
<1>1. Init => Inv
  BY InitTables, InitDev, InitOpn, InitReqs
<1>2. Inv /\ AloneAtShutdown /\ NoOverlap' /\ [Next]_vars => Inv'
  BY TypedStep, DevStep, OpnStep, ReqStep
<1>3. Inv => DeviceBlocksExact
  BY BlocksAre
<1> QED BY <1>1, <1>2, <1>3, PTL DEF Spec
=============================================================================
