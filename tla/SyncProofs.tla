----------------------------- MODULE SyncProofs -----------------------------
(***************************************************************************)
(* Tasks that wait for objects: what the operators of WaitObject and the   *)
(* calls of task management do to a kernel state in which every task is    *)
(* linked where its state and its wait say.  Then semaphores, event flags  *)
(* and mailboxes: they keep their wait queues and serve every task that    *)
(* can be served, for any number of tasks, priorities, objects, units,     *)
(* bits and messages.                                                      *)
(***************************************************************************)
EXTENDS SyncObjects, TKernelProofs, FiniteSetTheorems

WaitField == {"wid", "winfo"}

\* A wait has ended, or ends, when wid is NoObj: its task is in no ring.
TaskPlace(k, t) ==
    CASE k.state[t] = "READY" -> {k.priority[t]}
      [] k.state[t] = "NONEXIST" -> {FreeTcb}
      [] k.state[t] \in WaitBit -> {k.wid[t]} \ {NoObj}
      [] OTHER -> {}

TaskPlaces(k) == [t \in Task |-> TaskPlace(k, t)]

WaitTypes(k) ==
    /\ WaitField \subseteq DOMAIN k
    /\ k.wid \in [Task -> WaitQ \cup {NoObj}]
    /\ DOMAIN k.winfo = Task /\ DOMAIN k.wercd = Task
    /\ k.winfo = [t \in Task |-> k.winfo[t]] /\ k.wercd = [t \in Task |-> k.wercd[t]]
    /\ \A t \in Task : ~k.klocked[t] /\ ~k.klockwait[t]

\* Only a task that waits has an object and a timer event.
WaitsOnly(k, t) == k.wid[t] # NoObj \/ k.wtmeb[t] => k.state[t] \in WaitBit

KState(k) ==
    /\ Steady(k, TaskPlaces(k))
    /\ WaitTypes(k)
    /\ \A t \in Task : WaitsOnly(k, t)

(***************************************************************************)
(* Places and queues.                                                      *)
(***************************************************************************)
LEMMA PlaceCases ==
    ASSUME NEW k, KState(k), NEW t \in Task
    PROVE  LET r == TaskPlaces(k)
           IN  /\ r \in Places /\ r[t] = TaskPlace(k, t)
               /\ k.state[t] = "READY" => r[t] = {k.priority[t]} /\ Runnable(k, r, t)
               /\ k.state[t] = "NONEXIST" => r[t] = {FreeTcb}
               /\ k.state[t] \in WaitBit => r[t] = {k.wid[t]} \ {NoObj}
               /\ k.state[t] \notin WaitBit \cup {"READY", "NONEXIST"} => r[t] = {}
               /\ k.state[t] # "READY" => r[t] \cap Pri = {} /\ ~Runnable(k, r, t)
               /\ r[t] \cap WaitQ = {k.wid[t]} \ {NoObj}
<1> DEFINE r == TaskPlaces(k)
           s == k.state[t]
<1>1. /\ r \in Places /\ r[t] = TaskPlace(k, t) /\ k.priority[t] \in Pri
      /\ k.wid[t] \in WaitQ \cup {NoObj}
      /\ k.wid[t] # NoObj => s \in WaitBit
  BY DEF KState, Steady, Ready, Kernel, TaskPlaces, WaitTypes, WaitsOnly
<1>2. /\ s = "READY" => s # "NONEXIST" /\ s \notin WaitBit
      /\ s = "NONEXIST" => s \notin WaitBit
  BY ATaskWaits
<1>3. FreeTcb \notin Pri /\ WaitQ \cap Pri = {} /\ FreeTcb \notin WaitQ
  BY OtherHeads, QueueHeadAssumption
<1>4. CASE s = "READY"
  <2>1. TaskPlace(k, t) = {k.priority[t]}
    BY <1>4, <1>2 DEF TaskPlace, s
  <2>2. r[t] = {k.priority[t]} /\ k.wid[t] = NoObj
    BY <2>1, <1>1, <1>2, <1>4
  <2> HIDE DEF r
  <2>3. r[t] \cap WaitQ = {k.wid[t]} \ {NoObj}
    BY <2>2, <1>1, <1>3
  <2> QED BY <2>2, <2>3, <1>1, <1>2, <1>4 DEF r, s, Runnable
<1>5. CASE s = "NONEXIST"
  <2>1. TaskPlace(k, t) = {FreeTcb}
    BY <1>5, <1>2 DEF TaskPlace, s
  <2>2. r[t] = {FreeTcb} /\ k.wid[t] = NoObj /\ s # "READY" /\ s \notin WaitBit
    BY <2>1, <1>1, <1>2, <1>5
  <2> HIDE DEF r
  <2>3. r[t] \cap WaitQ = {k.wid[t]} \ {NoObj} /\ r[t] \cap Pri = {}
    BY <2>2, <1>1, <1>3
  <2> QED BY <2>2, <2>3, <1>1, <1>5 DEF r, s, Runnable
<1>6. CASE s \in WaitBit
  <2>1. s # "READY" /\ s # "NONEXIST"
    BY <1>2, <1>6
  <2>2. TaskPlace(k, t) = {k.wid[t]} \ {NoObj}
    BY <2>1, <1>6 DEF TaskPlace
  <2>3. r[t] = {k.wid[t]} \ {NoObj}
    BY <2>2, <1>1
  <2> HIDE DEF r
  <2>4. r[t] \cap WaitQ = {k.wid[t]} \ {NoObj} /\ r[t] \cap Pri = {}
    BY <2>3, <1>1, <1>3
  <2> QED BY <2>1, <2>3, <2>4, <1>1, <1>6 DEF r, s, Runnable
<1>7. CASE s \notin WaitBit \cup {"READY", "NONEXIST"}
  <2>1. TaskPlace(k, t) = {}
    BY <1>7 DEF TaskPlace
  <2>2. r[t] = {} /\ k.wid[t] = NoObj
    BY <2>1, <1>1, <1>7
  <2> HIDE DEF r
  <2> QED BY <2>2, <1>1, <1>7 DEF r, s, Runnable
<1> QED BY <1>4, <1>5, <1>6, <1>7

\* The ring of an object has the tasks that wait for it.
LEMMA RingHasWaiters ==
    ASSUME NEW k, KState(k), NEW h \in WaitQ
    PROVE  /\ k.que[h] \in Seq(Task) /\ IsInjective(k.que[h]) /\ h \in OtherHead /\ h \in QueHead
           /\ \A t \in Task : InRing(k.que[h], t) <=> k.wid[t] = h /\ h # NoObj
<1>1. h \in OtherHead /\ h \in QueHead
  BY OtherHeads
<1>2. /\ k.que[h] \in Seq(Task) /\ IsInjective(k.que[h])
      /\ \A t \in Task : InRing(k.que[h], t) <=> h \in TaskPlaces(k)[t]
  BY <1>1 DEF KState, Steady, Ready, Kernel, Rings, Linked
<1>3. ASSUME NEW t \in Task
      PROVE  h \in TaskPlaces(k)[t] <=> k.wid[t] = h /\ h # NoObj
  <2>1. TaskPlaces(k)[t] \cap WaitQ = {k.wid[t]} \ {NoObj}
    BY PlaceCases
  <2> QED BY <2>1
<1> QED BY <1>1, <1>2, <1>3

\* A task that waits for no object is in no ring of one.
LEMMA NotQueued ==
    ASSUME NEW k, KState(k), NEW t \in Task, NEW h \in WaitQ, k.wid[t] # h \/ h = NoObj
    PROVE  Unlink(k.que[h], t) = k.que[h]
<1>1. ~InRing(k.que[h], t)
  BY RingHasWaiters
<1> QED BY <1>1 DEF Unlink

(***************************************************************************)
(* A step that concerns one task.                                          *)
(***************************************************************************)
TaskField == KernelField \cup WaitField

SameTask(k1, k, u) ==
    /\ k1.state[u] = k.state[u] /\ k1.priority[u] = k.priority[u]
    /\ k1.wspec[u] = k.wspec[u] /\ k1.wercd[u] = k.wercd[u] /\ k1.wtmeb[u] = k.wtmeb[u]
    /\ k1.wid[u] = k.wid[u] /\ k1.winfo[u] = k.winfo[u]

Concerns(k1, k, t) ==
    /\ KState(k1)
    /\ Only(k1, k, TaskField)
    /\ \A u \in Task \ {t} : SameTask(k1, k, u)

LEMMA ConcernsOne ==
    ASSUME NEW k, KState(k), NEW t \in Task, NEW k1, Only(k1, k, TaskField),
           NEW x, Steady(k1, [TaskPlaces(k) EXCEPT ![t] = x]), TaskPlace(k1, t) = x,
           WaitTypes(k1), WaitsOnly(k1, t),
           \A u \in Task \ {t} : SameTask(k1, k, u)
    PROVE  Concerns(k1, k, t)
<1>1. \A u \in Task \ {t} : TaskPlace(k1, u) = TaskPlace(k, u)
  BY DEF TaskPlace, SameTask
<1>2. TaskPlaces(k1) = [TaskPlaces(k) EXCEPT ![t] = x]
  BY <1>1 DEF TaskPlaces
<1>3. \A u \in Task \ {t} : WaitsOnly(k1, u)
  BY DEF WaitsOnly, SameTask, KState
<1> QED BY <1>2, <1>3 DEF Concerns, KState

\* The same when its wait has no part in it.
LEMMA ConcernsState ==
    ASSUME NEW k, KState(k), NEW t \in Task, NEW k1, NEW F, Only(k1, k, F),
           F \subseteq KernelField \ {"wtmeb"},
           NEW x, Steady(k1, [TaskPlaces(k) EXCEPT ![t] = x]), TaskPlace(k1, t) = x,
           \A u \in Task : ~k1.klocked[u] /\ ~k1.klockwait[u],
           k.state[t] \in WaitBit => k1.state[t] \in WaitBit,
           \A u \in Task \ {t} :
              /\ k1.state[u] = k.state[u] /\ k1.priority[u] = k.priority[u]
              /\ k1.wspec[u] = k.wspec[u] /\ k1.wercd[u] = k.wercd[u],
           k1.wercd = [u \in Task |-> k1.wercd[u]]
    PROVE  Concerns(k1, k, t) /\ k1.wid = k.wid /\ k1.winfo = k.winfo /\ k1.wtmeb = k.wtmeb
<1>1. /\ KernelField \cup WaitField \subseteq DOMAIN k /\ WaitTypes(k) /\ WaitsOnly(k, t)
  BY DEF KState, Steady, Ready, Kernel, WaitTypes
<1>2. /\ k1.wid = k.wid /\ k1.winfo = k.winfo /\ k1.wtmeb = k.wtmeb
      /\ DOMAIN k1 = DOMAIN k
  <2>1. /\ "wid" \in DOMAIN k \ F /\ "winfo" \in DOMAIN k \ F /\ "wtmeb" \in DOMAIN k \ F
    BY <1>1 DEF KernelField, WaitField
  <2> QED BY <2>1 DEF Only
<1>3. Only(k1, k, TaskField)
  BY DEF Only, TaskField
<1>4. WaitTypes(k1)
  BY <1>1, <1>2 DEF WaitTypes
<1>5. WaitsOnly(k1, t)
  BY <1>1, <1>2 DEF WaitsOnly
<1>6. \A u \in Task \ {t} : SameTask(k1, k, u)
  BY <1>2 DEF SameTask
<1> QED BY <1>2, <1>3, <1>4, <1>5, <1>6, ConcernsOne

\* The wait of task u goes on, if it waits, or has ended as it had.
Kept(k1, k, u) ==
    /\ k1.state[u] \in WaitBit <=> k.state[u] \in WaitBit
    /\ k1.wid[u] = k.wid[u] /\ k1.winfo[u] = k.winfo[u]
    /\ k.state[u] \in WaitBit => k1.wspec[u] = k.wspec[u]
    /\ k.state[u] # "NONEXIST" => k1.state[u] # "NONEXIST" /\ k1.wercd[u] = k.wercd[u]

\* No task begins or ends a wait.
Undisturbed(k1, k) ==
    /\ KState(k1)
    /\ Only(k1, k, TaskField)
    /\ \A u \in Task : Kept(k1, k, u)

SameInKernel(k1, k, u) ==
    /\ k1.state[u] = k.state[u] /\ k1.priority[u] = k.priority[u]
    /\ k1.wspec[u] = k.wspec[u] /\ k1.wercd[u] = k.wercd[u]

\* What the kernel's part of a task and its place have to do for that.
Moved(k1, k, t, F) ==
    /\ Only(k1, k, F) /\ F \subseteq KernelField \ {"wtmeb"}
    /\ Steady(k1, [TaskPlaces(k) EXCEPT ![t] = TaskPlace(k1, t)])
    /\ \A u \in Task : ~k1.klocked[u] /\ ~k1.klockwait[u]
    /\ \A u \in Task \ {t} : SameInKernel(k1, k, u)
    /\ k1.wercd = [u \in Task |-> k1.wercd[u]]
    /\ k1.state[t] \in WaitBit <=> k.state[t] \in WaitBit
    /\ k.state[t] \in WaitBit => k1.wspec[t] = k.wspec[t]
    /\ k.state[t] # "NONEXIST" => k1.state[t] # "NONEXIST" /\ k1.wercd[t] = k.wercd[t]

LEMMA TaskMoves ==
    ASSUME NEW k, KState(k), NEW t \in Task, NEW k1, NEW F, Moved(k1, k, t, F)
    PROVE  Undisturbed(k1, k)
<1>1. /\ Only(k1, k, F) /\ F \subseteq KernelField \ {"wtmeb"}
      /\ Steady(k1, [TaskPlaces(k) EXCEPT ![t] = TaskPlace(k1, t)])
      /\ \A u \in Task : ~k1.klocked[u] /\ ~k1.klockwait[u]
      /\ \A u \in Task \ {t} :
            /\ k1.state[u] = k.state[u] /\ k1.priority[u] = k.priority[u]
            /\ k1.wspec[u] = k.wspec[u] /\ k1.wercd[u] = k.wercd[u]
      /\ k1.wercd = [u \in Task |-> k1.wercd[u]]
      /\ k.state[t] \in WaitBit => k1.state[t] \in WaitBit
  BY DEF Moved, SameInKernel
<1>2. Concerns(k1, k, t) /\ k1.wid = k.wid /\ k1.winfo = k.winfo /\ k1.wtmeb = k.wtmeb
  BY <1>1, ConcernsState
<1>3. Kept(k1, k, t)
  BY <1>2 DEF Kept, Moved
<1>4. \A u \in Task \ {t} : Kept(k1, k, u)
  BY <1>2 DEF Kept, Concerns, SameTask
<1> QED BY <1>2, <1>3, <1>4 DEF Undisturbed, Concerns

\* No wait queue changes, and no priority of a task in one.
Aside(k1, k) ==
    /\ \A h \in WaitQ : k1.que[h] = k.que[h]
    /\ \A u \in Task : k.wid[u] # NoObj => k1.priority[u] = k.priority[u]

LEMMA AsideTwice ==
    ASSUME NEW k, NEW k1, NEW k2, Aside(k1, k), Aside(k2, k1), Undisturbed(k1, k)
    PROVE  Aside(k2, k)
  BY DEF Aside, Undisturbed, Kept

\* A step of a task that is in no wait queue.
LEMMA AsideTask ==
    ASSUME NEW k, KState(k), NEW t \in Task, k.state[t] \notin WaitBit, NEW k1,
           \A u \in Task \ {t} : k1.priority[u] = k.priority[u],
           \A h \in OtherHead \ {FreeTcb} : k1.que[h] = k.que[h] \/ k1.que[h] = Unlink(k.que[h], t)
    PROVE  Aside(k1, k)
<1>1. k.wid[t] = NoObj
  BY DEF KState, WaitsOnly
<1>2. ASSUME NEW h \in WaitQ PROVE k1.que[h] = k.que[h]
  <2>1. k.wid[t] # h \/ h = NoObj
    BY <1>1
  <2>2. Unlink(k.que[h], t) = k.que[h]
    BY <2>1, NotQueued
  <2>3. h \in OtherHead \ {FreeTcb}
    BY OtherHeads, QueueHeadAssumption
  <2> QED BY <2>2, <2>3
<1> QED BY <1>1, <1>2 DEF Aside

LEMMA AsideFields ==
    ASSUME NEW k, KState(k), NEW k1, NEW F, Only(k1, k, F), F \cap {"que", "priority"} = {}
    PROVE  Aside(k1, k)
<1>1. "que" \in DOMAIN k \ F /\ "priority" \in DOMAIN k \ F
  BY DEF KState, Steady, Ready, Kernel, KernelField
<1> QED BY <1>1 DEF Only, Aside

(***************************************************************************)
(* The calls on tasks that leave every wait as it is.                      *)
(***************************************************************************)
LEMMA StateFacts ==
    ASSUME NEW k, KState(k)
    PROVE  /\ Steady(k, TaskPlaces(k)) /\ Ready(k, TaskPlaces(k)) /\ Kernel(k) /\ WaitTypes(k)
           /\ KernelField \cup WaitField \subseteq DOMAIN k
           /\ k.klocked = [u \in Task |-> FALSE] /\ k.klockwait = [u \in Task |-> FALSE]
<1>1. /\ Steady(k, TaskPlaces(k)) /\ Ready(k, TaskPlaces(k)) /\ Kernel(k) /\ WaitTypes(k)
      /\ KernelField \cup WaitField \subseteq DOMAIN k
  BY DEF KState, Steady, Ready, Kernel, WaitTypes
<1>2. k.klocked \in [Task -> BOOLEAN] /\ k.klockwait \in [Task -> BOOLEAN]
      /\ \A u \in Task : ~k.klocked[u] /\ ~k.klockwait[u]
  BY <1>1 DEF Kernel, WaitTypes
<1>3. k.klocked = [u \in Task |-> FALSE]
  BY <1>2
<1>4. k.klockwait = [u \in Task |-> FALSE]
  BY <1>2
<1> QED BY <1>1, <1>3, <1>4

\* tk_sta_tsk
LEMMA StartState ==
    ASSUME NEW k, KState(k), NEW t \in Task, k.state[t] = "DORMANT"
    PROVE  Undisturbed(MakeReady(k, t), k) /\ Aside(MakeReady(k, t), k)
<1> DEFINE r == TaskPlaces(k)
           k1 == MakeReady(k, t)
           F == ReadyQue \cup {"state", "schedtsk"}
<1>1. Steady(k, r) /\ Kernel(k) /\ WaitTypes(k) /\ ~k.klockwait[t]
      /\ KernelField \cup WaitField \subseteq DOMAIN k
  BY StateFacts DEF WaitTypes
<1>2. r[t] = {}
  BY PlaceCases, ATaskWaits
<1> HIDE DEF r, k1
<1>3. MadeReady(k1, k, r, t)
  BY <1>1, <1>2, MakeReadySteady DEF k1
<1>4. /\ Steady(k1, [r EXCEPT ![t] = {k.priority[t]}])
      /\ Only(k1, k, F) /\ k1.state = [k.state EXCEPT ![t] = "READY"]
  BY <1>3 DEF MadeReady
<1>5. F \subseteq KernelField \ {"wtmeb"}
  BY DEF ReadyQue, KernelField
<1>6. /\ k1.priority = k.priority /\ k1.klocked = k.klocked /\ k1.klockwait = k.klockwait
      /\ k1.wspec = k.wspec /\ k1.wercd = k.wercd
  BY <1>1, <1>4 DEF Only, KernelField, ReadyQue
<1>7. k1.state[t] = "READY" /\ \A u \in Task \ {t} : k1.state[u] = k.state[u]
  BY <1>1, <1>4 DEF Kernel
<1>8. TaskPlace(k1, t) = {k.priority[t]}
  BY <1>6, <1>7, ATaskWaits DEF TaskPlace
<1>9. Moved(k1, k, t, F)
  BY <1>1, <1>4, <1>5, <1>6, <1>7, <1>8, ATaskWaits DEF Moved, SameInKernel, WaitTypes, r
<1>10. Undisturbed(k1, k)
  BY <1>9, TaskMoves
<1>11. Aside(k1, k)
  BY <1>3, <1>6, ATaskWaits, AsideTask DEF MadeReady
<1> QED BY <1>10, <1>11 DEF k1

\* tk_sus_tsk
LEMMA SuspendState ==
    ASSUME NEW k, KState(k), NEW t \in Task, k.state[t] \in Alive
    PROVE  Undisturbed(Suspend(k, t), k) /\ Aside(Suspend(k, t), k)
<1> DEFINE r == TaskPlaces(k)
           k1 == Suspend(k, t)
           s == IF k.state[t] = "READY" THEN "SUSPEND"
                ELSE IF k.state[t] = "WAIT" THEN "WAITSUS" ELSE k.state[t]
           F == ReadyQue \cup {"klockwait", "schedtsk", "state", "suscnt"}
<1>1. Steady(k, r) /\ Kernel(k) /\ WaitTypes(k) /\ KernelField \cup WaitField \subseteq DOMAIN k
      /\ k.klockwait = [u \in Task |-> FALSE]
  BY StateFacts
<1>2. k.state[t] = "READY" => MayLeave(k, r, t)
  BY PlaceCases DEF MayLeave
<1> HIDE DEF r, k1
<1>3. Suspended(k1, k, r, t)
  BY <1>1, <1>2, SuspendSteady DEF k1
<1>4. /\ Steady(k1, IF k.state[t] = "READY" THEN [r EXCEPT ![t] = {}] ELSE r)
      /\ Only(k1, k, F)
      /\ k1.state = [k.state EXCEPT ![t] = s]
      /\ k1.klockwait = IF k.state[t] = "READY" THEN [k.klockwait EXCEPT ![t] = FALSE]
                        ELSE k.klockwait
  BY <1>3 DEF Suspended
<1>5. F \subseteq KernelField \ {"wtmeb"}
  BY DEF ReadyQue, KernelField
<1>6. /\ k1.priority = k.priority /\ k1.klocked = k.klocked
      /\ k1.wspec = k.wspec /\ k1.wercd = k.wercd /\ k1.wid = k.wid
  BY <1>1, <1>4 DEF Only, KernelField, WaitField, ReadyQue
<1>7. k1.klockwait = [u \in Task |-> FALSE]
  BY <1>1, <1>4
<1>8. k1.state[t] = s /\ \A u \in Task \ {t} : k1.state[u] = k.state[u]
  BY <1>1, <1>4 DEF Kernel
<1>9. k.state[t] \in {"READY", "WAIT", "SUSPEND", "WAITSUS"}
  BY DEF Alive
<1>10. (s \in WaitBit <=> k.state[t] \in WaitBit) /\ s # "NONEXIST"
  BY <1>9 DEF WaitBit
<1>11. Steady(k1, [r EXCEPT ![t] = TaskPlace(k1, t)])
  <2>1. CASE k.state[t] = "READY"
    <3>1. TaskPlace(k1, t) = {}
      BY <2>1, <1>8, ATaskWaits DEF TaskPlace
    <3> QED BY <2>1, <3>1, <1>4
  <2>2. CASE k.state[t] # "READY"
    <3>1. s # "READY"
      BY <2>2
    <3> HIDE DEF s
    <3>2. TaskPlace(k1, t) = TaskPlace(k, t)
      BY <2>2, <3>1, <1>6, <1>8, <1>9, <1>10 DEF TaskPlace
    <3>3. r = [r EXCEPT ![t] = TaskPlace(k1, t)]
      BY <3>2 DEF r, TaskPlaces
    <3> QED BY <2>2, <3>3, <1>4
  <2> QED BY <2>1, <2>2
<1> HIDE DEF s
<1>12. Moved(k1, k, t, F)
  BY <1>1, <1>4, <1>5, <1>6, <1>7, <1>8, <1>10, <1>11 DEF Moved, SameInKernel, WaitTypes, r
<1>13. Undisturbed(k1, k)
  BY <1>12, TaskMoves
<1>14. Aside(k1, k)
  <2>1. \A h \in OtherHead : k1.que[h] = IF k.state[t] = "READY" THEN Unlink(k.que[h], t)
                                         ELSE k.que[h]
    BY <1>3 DEF Suspended
  <2>2. CASE k.state[t] = "READY"
    BY <2>1, <2>2, <1>6, ATaskWaits, AsideTask
  <2>3. CASE k.state[t] # "READY"
    BY <2>1, <2>3, <1>6, OtherHeads DEF Aside
  <2> QED BY <2>2, <2>3
<1> QED BY <1>13, <1>14 DEF k1

\* A change of a field that no ring and no wait depends on.
LEMMA HiddenField ==
    ASSUME NEW k, KState(k), NEW k1, NEW F, F \subseteq {"bpriority", "suscnt"}, Only(k1, k, F)
    PROVE  Undisturbed(k1, k)
<1>1. Steady(k, TaskPlaces(k)) /\ Kernel(k) /\ WaitTypes(k)
      /\ KernelField \cup WaitField \subseteq DOMAIN k /\ \A u \in Task : WaitsOnly(k, u)
  BY StateFacts DEF KState
<1>2. /\ k1.state = k.state /\ k1.priority = k.priority /\ k1.klocked = k.klocked
      /\ k1.klockwait = k.klockwait /\ k1.wspec = k.wspec /\ k1.wercd = k.wercd
      /\ k1.wtmeb = k.wtmeb /\ k1.wid = k.wid /\ k1.winfo = k.winfo
      /\ DOMAIN k1 = DOMAIN k
  BY <1>1 DEF Only, KernelField, WaitField
<1>3. TaskPlaces(k1) = TaskPlaces(k)
  BY <1>2 DEF TaskPlaces, TaskPlace
<1>4. Steady(k1, TaskPlaces(k1))
  <2>1. F \cap {"que", "bitmap", "top_priority", "klocktsk", "schedtsk",
                "priority", "ipriority", "klocked", "klockwait"} = {}
    OBVIOUS
  <2>2. k1.state \in [Task -> TSTAT] /\ k1.wspec \in [Task -> WSpec]
        /\ k1.wtmeb \in [Task -> BOOLEAN]
    BY <1>1, <1>2 DEF Kernel
  <2> QED BY <1>1, <1>3, <2>1, <2>2, FieldsChange
<1>5. WaitTypes(k1)
  BY <1>1, <1>2 DEF WaitTypes
<1>6. \A u \in Task : WaitsOnly(k1, u)
  BY <1>1, <1>2 DEF WaitsOnly
<1>7. Only(k1, k, TaskField)
  BY DEF Only, TaskField, KernelField
<1>8. \A u \in Task : Kept(k1, k, u)
  BY <1>2 DEF Kept
<1> QED BY <1>4, <1>5, <1>6, <1>7, <1>8 DEF Undisturbed, KState

\* tk_rsm_tsk
LEMMA ResumeState ==
    ASSUME NEW k, KState(k), NEW t \in Task, k.state[t] \in {"SUSPEND", "WAITSUS"}, NEW count
    PROVE  Undisturbed(Resume(k, t, count), k) /\ Aside(Resume(k, t, count), k)
<1> DEFINE r == TaskPlaces(k)
           k1 == Resume(k, t, count)
           F == ReadyQue \cup {"state", "schedtsk", "suscnt"}
<1>1. Steady(k, r) /\ Kernel(k) /\ WaitTypes(k) /\ KernelField \cup WaitField \subseteq DOMAIN k
      /\ ~k.klockwait[t]
  BY StateFacts DEF WaitTypes
<1>2. k.state[t] = "SUSPEND" => r[t] = {} /\ ~k.klockwait[t]
  BY <1>1, PlaceCases, ATaskWaits
<1> HIDE DEF r, k1
<1>3. Unsuspended(k1, k, r, t)
  BY <1>1, <1>2, ResumeSteady DEF k1
<1>4. F \subseteq KernelField \ {"wtmeb"}
  BY DEF ReadyQue, KernelField
<1>5. ASSUME Only(k1, k, F)
      PROVE  /\ k1.priority = k.priority /\ k1.klocked = k.klocked /\ k1.klockwait = k.klockwait
             /\ k1.wspec = k.wspec /\ k1.wercd = k.wercd /\ k1.wid = k.wid
  BY <1>1, <1>5 DEF Only, KernelField, WaitField, ReadyQue
<1>6. CASE Only(k1, k, {"suscnt"})
  <2>1. Undisturbed(k1, k)
    BY <1>6, HiddenField
  <2>2. Aside(k1, k)
    BY <1>6, AsideFields
  <2> QED BY <2>1, <2>2 DEF k1
<1>7. CASE /\ k.state[t] = "SUSPEND"
           /\ Steady(k1, [r EXCEPT ![t] = {k.priority[t]}])
           /\ Only(k1, k, F)
           /\ k1.state = [k.state EXCEPT ![t] = "READY"]
           /\ \A h \in OtherHead : k1.que[h] = k.que[h]
  <2>1. k1.state[t] = "READY" /\ \A u \in Task \ {t} : k1.state[u] = k.state[u]
    BY <1>1, <1>7 DEF Kernel
  <2>2. TaskPlace(k1, t) = {k.priority[t]}
    BY <2>1, <1>5, <1>7, ATaskWaits DEF TaskPlace
  <2>3. Moved(k1, k, t, F)
    BY <2>1, <2>2, <1>1, <1>4, <1>5, <1>7, ATaskWaits DEF Moved, SameInKernel, WaitTypes, r
  <2>4. Undisturbed(k1, k)
    BY <2>3, TaskMoves
  <2>5. Aside(k1, k)
    BY <1>5, <1>7, OtherHeads DEF Aside
  <2> QED BY <2>4, <2>5 DEF k1
<1>8. CASE /\ k.state[t] # "SUSPEND"
           /\ Steady(k1, r)
           /\ Only(k1, k, {"state", "suscnt"})
           /\ k1.state = [k.state EXCEPT ![t] = "WAIT"]
  <2>1. Only(k1, k, F)
    BY <1>8 DEF Only
  <2>2. k1.state[t] = "WAIT" /\ \A u \in Task \ {t} : k1.state[u] = k.state[u]
    BY <1>1, <1>8 DEF Kernel
  <2>3. k.state[t] \in WaitBit /\ k1.state[t] \in WaitBit
    BY <1>8, <2>2 DEF WaitBit
  <2>4. TaskPlace(k1, t) = TaskPlace(k, t)
    BY <2>1, <2>3, <1>5, ATaskWaits DEF TaskPlace
  <2>5. r = [r EXCEPT ![t] = TaskPlace(k1, t)]
    BY <2>4 DEF r, TaskPlaces
  <2>6. Moved(k1, k, t, F)
    BY <2>1, <2>2, <2>3, <2>5, <1>1, <1>4, <1>5, <1>8 DEF Moved, SameInKernel, WaitTypes, r
  <2>7. Undisturbed(k1, k)
    BY <2>6, TaskMoves
  <2>8. Aside(k1, k)
    BY <1>8, AsideFields
  <2> QED BY <2>7, <2>8 DEF k1
<1> QED BY <1>3, <1>6, <1>7, <1>8 DEF Unsuspended

\* A task that does not exist is in the queue of free TCBs.
LEMMA FreeTask ==
    ASSUME NEW k, KState(k), k.que[FreeTcb] # <<>>, NEW t, t = Head(k.que[FreeTcb])
    PROVE  t \in Task /\ k.state[t] = "NONEXIST" /\ TaskPlaces(k)[t] = {FreeTcb}
<1> DEFINE s == k.que[FreeTcb]
           r == TaskPlaces(k)
<1>1. /\ s \in Seq(Task) /\ IsInjective(s) /\ FreeTcb \in QueHead /\ FreeTcb \notin Pri
      /\ \A u \in Task : InRing(s, u) <=> FreeTcb \in r[u]
  BY OtherHeads DEF KState, Steady, Ready, Kernel, Rings, Linked
<1>2. t \in Task /\ InRing(s, t)
  <2>1. t = Head(s) /\ s # <<>> /\ s \in Seq(Task) /\ IsInjective(s)
    BY <1>1
  <2> HIDE DEF s, r
  <2>2. Head(s) \in Task /\ InRing(s, Head(s))
    BY <2>1, TailEntries, InRingContains
  <2> QED BY <2>1, <2>2
<1> HIDE DEF s, r
<1>3. FreeTcb \in r[t] /\ k.priority[t] \in Pri
  BY <1>1, <1>2 DEF KState, Steady, Ready, Kernel
<1>4. k.wid[t] # FreeTcb \/ FreeTcb = NoObj
  <2>1. k.wid[t] \in WaitQ \cup {NoObj} /\ FreeTcb \notin WaitQ
    BY <1>2, QueueHeadAssumption DEF KState, WaitTypes
  <2> QED BY <2>1
<1>5. k.state[t] = "NONEXIST"
  <2>1. CASE k.state[t] = "READY"
    BY <2>1, <1>1, <1>2, <1>3, PlaceCases DEF r
  <2>2. CASE k.state[t] \in WaitBit
    BY <2>2, <1>2, <1>3, <1>4, PlaceCases DEF r
  <2>3. CASE k.state[t] \notin WaitBit \cup {"READY", "NONEXIST"}
    BY <2>3, <1>2, <1>3, PlaceCases DEF r
  <2> QED BY <2>1, <2>2, <2>3
<1> QED BY <1>2, <1>5, PlaceCases

\* tk_cre_tsk
LEMMA CreateState ==
    ASSUME NEW k, KState(k), NEW p \in Pri, k.que[FreeTcb] # <<>>
    PROVE  Undisturbed(CreateTcb(k, p), k) /\ Aside(CreateTcb(k, p), k)
<1> DEFINE t == Head(k.que[FreeTcb])
           r == TaskPlaces(k)
           k1 == CreateTcb(k, p)
           F == Dormancy \cup {"que", "ipriority"}
<1>1. t \in Task /\ k.state[t] = "NONEXIST" /\ r[t] = {FreeTcb}
  BY FreeTask
<1>2. Steady(k, r) /\ Kernel(k) /\ WaitTypes(k) /\ KernelField \cup WaitField \subseteq DOMAIN k
      /\ k.klocked = [u \in Task |-> FALSE] /\ k.klockwait = [u \in Task |-> FALSE]
  BY StateFacts
<1>3. Created(k1, k, r, t)
  <2> HIDE DEF r, k1
  <2>1. t \in Task /\ Created(CreateTcb(k, p), k, r, t)
    BY <1>1, <1>2, CreateTcbSteady
  <2> QED BY <2>1 DEF k1
<1> HIDE DEF t, r, k1
<1>4. /\ Steady(k1, [r EXCEPT ![t] = {}])
      /\ Only(k1, k, F)
      /\ k1.state = [k.state EXCEPT ![t] = "DORMANT"]
      /\ \A u \in Task \ {t} : k1.priority[u] = k.priority[u]
      /\ k1.klocked = [k.klocked EXCEPT ![t] = FALSE]
      /\ k1.klockwait = [k.klockwait EXCEPT ![t] = FALSE]
      /\ k1.wspec = [k.wspec EXCEPT ![t] = NoSpec]
      /\ k1.wercd = [k.wercd EXCEPT ![t] = "none"]
  BY <1>3 DEF Created
<1>5. F \subseteq KernelField \ {"wtmeb"}
  BY DEF Dormancy, KernelField
<1>6. k1.klocked = [u \in Task |-> FALSE] /\ k1.klockwait = [u \in Task |-> FALSE]
  BY <1>2, <1>4
<1>7. /\ k1.state[t] = "DORMANT" /\ \A u \in Task \ {t} : k1.state[u] = k.state[u]
      /\ \A u \in Task \ {t} : k1.wspec[u] = k.wspec[u]
  BY <1>1, <1>2, <1>4 DEF Kernel
<1>8. \A u \in Task \ {t} : k1.wercd[u] = k.wercd[u]
  BY <1>2, <1>4 DEF WaitTypes
<1>9. k1.wercd = [u \in Task |-> k1.wercd[u]]
  BY <1>2, <1>4 DEF WaitTypes
<1>10. TaskPlace(k1, t) = {}
  BY <1>7, ATaskWaits DEF TaskPlace
<1>11. \A u \in Task \ {t} : SameInKernel(k1, k, u)
  BY <1>4, <1>7, <1>8 DEF SameInKernel
<1>12. Moved(k1, k, t, F)
  BY <1>1, <1>4, <1>5, <1>6, <1>7, <1>9, <1>10, <1>11, ATaskWaits DEF Moved, r
<1>13. Undisturbed(k1, k)
  BY <1>1, <1>12, TaskMoves
<1>14. Aside(k1, k)
  <2>1. \A h \in OtherHead \ {FreeTcb} : k1.que[h] = k.que[h]
    BY <1>3, OtherHeads DEF Created
  <2> QED BY <2>1, <1>1, <1>4, ATaskWaits, AsideTask
<1> QED BY <1>13, <1>14 DEF k1

\* A READY task gets priority p.
LEMMA ReadyPriorityState ==
    ASSUME NEW k, KState(k), NEW t \in Task, k.state[t] = "READY", NEW p \in Pri
    PROVE  Undisturbed(MoveReady(k, t, p), k) /\ Aside(MoveReady(k, t, p), k)
<1> DEFINE r == TaskPlaces(k)
           k1 == MoveReady(k, t, p)
           F == ReadyQue \cup {"klockwait", "schedtsk", "priority"}
<1>1. Ready(k, r) /\ Kernel(k) /\ WaitTypes(k) /\ KernelField \cup WaitField \subseteq DOMAIN k
      /\ k.klocked = [u \in Task |-> FALSE] /\ k.klockwait = [u \in Task |-> FALSE]
  BY StateFacts
<1>2. MayLeave(k, r, t)
  BY PlaceCases DEF MayLeave
<1> HIDE DEF r, k1
<1>3. MovedReady(k1, k, r, t, p)
  BY <1>1, <1>2, MoveReadySteady DEF k1
<1>4. /\ Steady(k1, [r EXCEPT ![t] = {p}])
      /\ Only(k1, k, F)
      /\ k1.klockwait = [k.klockwait EXCEPT ![t] = FALSE]
      /\ k1.priority = [k.priority EXCEPT ![t] = p]
  BY <1>3 DEF MovedReady
<1>5. F \subseteq KernelField \ {"wtmeb"}
  BY DEF ReadyQue, KernelField
<1>6. /\ k1.state = k.state /\ k1.klocked = k.klocked /\ k1.wspec = k.wspec
      /\ k1.wercd = k.wercd
  BY <1>1, <1>4 DEF Only, KernelField, ReadyQue
<1>7. k1.klockwait = [u \in Task |-> FALSE]
  BY <1>1, <1>4
<1>8. k1.priority[t] = p /\ \A u \in Task \ {t} : k1.priority[u] = k.priority[u]
  BY <1>1, <1>4 DEF Kernel
<1>9. TaskPlace(k1, t) = {p}
  BY <1>6, <1>8, ATaskWaits DEF TaskPlace
<1>10. Moved(k1, k, t, F)
  BY <1>1, <1>4, <1>5, <1>6, <1>7, <1>8, <1>9 DEF Moved, SameInKernel, WaitTypes, r
<1>11. Undisturbed(k1, k)
  BY <1>10, TaskMoves
<1>12. Aside(k1, k)
  BY <1>3, <1>8, ATaskWaits, AsideTask DEF MovedReady
<1> QED BY <1>11, <1>12 DEF k1

\* A task that is not READY gets priority p, and perhaps a new place in the
\* ring it is in.
LEMMA PriorityState ==
    ASSUME NEW k, KState(k), NEW t \in Task, k.state[t] # "READY", NEW p \in Pri,
           NEW que, NEW k1, Reprioritized(k1, k, t, p, que), Steady(k1, TaskPlaces(k))
    PROVE  Undisturbed(k1, k)
<1>1. Kernel(k) /\ WaitTypes(k) /\ KernelField \cup WaitField \subseteq DOMAIN k
  BY StateFacts
<1>2. Only(k1, k, {"priority", "que"}) /\ k1.priority = [k.priority EXCEPT ![t] = p]
  BY DEF Reprioritized
<1>3. /\ k1.state = k.state /\ k1.klocked = k.klocked /\ k1.klockwait = k.klockwait
      /\ k1.wspec = k.wspec /\ k1.wercd = k.wercd /\ k1.wid = k.wid
  BY <1>1, <1>2 DEF Only, KernelField, WaitField
<1>4. \A u \in Task \ {t} : k1.priority[u] = k.priority[u]
  BY <1>1, <1>2 DEF Kernel
<1>5. TaskPlace(k1, t) = TaskPlace(k, t)
  BY <1>3 DEF TaskPlace
<1>6. TaskPlaces(k) = [TaskPlaces(k) EXCEPT ![t] = TaskPlace(k1, t)]
  BY <1>5 DEF TaskPlaces
<1>7. {"priority", "que"} \subseteq KernelField \ {"wtmeb"}
  BY DEF KernelField
<1>8. Moved(k1, k, t, {"priority", "que"})
  BY <1>1, <1>2, <1>3, <1>4, <1>6, <1>7 DEF Moved, SameInKernel, WaitTypes
<1> QED BY <1>8, TaskMoves

\* A task that neither is READY nor waits for an object.
LEMMA UnqueuedPriorityState ==
    ASSUME NEW k, KState(k), NEW t \in Task, k.state[t] \notin WaitBit \cup {"READY"},
           NEW p \in Pri, NEW k1, Reprioritized(k1, k, t, p, k.que)
    PROVE  Undisturbed(k1, k) /\ Aside(k1, k)
<1> DEFINE r == TaskPlaces(k)
<1>1. Steady(k, r) /\ Kernel(k) /\ k.que \in Rings /\ r \in Places /\ Linked(k.que, r)
  BY StateFacts DEF Steady, Ready, Kernel
<1>2. r[t] \cap Pri = {}
  BY PlaceCases
<1> HIDE DEF r
<1>3. Steady(k1, r)
  BY <1>1, <1>2, NewPriority
<1>4. Undisturbed(k1, k)
  BY <1>3, PriorityState DEF r
<1>5. Aside(k1, k)
  BY <1>1, AsideTask DEF Reprioritized, Kernel
<1> QED BY <1>4, <1>5

\* The queue of object h is in the order of the new priorities.
Reordered(k1, k, t, p, h) ==
    /\ k1.priority = [k.priority EXCEPT ![t] = p]
    /\ \A g \in WaitQ \ {h} : k1.que[g] = k.que[g]
    /\ Ordered(k.que[h], k.priority) => Ordered(k1.que[h], k1.priority)

\* Task t gets priority p and moves within the ring of the object it waits for.
LEMMA WaiterMovesState ==
    ASSUME NEW k, KState(k), NEW t \in Task, k.state[t] \in WaitBit, NEW p \in Pri,
           NEW h, h = k.wid[t], h # NoObj,
           NEW kd, Reprioritized(kd, k, t, p, QueRemove(k.que, t)),
           NEW k1, k1 = [kd EXCEPT !.que = QueInsertTpri(kd, t, h)]
    PROVE  Undisturbed(k1, k) /\ Reordered(k1, k, t, p, h)
<1> DEFINE r == TaskPlaces(k)
           rd == [r EXCEPT ![t] = {}]
           new == QueRemove(k.que, t)
<1>1. Steady(k, r) /\ Kernel(k) /\ WaitTypes(k)
  BY StateFacts
<1>2. r[t] = {h} /\ h \in OtherHead /\ r[t] \cap Pri = {}
  BY <1>1, PlaceCases, OtherHeads DEF WaitTypes
<1>3. /\ k.que \in Rings /\ r \in Places /\ Linked(k.que, r)
  BY <1>1 DEF Steady, Ready, Kernel
<1>4. /\ new \in Rings /\ Linked(new, rd) /\ \A g \in QueHead : g \notin r[t] => new[g] = k.que[g]
  <2> HIDE DEF r
  <2> QED BY <1>3, QueRemoveLinked
<1>5. /\ rd \in Places /\ rd[t] = {} /\ \A u \in Task : u # t => rd[u] = r[u]
  BY <1>3 DEF Places
<1>6. [rd EXCEPT ![t] = {h}] = r
  <2>1. [rd EXCEPT ![t] = {h}] = [r EXCEPT ![t] = {h}]
    OBVIOUS
  <2>2. [r EXCEPT ![t] = r[t]] = r
    BY <1>3 DEF Places
  <2> QED BY <1>2, <2>1, <2>2
<1> HIDE DEF r, rd, new
<1>7. Reprioritized(kd, k, t, p, new)
  BY DEF new
<1>8. Steady(kd, rd)
  <2>1. \A q \in Pri : new[q] = k.que[q]
    BY <1>2, <1>4, PriIsNatural
  <2>2. \A u \in Task : rd[u] \cap Pri = r[u] \cap Pri
    BY <1>2, <1>5
  <2> QED BY <1>1, <1>2, <1>4, <1>5, <1>7, <2>1, <2>2, NewPriority
<1>9. kd.que = new /\ kd.priority = [k.priority EXCEPT ![t] = p]
      /\ Only(kd, k, {"priority", "que"})
  BY <1>7 DEF Reprioritized
<1>10. QueuedByPriority(k1, kd, rd, t, h)
  BY <1>2, <1>5, <1>8, QueueByPrioritySteady
<1>11. Steady(k1, r) /\ Only(k1, kd, {"que"})
  BY <1>6, <1>10 DEF QueuedByPriority
<1>12. k1.priority = kd.priority
  BY <1>1, <1>9, <1>11 DEF Only, Kernel, KernelField
<1>13. Reprioritized(k1, k, t, p, k1.que)
  <2>1. {"priority", "que"} \subseteq {"priority", "que"} /\ {"que"} \subseteq {"priority", "que"}
    OBVIOUS
  <2>2. Only(k1, k, {"priority", "que"})
    BY <1>9, <1>11, <2>1, OnlyTrans
  <2> QED BY <1>9, <1>12, <2>2 DEF Reprioritized
<1>14. k.state[t] # "READY"
  BY ATaskWaits
<1>15. h \in WaitQ /\ WaitQ \subseteq QueHead /\ h \in QueHead /\ k.que[h] \in Seq(Task)
       /\ IsInjective(k.que[h])
  <2>1. h \in WaitQ
    BY <1>1 DEF WaitTypes
  <2> QED BY <2>1, RingHasWaiters, OtherHeads
<1>16. new[h] = Unlink(k.que[h], t)
  BY <1>3, <1>15 DEF new, QueRemove, Rings
<1>17. ASSUME Ordered(k.que[h], k.priority) PROVE Ordered(k1.que[h], k1.priority)
  <2> DEFINE u == Unlink(k.que[h], t)
  <2>1. /\ u \in Seq(Task) /\ \A v \in Task : InRing(u, v) <=> InRing(k.que[h], v) /\ v # t
    BY <1>15, UnlinkRing
  <2>2. Ordered(u, k.priority)
    BY <1>15, <1>17, UnlinkOrdered
  <2> HIDE DEF u
  <2>3. \A i \in DOMAIN u : u[i] \in Task /\ u[i] # t
    BY <2>1, LenProperties, ElementOfSeq DEF InRing
  <2>4. \A v \in Task : v # t => kd.priority[v] = k.priority[v]
    BY <1>1, <1>9 DEF Kernel
  <2>5. Ordered(u, kd.priority)
    BY <2>2, <2>3, <2>4 DEF Ordered
  <2>6. kd.que[h] = u
    BY <1>9, <1>16 DEF u
  <2> QED BY <2>5, <2>6, <1>10, <1>12 DEF QueuedByPriority
<1>18. \A g \in WaitQ \ {h} : k1.que[g] = k.que[g]
  BY <1>2, <1>4, <1>9, <1>10, <1>15 DEF QueuedByPriority
<1>19. Reordered(k1, k, t, p, h)
  BY <1>9, <1>12, <1>17, <1>18 DEF Reordered
<1>20. Undisturbed(k1, k)
  BY <1>11, <1>13, <1>14, PriorityState DEF r
<1> QED BY <1>19, <1>20

(***************************************************************************)
(* A wait ends.                                                            *)
(***************************************************************************)
\* Task t has been released from the object it waited for.
WaitOver(k1, k, t, ercd) ==
    /\ Concerns(k1, k, t)
    /\ k1.state[t] \in {"READY", "SUSPEND"}
    /\ k1.wid[t] = NoObj /\ k1.wercd[t] = ercd
    /\ \A h \in WaitQ : k1.que[h] = Unlink(k.que[h], t)

\* wid and winfo of task t are cleared: it does not wait for an object any more.
WaitsForNone(k, t) == [k EXCEPT !.wid[t] = NoObj, !.winfo[t] = NoInfo]

LEMMA WaitCleared ==
    ASSUME NEW k, NEW r, Steady(k, r), NEW t \in Task, WaitField \subseteq DOMAIN k,
           NEW k1, k1 = WaitsForNone(k, t)
    PROVE  /\ Steady(k1, r) /\ Only(k1, k, WaitField)
           /\ k1.wid = [k.wid EXCEPT ![t] = NoObj] /\ k1.winfo = [k.winfo EXCEPT ![t] = NoInfo]
<1>1. /\ Only(k1, k, WaitField)
      /\ k1.wid = [k.wid EXCEPT ![t] = NoObj] /\ k1.winfo = [k.winfo EXCEPT ![t] = NoInfo]
  BY DEF Only, WaitField, WaitsForNone
<1>2. WaitField \cap {"que", "bitmap", "top_priority", "klocktsk", "schedtsk",
                      "priority", "ipriority", "klocked", "klockwait"} = {}
  BY DEF WaitField
<1>3. Kernel(k)
  BY DEF Steady, Ready
<1>4. k1.state = k.state /\ k1.wspec = k.wspec /\ k1.wtmeb = k.wtmeb
  BY <1>1, <1>3 DEF Only, Kernel, KernelField, WaitField
<1>5. k1.state \in [Task -> TSTAT] /\ k1.wspec \in [Task -> WSpec]
      /\ k1.wtmeb \in [Task -> BOOLEAN]
  BY <1>3, <1>4 DEF Kernel
<1> QED BY <1>1, <1>2, <1>5, FieldsChange

LEMMA EndWaitState ==
    ASSUME NEW k, KState(k), NEW t \in Task, k.state[t] \in WaitBit, NEW ercd
    PROVE  WaitOver(EndWait(k, t, ercd), k, t, ercd)
<1> DEFINE r == TaskPlaces(k)
           k0 == WaitRelease(k, t, ercd)
           k1 == EndWait(k, t, ercd)
           s == IF k.state[t] = "WAIT" THEN "READY" ELSE "SUSPEND"
           x == IF k.state[t] = "WAIT" THEN {k.priority[t]} ELSE {}
<1>1. Steady(k, r) /\ Kernel(k) /\ WaitTypes(k) /\ KernelField \cup WaitField \subseteq DOMAIN k
      /\ ~k.klockwait[t]
  BY StateFacts DEF WaitTypes
<1>2. r[t] \cap Pri = {}
  BY PlaceCases, ATaskWaits
<1>3. k1 = [k0 EXCEPT !.wid[t] = NoObj, !.winfo[t] = NoInfo]
  BY DEF EndWait
<1> HIDE DEF r, k0, k1
<1>4. WaitReleased(k0, k, r, t, ercd)
  BY <1>1, <1>2, WaitReleaseSteady DEF k0
<1>5. /\ Steady(k0, [r EXCEPT ![t] = x]) /\ Only(k0, k, WaitEnds)
      /\ k0.state = [k.state EXCEPT ![t] = s]
      /\ k0.wtmeb = [k.wtmeb EXCEPT ![t] = FALSE]
      /\ k0.wspec = [k.wspec EXCEPT ![t] = NoSpec]
      /\ k0.wercd = [k.wercd EXCEPT ![t] = ercd]
      /\ \A h \in OtherHead : k0.que[h] = Unlink(k.que[h], t)
  BY <1>4 DEF WaitReleased
<1> HIDE DEF s, x
<1>6. /\ k0.wid = k.wid /\ k0.winfo = k.winfo /\ k0.priority = k.priority
      /\ k0.klocked = k.klocked /\ k0.klockwait = k.klockwait
      /\ KernelField \cup WaitField \subseteq DOMAIN k0
  BY <1>1, <1>5 DEF Only, WaitEnds, ReadyQue, KernelField, WaitField
<1>7. /\ Steady(k1, [r EXCEPT ![t] = x]) /\ Only(k1, k0, WaitField)
      /\ k1.wid = [k.wid EXCEPT ![t] = NoObj] /\ k1.winfo = [k.winfo EXCEPT ![t] = NoInfo]
  <2> DEFINE rx == [r EXCEPT ![t] = x]
  <2>1. Steady(k0, rx) /\ WaitField \subseteq DOMAIN k0 /\ k1 = WaitsForNone(k0, t)
    BY <1>3, <1>5, <1>6 DEF WaitsForNone
  <2> HIDE DEF rx
  <2>2. /\ Steady(k1, rx) /\ Only(k1, k0, WaitField)
        /\ k1.wid = [k0.wid EXCEPT ![t] = NoObj] /\ k1.winfo = [k0.winfo EXCEPT ![t] = NoInfo]
    BY <2>1, WaitCleared
  <2> QED BY <1>6, <2>2 DEF rx
<1>8. /\ k1.state = k0.state /\ k1.wtmeb = k0.wtmeb /\ k1.wspec = k0.wspec
      /\ k1.wercd = k0.wercd /\ k1.que = k0.que /\ k1.priority = k0.priority
      /\ k1.klocked = k0.klocked /\ k1.klockwait = k0.klockwait
  BY <1>6, <1>7 DEF Only, KernelField, WaitField
<1>9. Only(k1, k, TaskField)
  <2>1. WaitEnds \subseteq TaskField /\ WaitField \subseteq TaskField
    BY DEF WaitEnds, ReadyQue, TaskField, KernelField
  <2> QED BY <1>5, <1>7, <2>1, OnlyTrans
<1>10. /\ k1.state[t] = s /\ ~k1.wtmeb[t] /\ k1.wid[t] = NoObj /\ k1.wercd[t] = ercd
       /\ k1.priority[t] = k.priority[t]
  BY <1>1, <1>5, <1>6, <1>7, <1>8 DEF Kernel, WaitTypes
<1>11. WaitTypes(k1)
  <2>1. WaitField \subseteq DOMAIN k1
    BY <1>1, <1>9 DEF Only
  <2>2. /\ k1.wid \in [Task -> WaitQ \cup {NoObj}] /\ DOMAIN k1.winfo = Task
        /\ k1.winfo = [u \in Task |-> k1.winfo[u]]
    BY <1>1, <1>7 DEF WaitTypes
  <2>3. DOMAIN k1.wercd = Task /\ k1.wercd = [u \in Task |-> k1.wercd[u]]
    BY <1>1, <1>5, <1>8 DEF WaitTypes
  <2>4. \A u \in Task : ~k1.klocked[u] /\ ~k1.klockwait[u]
    BY <1>1, <1>6, <1>8 DEF WaitTypes
  <2> QED BY <2>1, <2>2, <2>3, <2>4 DEF WaitTypes
<1>12. TaskPlace(k1, t) = x
  BY <1>10, ATaskWaits DEF TaskPlace, s, x
<1>13. \A u \in Task \ {t} : SameTask(k1, k, u)
  BY <1>1, <1>5, <1>6, <1>7, <1>8 DEF SameTask, Kernel, WaitTypes
<1>14. Concerns(k1, k, t)
  BY <1>7, <1>9, <1>10, <1>11, <1>12, <1>13, ConcernsOne DEF WaitsOnly, r
<1>15. \A h \in WaitQ : k1.que[h] = Unlink(k.que[h], t)
  BY <1>5, <1>8, OtherHeads
<1> QED BY <1>10, <1>14, <1>15 DEF WaitOver, s, k1

(***************************************************************************)
(* A task ends.                                                            *)
(***************************************************************************)
\* Task t has been taken out of its ring, and its wait forgotten.
TakenOut(k0, k, t) ==
    /\ Steady(k0, [TaskPlaces(k) EXCEPT ![t] = {}])
    /\ Only(k0, k, TaskField)
    /\ \A u \in Task \ {t} : SameTask(k0, k, u)
    /\ WaitTypes(k0)
    /\ k0.wid[t] = NoObj /\ ~k0.wtmeb[t] /\ k0.state[t] = k.state[t]
    /\ \A h \in WaitQ : k0.que[h] = Unlink(k.que[h], t)

\* Task t is taken out of its queue, to be made dormant.
Withdrawn(k, t) == [Detach(k, t) EXCEPT !.wid[t] = NoObj, !.winfo[t] = NoInfo]

LEMMA DetachState ==
    ASSUME NEW k, KState(k), NEW t \in Task, k.state[t] \in Alive
    PROVE  TakenOut(Withdrawn(k, t), k, t)
<1> DEFINE r == TaskPlaces(k)
           k0 == Detach(k, t)
           k1 == [k0 EXCEPT !.wid[t] = NoObj, !.winfo[t] = NoInfo]
           F == ReadyQue \cup {"klockwait", "schedtsk", "wtmeb"}
<1>1. Steady(k, r) /\ Kernel(k) /\ WaitTypes(k) /\ KernelField \cup WaitField \subseteq DOMAIN k
      /\ k.klockwait = [u \in Task |-> FALSE]
  BY StateFacts
<1>2. /\ k.state[t] = "READY" => MayLeave(k, r, t)
      /\ k.state[t] \in WaitBit => r[t] \cap Pri = {}
      /\ k.state[t] \notin WaitBit \cup {"READY"} => r[t] = {}
  BY PlaceCases, ATaskWaits DEF MayLeave, Alive
<1> HIDE DEF r, k0, k1
<1>3. Detached(k0, k, r, t)
  BY <1>1, <1>2, DetachSteady DEF k0
<1>4. /\ Steady(k0, [r EXCEPT ![t] = {}]) /\ Only(k0, k, F)
      /\ k0.wtmeb = IF k.state[t] \in WaitBit THEN [k.wtmeb EXCEPT ![t] = FALSE] ELSE k.wtmeb
      /\ [k0.klockwait EXCEPT ![t] = FALSE] = [k.klockwait EXCEPT ![t] = FALSE]
      /\ \A h \in OtherHead : k0.que[h] = Unlink(k.que[h], t)
  BY <1>3 DEF Detached
<1>5. /\ k0.wid = k.wid /\ k0.winfo = k.winfo /\ k0.priority = k.priority
      /\ k0.klocked = k.klocked /\ k0.state = k.state /\ k0.wspec = k.wspec
      /\ k0.wercd = k.wercd /\ KernelField \cup WaitField \subseteq DOMAIN k0
  BY <1>1, <1>4 DEF Only, ReadyQue, KernelField, WaitField
<1>6. /\ Steady(k1, [r EXCEPT ![t] = {}]) /\ Only(k1, k0, WaitField)
      /\ k1.wid = [k.wid EXCEPT ![t] = NoObj] /\ k1.winfo = [k.winfo EXCEPT ![t] = NoInfo]
  <2> DEFINE rx == [r EXCEPT ![t] = {}]
  <2>1. /\ Steady(k0, rx) /\ WaitField \subseteq DOMAIN k0
        /\ k1 = WaitsForNone(k0, t)
    BY <1>4, <1>5 DEF k1, WaitsForNone
  <2> HIDE DEF rx
  <2>2. /\ Steady(k1, rx) /\ Only(k1, k0, WaitField)
        /\ k1.wid = [k0.wid EXCEPT ![t] = NoObj] /\ k1.winfo = [k0.winfo EXCEPT ![t] = NoInfo]
    BY <2>1, WaitCleared
  <2> QED BY <1>5, <2>2 DEF rx
<1>7. /\ k1.state = k.state /\ k1.wtmeb = k0.wtmeb /\ k1.wspec = k.wspec
      /\ k1.wercd = k.wercd /\ k1.que = k0.que /\ k1.priority = k.priority
      /\ k1.klocked = k.klocked /\ k1.klockwait = k0.klockwait
  BY <1>5, <1>6 DEF Only, KernelField, WaitField
<1>8. Only(k1, k, TaskField)
  <2>1. F \subseteq TaskField /\ WaitField \subseteq TaskField
    BY DEF ReadyQue, TaskField, KernelField
  <2> QED BY <1>4, <1>6, <2>1, OnlyTrans
<1>9. ~k1.wtmeb[t] /\ \A u \in Task \ {t} : k1.wtmeb[u] = k.wtmeb[u]
  <2>1. k.wtmeb[t] => k.state[t] \in WaitBit
    BY DEF KState, WaitsOnly
  <2> QED BY <2>1, <1>1, <1>4, <1>7 DEF Kernel
<1>10. \A u \in Task : ~k1.klocked[u] /\ ~k1.klockwait[u]
  <2>1. \A u \in Task : ~k1.klocked[u]
    BY <1>1, <1>7 DEF WaitTypes
  <2>2. k1.klockwait \in [Task -> BOOLEAN]
    BY <1>6 DEF Steady, Ready, Kernel
  <2>3. \A u \in Task \ {t} : ~k1.klockwait[u]
    <3>1. [k1.klockwait EXCEPT ![t] = FALSE] = [u \in Task |-> FALSE]
      BY <1>1, <1>4, <1>7
    <3> QED BY <2>2, <3>1
  <2>4. ~k1.klockwait[t]
    <3>1. CASE k.state[t] = "READY"
      <4>1. MadeNonReady(k0, k, r, t)
        BY <3>1, <1>1, <1>2, MakeNonReadySteady DEF k0, Detach
      <4> QED BY <4>1, <1>1, <1>7 DEF MadeNonReady
    <3>2. CASE k.state[t] # "READY"
      <4>1. k0.klockwait = k.klockwait
        <5>1. CASE k.state[t] \in WaitBit
          BY <5>1, <3>2, <1>1 DEF k0, Detach, WaitCancel, KernelField
        <5>2. CASE k.state[t] \notin WaitBit
          BY <5>2, <3>2 DEF k0, Detach
        <5> QED BY <5>1, <5>2
      <4> QED BY <4>1, <1>1, <1>7
    <3> QED BY <3>1, <3>2
  <2> QED BY <2>1, <2>3, <2>4
<1>11. WaitTypes(k1)
  BY <1>1, <1>6, <1>7, <1>8, <1>10 DEF WaitTypes, Only
<1>12. \A u \in Task \ {t} : SameTask(k1, k, u)
  BY <1>1, <1>6, <1>7, <1>9 DEF SameTask, WaitTypes
<1>13. k1.wid[t] = NoObj /\ k1.state[t] = k.state[t]
  BY <1>1, <1>6, <1>7 DEF WaitTypes
<1>14. \A h \in WaitQ : k1.que[h] = Unlink(k.que[h], t)
  BY <1>4, <1>7, OtherHeads
<1>15. TakenOut(k1, k, t)
  BY <1>6, <1>8, <1>9, <1>11, <1>12, <1>13, <1>14 DEF TakenOut, r
<1> QED BY <1>15 DEF k1, k0, Withdrawn

\* A task that waited is one whose wait has ended, and still is no READY one.
LEMMA TakenOutWaiting ==
    ASSUME NEW k, KState(k), NEW t \in Task, k.state[t] \in WaitBit, NEW k0, TakenOut(k0, k, t)
    PROVE  Concerns(k0, k, t)
<1>1. k0.state[t] \in WaitBit /\ k0.wid[t] = NoObj /\ ~k0.wtmeb[t]
  BY DEF TakenOut
<1>2. TaskPlace(k0, t) = {}
  BY <1>1, ATaskWaits DEF TaskPlace
<1>3. WaitsOnly(k0, t)
  BY <1>1 DEF WaitsOnly
<1> QED BY <1>2, <1>3, ConcernsOne DEF TakenOut

\* Task t is dormant.
Dormant(k1, k, t) ==
    /\ Concerns(k1, k, t)
    /\ k1.state[t] = "DORMANT" /\ k1.wid[t] = NoObj
    /\ \A h \in WaitQ : k1.que[h] = Unlink(k.que[h], t)

LEMMA DormantState ==
    ASSUME NEW k, KState(k), NEW t \in Task, NEW k0, TakenOut(k0, k, t)
    PROVE  Dormant(MakeDormant(k0, t), k, t)
<1> DEFINE r == TaskPlaces(k)
           r0 == [r EXCEPT ![t] = {}]
           k1 == MakeDormant(k0, t)
<1>1. /\ Steady(k0, r0) /\ Only(k0, k, TaskField) /\ WaitTypes(k0)
      /\ \A u \in Task \ {t} : SameTask(k0, k, u)
      /\ k0.wid[t] = NoObj /\ ~k0.wtmeb[t]
      /\ \A h \in WaitQ : k0.que[h] = Unlink(k.que[h], t)
  BY DEF TakenOut
<1>2. r0[t] \cap Pri = {}
  BY DEF TaskPlaces
<1>3. Kernel(k0) /\ KernelField \cup WaitField \subseteq DOMAIN k0
      /\ k0.klocked = [u \in Task |-> FALSE] /\ k0.klockwait = [u \in Task |-> FALSE]
  <2>1. Kernel(k0) /\ KernelField \cup WaitField \subseteq DOMAIN k0
        /\ \A u \in Task : ~k0.klocked[u] /\ ~k0.klockwait[u]
    BY <1>1 DEF Steady, Ready, Kernel, WaitTypes
  <2>2. k0.klocked \in [Task -> BOOLEAN] /\ k0.klockwait \in [Task -> BOOLEAN]
    BY <2>1 DEF Kernel
  <2>3. k0.klocked = [u \in Task |-> FALSE]
    BY <2>1, <2>2
  <2>4. k0.klockwait = [u \in Task |-> FALSE]
    BY <2>1, <2>2
  <2> QED BY <2>1, <2>3, <2>4
<1> HIDE DEF r0, r, k1
<1>4. MadeDormant(k1, k0, r0, t)
  BY <1>1, <1>2, MakeDormantSteady DEF k1
<1>5. /\ Steady(k1, r0) /\ Only(k1, k0, Dormancy)
      /\ k1.state = [k0.state EXCEPT ![t] = "DORMANT"]
      /\ k1.priority = [k0.priority EXCEPT ![t] = k0.ipriority[t]]
      /\ k1.klocked = [k0.klocked EXCEPT ![t] = FALSE]
      /\ k1.klockwait = [k0.klockwait EXCEPT ![t] = FALSE]
      /\ k1.wspec = [k0.wspec EXCEPT ![t] = NoSpec]
      /\ k1.wercd = [k0.wercd EXCEPT ![t] = "none"]
  BY <1>4 DEF MadeDormant
<1>6. /\ k1.wid = k0.wid /\ k1.winfo = k0.winfo /\ k1.wtmeb = k0.wtmeb /\ k1.que = k0.que
      /\ DOMAIN k1 = DOMAIN k0
  BY <1>3, <1>5 DEF Only, Dormancy, KernelField, WaitField
<1>7. k1.klocked = [u \in Task |-> FALSE] /\ k1.klockwait = [u \in Task |-> FALSE]
  BY <1>3, <1>5
<1>8. k1.wercd = [u \in Task |-> k1.wercd[u]] /\ DOMAIN k1.wercd = Task
  BY <1>1, <1>5 DEF WaitTypes
<1>9. WaitTypes(k1)
  BY <1>1, <1>6, <1>7, <1>8 DEF WaitTypes
<1>10. Only(k1, k, TaskField)
  <2>1. Dormancy \subseteq TaskField /\ TaskField \subseteq TaskField
    BY DEF Dormancy, TaskField, KernelField
  <2> QED BY <1>1, <1>5, <2>1, OnlyTrans
<1>11. \A u \in Task \ {t} : SameTask(k1, k, u)
  <2>1. \A u \in Task \ {t} : SameTask(k1, k0, u)
    BY <1>1, <1>3, <1>5, <1>6 DEF SameTask, Kernel, WaitTypes
  <2> QED BY <2>1, <1>1 DEF SameTask
<1>12. k1.state[t] = "DORMANT" /\ k1.wid[t] = NoObj /\ ~k1.wtmeb[t]
  BY <1>1, <1>3, <1>5, <1>6 DEF Kernel
<1>13. TaskPlace(k1, t) = {} /\ WaitsOnly(k1, t)
  BY <1>12, ATaskWaits DEF TaskPlace, WaitsOnly
<1>14. Concerns(k1, k, t)
  BY <1>5, <1>9, <1>10, <1>11, <1>13, ConcernsOne DEF r0, r
<1> QED BY <1>1, <1>6, <1>12, <1>14 DEF Dormant, k1

(***************************************************************************)
(* A wait begins.                                                          *)
(***************************************************************************)
LEMMA UpdatedEntry ==
    ASSUME NEW D, NEW f, DOMAIN f = D, f = [u \in D |-> f[u]], NEW t \in D, NEW v,
           NEW g, g = [f EXCEPT ![t] = v]
    PROVE  DOMAIN g = D /\ g = [u \in D |-> g[u]]
  OBVIOUS

\* Task t waits for object o.
WaitBegun(k1, k, t, o, wspec, info) ==
    /\ Concerns(k1, k, t)
    /\ k1.state[t] = "WAIT" /\ k1.wid[t] = o
    /\ k1.wspec[t] = wspec /\ k1.winfo[t] = info /\ k1.wercd[t] = "E_TMOUT"

\* Task t has joined the queue of object o, at its end or in the order of the
\* priorities.
QueueJoined(k1, k, t, o, tpri) ==
    /\ k1.priority = k.priority
    /\ \A g \in WaitQ \ {o} : k1.que[g] = k.que[g]
    /\ tpri /\ Ordered(k.que[o], k.priority) => Ordered(k1.que[o], k.priority)
    /\ /\ k.que[o] # <<>>
       /\ tpri => ~(k.priority[t] < k.priority[Head(k.que[o])])
       => Head(k1.que[o]) = Head(k.que[o])

LEMMA GcbMakeWaitState ==
    ASSUME NEW k, KState(k), NEW t \in Task, k.state[t] = "READY",
           NEW o \in WaitQ, o # NoObj, NEW wspec \in WSpec, NEW info, NEW tmout, NEW tpri
    PROVE  LET k1 == GcbMakeWait(k, t, o, o, tpri, wspec, info, tmout)
           IN  WaitBegun(k1, k, t, o, wspec, info) /\ QueueJoined(k1, k, t, o, tpri)
<1> DEFINE r == TaskPlaces(k)
           k0 == [k EXCEPT !.wid[t] = o, !.winfo[t] = info, !.wspec[t] = wspec,
                           !.wercd[t] = "E_TMOUT"]
           k1 == MakeWait(k0, t, tmout)
           k2 == GcbMakeWait(k, t, o, o, tpri, wspec, info, tmout)
           timed == (tmout = "TIME")
           F0 == {"wid", "winfo", "wspec", "wercd"}
           F1 == ReadyQue \cup {"klockwait", "schedtsk", "state", "wtmeb"}
           r1 == [r EXCEPT ![t] = {}]
<1>1. Steady(k, r) /\ Kernel(k) /\ WaitTypes(k) /\ KernelField \cup WaitField \subseteq DOMAIN k
      /\ k.klockwait = [u \in Task |-> FALSE]
  BY StateFacts
<1>2. MayLeave(k, r, t)
  BY PlaceCases DEF MayLeave
<1>3. /\ Only(k0, k, F0)
      /\ k0.wid = [k.wid EXCEPT ![t] = o] /\ k0.winfo = [k.winfo EXCEPT ![t] = info]
      /\ k0.wspec = [k.wspec EXCEPT ![t] = wspec]
      /\ k0.wercd = [k.wercd EXCEPT ![t] = "E_TMOUT"]
  BY <1>1 DEF Only, KernelField, WaitField
<1>4. k2 = [k1 EXCEPT !.que = IF tpri THEN QueInsertTpri(k1, t, o) ELSE QueInsert(k1.que, t, o)]
  BY DEF GcbMakeWait, Wait
<1>5. timed \in BOOLEAN
  OBVIOUS
<1> HIDE DEF r, k0, k1, k2, timed, r1
<1>6. /\ k0.state = k.state /\ k0.priority = k.priority /\ k0.klocked = k.klocked
      /\ k0.klockwait = k.klockwait /\ k0.wtmeb = k.wtmeb /\ k0.que = k.que
      /\ KernelField \cup WaitField \subseteq DOMAIN k0
  BY <1>1, <1>3 DEF Only, KernelField, WaitField
<1>7. Steady(k0, r)
  <2>1. F0 \cap {"que", "bitmap", "top_priority", "klocktsk", "schedtsk",
                 "priority", "ipriority", "klocked", "klockwait"} = {}
    OBVIOUS
  <2>2. k0.state \in [Task -> TSTAT] /\ k0.wspec \in [Task -> WSpec]
        /\ k0.wtmeb \in [Task -> BOOLEAN]
    BY <1>1, <1>3, <1>6 DEF Kernel
  <2> QED BY <1>1, <1>3, <2>1, <2>2, FieldsChange
<1>8. MadeWait(k1, k0, r, t, timed)
  <2>1. MayLeave(k0, r, t)
    BY <1>2, <1>6 DEF MayLeave, Runnable
  <2> QED BY <1>5, <1>6, <1>7, <2>1, MakeWaitSteady DEF k1, timed
<1>9. /\ Steady(k1, r1) /\ Only(k1, k0, F1)
      /\ k1.state = [k.state EXCEPT ![t] = "WAIT"]
      /\ k1.wtmeb = [k.wtmeb EXCEPT ![t] = timed]
      /\ k1.klockwait = [k.klockwait EXCEPT ![t] = FALSE]
  BY <1>6, <1>8 DEF MadeWait, r1
<1>10. /\ k1.wid = k0.wid /\ k1.winfo = k0.winfo /\ k1.wspec = k0.wspec /\ k1.wercd = k0.wercd
       /\ k1.priority = k.priority /\ k1.klocked = k.klocked
       /\ KernelField \cup WaitField \subseteq DOMAIN k1
  BY <1>6, <1>9 DEF Only, ReadyQue, KernelField, WaitField
<1>11. r1[t] = {} /\ o \in OtherHead /\ [r1 EXCEPT ![t] = {o}] = [r EXCEPT ![t] = {o}]
  BY OtherHeads DEF r1, r, TaskPlaces
<1>12. Steady(k2, [r EXCEPT ![t] = {o}]) /\ Only(k2, k1, {"que"})
  <2>1. CASE tpri
    <3>1. k2 = [k1 EXCEPT !.que = QueInsertTpri(k1, t, o)]
      BY <1>4, <2>1
    <3>2. QueuedByPriority(k2, k1, r1, t, o)
      BY <3>1, <1>9, <1>11, QueueByPrioritySteady
    <3> QED BY <3>2, <1>11 DEF QueuedByPriority
  <2>2. CASE ~tpri
    <3>1. k2 = [k1 EXCEPT !.que = QueInsert(@, t, o)]
      BY <1>4, <2>2
    <3>2. QueuedLast(k2, k1, r1, t, o)
      BY <3>1, <1>9, <1>11, QueueLastSteady
    <3> QED BY <3>2, <1>11 DEF QueuedLast
  <2> QED BY <2>1, <2>2
<1>13. /\ k2.wid = k1.wid /\ k2.winfo = k1.winfo /\ k2.wspec = k1.wspec /\ k2.wercd = k1.wercd
       /\ k2.priority = k1.priority /\ k2.klocked = k1.klocked /\ k2.state = k1.state
       /\ k2.wtmeb = k1.wtmeb /\ k2.klockwait = k1.klockwait /\ DOMAIN k2 = DOMAIN k1
  BY <1>10, <1>12 DEF Only, KernelField, WaitField
<1>14. Only(k2, k, TaskField)
  <2>1. F0 \subseteq TaskField /\ F1 \subseteq TaskField /\ {"que"} \subseteq TaskField
        /\ TaskField \subseteq TaskField
    BY DEF ReadyQue, TaskField, KernelField, WaitField
  <2>2. Only(k1, k, TaskField)
    BY <1>3, <1>9, <2>1, OnlyTrans
  <2> QED BY <1>12, <2>1, <2>2, OnlyTrans
<1>15. /\ k2.state[t] = "WAIT" /\ k2.wid[t] = o /\ k2.winfo[t] = info /\ k2.wspec[t] = wspec
       /\ k2.wercd[t] = "E_TMOUT"
  BY <1>1, <1>3, <1>9, <1>10, <1>13 DEF Kernel, WaitTypes
<1>16. k2.klockwait = [u \in Task |-> FALSE]
  BY <1>1, <1>9, <1>13
<1>17. WaitTypes(k2)
  <2>1. k2.wid \in [Task -> WaitQ \cup {NoObj}]
    BY <1>1, <1>3, <1>10, <1>13 DEF WaitTypes
  <2>2. /\ DOMAIN k2.winfo = Task /\ DOMAIN k2.wercd = Task
        /\ k2.winfo = [u \in Task |-> k2.winfo[u]] /\ k2.wercd = [u \in Task |-> k2.wercd[u]]
    <3>1. k2.winfo = [k.winfo EXCEPT ![t] = info] /\ k2.wercd = [k.wercd EXCEPT ![t] = "E_TMOUT"]
      BY <1>3, <1>10, <1>13
    <3> QED BY ONLY <3>1, <1>1, UpdatedEntry DEF WaitTypes
  <2> QED BY <2>1, <2>2, <1>1, <1>10, <1>13, <1>16 DEF WaitTypes
<1>18. TaskPlace(k2, t) = {o} /\ WaitsOnly(k2, t)
  BY <1>15, ATaskWaits DEF TaskPlace, WaitsOnly
<1>19. \A u \in Task \ {t} : SameTask(k2, k, u)
  BY <1>1, <1>3, <1>9, <1>10, <1>13 DEF SameTask, Kernel, WaitTypes
<1>20. Concerns(k2, k, t)
  BY <1>12, <1>14, <1>17, <1>18, <1>19, ConcernsOne DEF r
<1>21. \A g \in WaitQ : k1.que[g] = k.que[g]
  <2> SUFFICES ASSUME NEW g \in WaitQ PROVE k1.que[g] = k.que[g]
    OBVIOUS
  <2>1. k.wid[t] = NoObj
    BY ATaskWaits DEF KState, WaitsOnly
  <2>2. Unlink(k.que[g], t) = k.que[g]
    BY <2>1, NotQueued
  <2> QED BY <2>2, <1>6, <1>8, OtherHeads DEF MadeWait
<1>22. WaitQ \subseteq QueHead
  BY OtherHeads
<1>23. QueueJoined(k2, k, t, o, tpri)
  <2>1. CASE tpri
    <3>1. k2 = [k1 EXCEPT !.que = QueInsertTpri(k1, t, o)]
      BY <1>4, <2>1
    <3>2. QueuedByPriority(k2, k1, r1, t, o)
      BY <3>1, <1>9, <1>11, QueueByPrioritySteady
    <3> QED BY <3>2, <2>1, <1>10, <1>13, <1>21, <1>22 DEF QueuedByPriority, QueueJoined
  <2>2. CASE ~tpri
    <3>1. k2 = [k1 EXCEPT !.que = QueInsert(@, t, o)]
      BY <1>4, <2>2
    <3>2. QueuedLast(k2, k1, r1, t, o)
      BY <3>1, <1>9, <1>11, QueueLastSteady
    <3>3. k.que[o] \in Seq(Task)
      BY RingHasWaiters
    <3>4. k.que[o] # <<>> => Head(Append(k.que[o], t)) = Head(k.que[o])
      BY <3>3
    <3> QED BY <3>2, <3>4, <2>2, <1>10, <1>13, <1>21, <1>22 DEF QueuedLast, QueueJoined
  <2> QED BY <2>1, <2>2
<1> QED BY <1>15, <1>20, <1>23 DEF WaitBegun, k2

\* knl_gcb_change_priority for a task that has been given priority p.
LEMMA WaiterPriorityState ==
    ASSUME NEW k, KState(k), NEW t \in Task, k.state[t] \in WaitBit, NEW p \in Pri,
           k.wid[t] # NoObj
    PROVE  LET k1 == [k EXCEPT !.priority[t] = p]
               k2 == GcbChangePri(k1, t, k1.wid[t])
           IN  k1.wid = k.wid /\ Undisturbed(k2, k) /\ Reordered(k2, k, t, p, k.wid[t])
<1> DEFINE k1 == [k EXCEPT !.priority[t] = p]
           h == k.wid[t]
           kd == [k1 EXCEPT !.que = QueRemove(@, t)]
           k2 == GcbChangePri(k1, t, k1.wid[t])
<1>1. KernelField \cup WaitField \subseteq DOMAIN k
  BY StateFacts
<1>2. k1.wid[t] = h /\ k1.wid = k.wid /\ k1.que = k.que
  BY <1>1 DEF KernelField, WaitField
<1>3. Reprioritized(kd, k, t, p, QueRemove(k.que, t))
  BY <1>1 DEF Reprioritized, Only, KernelField
<1>4. k2 = [kd EXCEPT !.que = QueInsertTpri(kd, t, h)]
  <2>1. k2 = [k1 EXCEPT !.que = QueInsertTpri(kd, t, k1.wid[t])]
    BY DEF GcbChangePri
  <2>2. ASSUME NEW q PROVE [k1 EXCEPT !.que = q] = [kd EXCEPT !.que = q]
    OBVIOUS
  <2> HIDE DEF k1, h, kd, k2
  <2>3. QueInsertTpri(kd, t, k1.wid[t]) = QueInsertTpri(kd, t, h)
    BY <1>2
  <2> QED BY <2>1, <2>2, <2>3
<1> HIDE DEF k1, h, kd, k2
<1>5. h = k.wid[t] /\ h # NoObj
  BY DEF h
<1>6. Undisturbed(k2, k) /\ Reordered(k2, k, t, p, h)
  BY <1>3, <1>4, <1>5, WaiterMovesState
<1> QED BY <1>2, <1>6 DEF k2, k1, h

(***************************************************************************)
(* Other changes of the kernel state.                                      *)
(***************************************************************************)
\* The fields of the components, and what a finished wait has left in ercd.
LEMMA OtherFields ==
    ASSUME NEW k, KState(k), NEW k1, TaskField \subseteq DOMAIN k1,
           \A f \in TaskField \ {"wercd"} : k1[f] = k[f],
           DOMAIN k1.wercd = Task, k1.wercd = [u \in Task |-> k1.wercd[u]]
    PROVE  /\ KState(k1)
           /\ k1.state = k.state /\ k1.priority = k.priority /\ k1.que = k.que
           /\ k1.wspec = k.wspec /\ k1.wtmeb = k.wtmeb /\ k1.wid = k.wid /\ k1.winfo = k.winfo
           /\ k1.schedtsk = k.schedtsk
<1> DEFINE r == TaskPlaces(k)
<1>1. /\ k1.state = k.state /\ k1.priority = k.priority /\ k1.ipriority = k.ipriority
      /\ k1.klocked = k.klocked /\ k1.klockwait = k.klockwait /\ k1.wspec = k.wspec
      /\ k1.wtmeb = k.wtmeb /\ k1.que = k.que /\ k1.bitmap = k.bitmap
      /\ k1.top_priority = k.top_priority /\ k1.klocktsk = k.klocktsk
      /\ k1.schedtsk = k.schedtsk /\ k1.wid = k.wid /\ k1.winfo = k.winfo
  BY DEF TaskField, KernelField, WaitField
<1>2. Steady(k, r) /\ Kernel(k) /\ WaitTypes(k) /\ \A u \in Task : WaitsOnly(k, u)
  BY StateFacts DEF KState
<1>3. Kernel(k1)
  BY <1>1, <1>2 DEF Kernel, TaskField
<1>4. TaskPlaces(k1) = r
  BY <1>1 DEF TaskPlaces, TaskPlace
<1> HIDE DEF r
<1>5. Steady(k1, r)
  BY <1>1, <1>2, <1>3, SteadySame
<1>6. WaitTypes(k1)
  BY <1>1, <1>2 DEF WaitTypes, TaskField
<1>7. \A u \in Task : WaitsOnly(k1, u)
  BY <1>1, <1>2 DEF WaitsOnly
<1> QED BY <1>1, <1>4, <1>5, <1>6, <1>7 DEF KState

\* A task returns from its wait.
LEMMA ReturnState ==
    ASSUME NEW k, KState(k), NEW t \in Task, NEW k1, k1 = [k EXCEPT !.wercd[t] = "none"]
    PROVE  /\ KState(k1) /\ Only(k1, k, {"wercd"})
           /\ \A u \in Task \ {t} : k1.wercd[u] = k.wercd[u]
<1>1. KernelField \cup WaitField \subseteq DOMAIN k /\ WaitTypes(k)
  BY StateFacts
<1>2. Only(k1, k, {"wercd"}) /\ k1.wercd = [k.wercd EXCEPT ![t] = "none"]
  BY <1>1 DEF Only, KernelField
<1>3. DOMAIN k1.wercd = Task /\ k1.wercd = [u \in Task |-> k1.wercd[u]]
      /\ \A u \in Task \ {t} : k1.wercd[u] = k.wercd[u]
  BY <1>1, <1>2 DEF WaitTypes
<1>4. TaskField \subseteq DOMAIN k1 /\ \A f \in TaskField \ {"wercd"} : k1[f] = k[f]
  BY <1>1, <1>2 DEF Only, TaskField
<1>5. KState(k1)
  <2>1. KState(k)
    OBVIOUS
  <2>2. DOMAIN k1.wercd = Task /\ k1.wercd = [u \in Task |-> k1.wercd[u]]
    BY <1>3
  <2> QED BY ONLY <1>4, <2>1, <2>2, OtherFields
<1> QED BY <1>2, <1>3, <1>5

LEMMA UndisturbedTwice ==
    ASSUME NEW k, NEW k1, NEW k2, Undisturbed(k1, k), Undisturbed(k2, k1)
    PROVE  Undisturbed(k2, k)
<1>1. Only(k2, k, TaskField)
  BY DEF Undisturbed, Only
<1>2. ASSUME NEW u \in Task PROVE Kept(k2, k, u)
  BY DEF Undisturbed, Kept
<1> QED BY <1>1, <1>2 DEF Undisturbed

\* The selected task is READY.
LEMMA SelectedReady ==
    ASSUME NEW k, KState(k), k.schedtsk # NoTask
    PROVE  k.schedtsk \in Task /\ k.state[k.schedtsk] = "READY"
<1> DEFINE r == TaskPlaces(k)
<1>1. Kernel(k) /\ Runnable(k, r, k.schedtsk)
  BY DEF KState, Steady, Ready, Selected
<1>2. k.schedtsk \in Task
  BY <1>1 DEF Kernel
<1> QED BY <1>1, <1>2, PlaceCases

(***************************************************************************)
(* The first task.                                                         *)
(***************************************************************************)
\* One task is READY, and none waits.
FirstState(k) ==
    /\ KState(k)
    /\ \A t \in Task : k.state[t] \in {"READY", "NONEXIST"} /\ k.wid[t] = NoObj

LEMMA WithNoWaitFields ==
    ASSUME NEW k2, DOMAIN k2 = KernelField, NEW k, k = WithNoWait(k2)
    PROVE  /\ DOMAIN k = TaskField /\ \A f \in KernelField : k[f] = k2[f]
           /\ k.wid = [t \in Task |-> NoObj] /\ k.winfo = [t \in Task |-> NoInfo]
<1> DEFINE g == [wid |-> [t \in Task |-> NoObj], winfo |-> [t \in Task |-> NoInfo]]
<1>1. DOMAIN g = WaitField /\ g.wid = [t \in Task |-> NoObj] /\ g.winfo = [t \in Task |-> NoInfo]
  BY DEF WaitField
<1>2. k = WithFields(k2, g)
  BY DEF WithNoWait
<1>3. "wid" \in WaitField /\ "winfo" \in WaitField /\ "wid" \notin KernelField
      /\ "winfo" \notin KernelField
  BY DEF WaitField, KernelField
<1> HIDE DEF g
<1>4. /\ DOMAIN k = KernelField \cup WaitField
      /\ \A f \in KernelField : k[f] = k2[f]
      /\ \A f \in WaitField : f \notin KernelField => k[f] = g[f]
  BY <1>1, <1>2 DEF WithFields
<1>5. k.wid = g.wid /\ k.winfo = g.winfo
  BY <1>3, <1>4
<1> QED BY <1>1, <1>4, <1>5 DEF TaskField

LEMMA NoWaitState ==
    ASSUME NEW k2, NEW r, FirstTask(k2, r), NEW k, k = WithNoWait(k2)
    PROVE  FirstState(k) /\ DOMAIN k = TaskField
<1>1. /\ Steady(k2, r) /\ DOMAIN k2 = KernelField /\ Kernel(k2) /\ r \in Places
      /\ \A t \in Task : r[t] = IF t = 1 THEN {k2.priority[1]} ELSE {FreeTcb}
      /\ \A t \in Task : k2.state[t] = IF t = 1 THEN "READY" ELSE "NONEXIST"
      /\ \A t \in Task : ~k2.klocked[t] /\ ~k2.klockwait[t] /\ ~k2.wtmeb[t]
      /\ k2.wercd = [t \in Task |-> "none"]
  BY DEF FirstTask, Steady, Ready
<1>2. /\ DOMAIN k = TaskField /\ \A f \in KernelField : k[f] = k2[f]
      /\ k.wid = [t \in Task |-> NoObj] /\ k.winfo = [t \in Task |-> NoInfo]
  BY <1>1, WithNoWaitFields
<1>3. /\ k.state = k2.state /\ k.priority = k2.priority /\ k.ipriority = k2.ipriority
      /\ k.klocked = k2.klocked /\ k.klockwait = k2.klockwait /\ k.wspec = k2.wspec
      /\ k.wtmeb = k2.wtmeb /\ k.que = k2.que /\ k.bitmap = k2.bitmap
      /\ k.top_priority = k2.top_priority /\ k.klocktsk = k2.klocktsk
      /\ k.schedtsk = k2.schedtsk /\ k.wercd = k2.wercd
  BY <1>2 DEF KernelField
<1>4. Steady(k, r)
  <2>1. Kernel(k)
    BY <1>1, <1>2, <1>3 DEF Kernel, TaskField
  <2> QED BY <1>1, <1>3, <2>1, SteadySame
<1>5. TaskPlaces(k) = r
  <2>1. ASSUME NEW t \in Task PROVE TaskPlace(k, t) = r[t]
    <3>1. CASE t = 1
      <4>1. k.state[t] = "READY" /\ r[t] = {k.priority[t]}
        BY <3>1, <1>1, <1>3
      <4> QED BY <4>1, ATaskWaits DEF TaskPlace
    <3>2. CASE t # 1
      <4>1. k.state[t] = "NONEXIST" /\ r[t] = {FreeTcb}
        BY <3>2, <1>1, <1>3
      <4> QED BY <4>1, ATaskWaits DEF TaskPlace
    <3> QED BY <3>1, <3>2
  <2> QED BY <2>1, <1>1 DEF TaskPlaces, Places
<1>6. WaitTypes(k)
  BY <1>1, <1>2, <1>3 DEF WaitTypes, TaskField
<1>7. \A t \in Task : WaitsOnly(k, t) /\ k.state[t] \in {"READY", "NONEXIST"} /\ k.wid[t] = NoObj
  BY <1>1, <1>2, <1>3 DEF WaitsOnly
<1> QED BY <1>2, <1>4, <1>5, <1>6, <1>7 DEF KState, FirstState

\* The other fields of the components make no difference.
LEMMA FirstStateKept ==
    ASSUME NEW k, FirstState(k), NEW k1, TaskField \subseteq DOMAIN k1,
           \A f \in TaskField : k1[f] = k[f]
    PROVE  FirstState(k1)
<1>1. k1.wercd = k.wercd
  BY DEF TaskField, KernelField
<1>2. DOMAIN k1.wercd = Task /\ k1.wercd = [u \in Task |-> k1.wercd[u]]
  BY <1>1, StateFacts DEF FirstState, WaitTypes
<1>3. KState(k1) /\ k1.state = k.state /\ k1.wid = k.wid
  BY <1>2, OtherFields DEF FirstState
<1> QED BY <1>3 DEF FirstState

(***************************************************************************)
(* The task in execution.                                                  *)
(***************************************************************************)
\* Nobody disables dispatching or interrupts: a task that executes is READY.
TaskControl ==
    /\ ctxtsk \in Task \cup {NoTask} /\ pendsv \in BOOLEAN /\ basepri = FALSE
    /\ ctxtsk # NoTask => dispatch_disabled = "ENABLE"
    /\ InTask => kn.state[ctxtsk] = "READY"

LEMMA CallControl ==
    ASSUME TaskControl, NEW c, NEW k, KState(k), SystemCall(c, k)
    PROVE  TaskControl' /\ kn' = k
<1>1. /\ kn' = k
      /\ pendsv' = (pendsv \/ (/\ c = "hdr" \/ ~basepri
                               /\ ctxtsk # k.schedtsk
                               /\ dispatch_disabled = "ENABLE"))
      /\ ctxtsk' = ctxtsk /\ dispatch_disabled' = dispatch_disabled /\ basepri' = basepri
  BY DEF SystemCall, EndCritical
<1>2. pendsv' \in BOOLEAN
  BY <1>1 DEF TaskControl
<1>3. ASSUME ctxtsk # NoTask, ~pendsv' PROVE k.state[ctxtsk] = "READY"
  <2>1. ctxtsk = k.schedtsk
    BY <1>1, <1>3 DEF TaskControl
  <2> QED BY <2>1, <1>3, SelectedReady
<1> QED BY <1>1, <1>2, <1>3 DEF TaskControl, InTask

\* The calls on other tasks, and the exception that enters the dispatcher.
TaskStep ==
    \/ \E c \in Caller, t \in Task : StaTsk(c, t) \/ SusTsk(c, t) \/ RsmTsk(c, t)
    \/ \E p \in Pri : CreTsk(p)
    \/ DispatchEntry

LEMMA UndisturbedSame ==
    ASSUME NEW k, KState(k)
    PROVE  Undisturbed(k, k)
  BY DEF Undisturbed, Only, Kept

LEMMA TaskStepKeeps ==
    ASSUME TaskControl, KState(kn), TaskStep
    PROVE  TaskControl' /\ Undisturbed(kn', kn) /\ Aside(kn', kn)
<1>1. ASSUME NEW k, Undisturbed(k, kn), Aside(k, kn), NEW c, SystemCall(c, k)
      PROVE  TaskControl' /\ Undisturbed(kn', kn) /\ Aside(kn', kn)
  <2>1. KState(k)
    BY <1>1 DEF Undisturbed
  <2>2. TaskControl' /\ kn' = k
    BY <1>1, <2>1, CallControl
  <2> QED BY <1>1, <2>2
<1>2. ASSUME NEW c \in Caller, NEW t \in Task, StaTsk(c, t)
      PROVE  TaskControl' /\ Undisturbed(kn', kn) /\ Aside(kn', kn)
  <2>1. kn.state[t] = "DORMANT" /\ SystemCall(c, MakeReady(kn, t))
    BY <1>2 DEF StaTsk
  <2>2. Undisturbed(MakeReady(kn, t), kn) /\ Aside(MakeReady(kn, t), kn)
    BY <2>1, StartState
  <2> QED BY <1>1, <2>1, <2>2
<1>3. ASSUME NEW c \in Caller, NEW t \in Task, SusTsk(c, t)
      PROVE  TaskControl' /\ Undisturbed(kn', kn) /\ Aside(kn', kn)
  <2>1. kn.state[t] \in Alive /\ SystemCall(c, Suspend(kn, t))
    BY <1>3 DEF SusTsk
  <2>2. Undisturbed(Suspend(kn, t), kn) /\ Aside(Suspend(kn, t), kn)
    BY <2>1, SuspendState
  <2> QED BY <1>1, <2>1, <2>2
<1>4. ASSUME NEW c \in Caller, NEW t \in Task, RsmTsk(c, t)
      PROVE  TaskControl' /\ Undisturbed(kn', kn) /\ Aside(kn', kn)
  <2> DEFINE n == kn.suscnt[t] - 1
  <2>1. kn.state[t] \in {"SUSPEND", "WAITSUS"} /\ SystemCall(c, Resume(kn, t, n))
    BY <1>4 DEF RsmTsk
  <2> HIDE DEF n
  <2>2. Undisturbed(Resume(kn, t, n), kn) /\ Aside(Resume(kn, t, n), kn)
    BY <2>1, ResumeState
  <2> QED BY <1>1, <2>1, <2>2
<1>5. ASSUME NEW p \in Pri, CreTsk(p)
      PROVE  TaskControl' /\ Undisturbed(kn', kn) /\ Aside(kn', kn)
  <2>1. kn.que[FreeTcb] # <<>> /\ SystemCall("task", CreateTcb(kn, p))
    BY <1>5 DEF CreTsk
  <2>2. Undisturbed(CreateTcb(kn, p), kn) /\ Aside(CreateTcb(kn, p), kn)
    BY <2>1, CreateState
  <2> QED BY <1>1, <2>1, <2>2
<1>6. ASSUME DispatchEntry
      PROVE  TaskControl' /\ Undisturbed(kn', kn) /\ Aside(kn', kn)
  <2>1. kn' = kn /\ ctxtsk' = NoTask /\ pendsv' = FALSE /\ basepri' = basepri
    BY <1>6 DEF DispatchEntry
  <2>2. TaskControl'
    BY <2>1 DEF TaskControl, InTask
  <2> QED BY <2>1, <2>2, UndisturbedSame DEF Aside
<1> QED BY <1>2, <1>3, <1>4, <1>5, <1>6 DEF TaskStep

\* The dispatcher puts the selected task in execution.
LEMMA DispatchSwitchKeeps ==
    ASSUME TaskControl, KState(kn), DispatchSwitch
    PROVE  /\ TaskControl' /\ KState(kn') /\ Only(kn', kn, {"wercd"})
           /\ kn.schedtsk \in Task /\ kn.state[kn.schedtsk] = "READY"
           /\ \A u \in Task \ {kn.schedtsk} : kn'.wercd[u] = kn.wercd[u]
<1>1. /\ kn.schedtsk # NoTask /\ ctxtsk' = kn.schedtsk /\ dispatch_disabled' = "ENABLE"
      /\ kn' = [kn EXCEPT !.wercd[kn.schedtsk] = "none"]
      /\ pendsv' = pendsv /\ basepri' = basepri
  BY DEF DispatchSwitch
<1>2. kn.schedtsk \in Task /\ kn.state[kn.schedtsk] = "READY"
  BY <1>1, SelectedReady
<1>3. /\ KState(kn') /\ Only(kn', kn, {"wercd"})
      /\ \A u \in Task \ {kn.schedtsk} : kn'.wercd[u] = kn.wercd[u]
  BY <1>1, <1>2, ReturnState
<1>4. kn'.state = kn.state
  BY <1>3, StateFacts DEF Only, KernelField
<1>5. TaskControl'
  BY <1>1, <1>2, <1>4 DEF TaskControl, InTask
<1> QED BY <1>2, <1>3, <1>5

\* tk_chg_pri of a task that does not wait; of one that waits, the hook of its
\* wait goes on from k.
LEMMA ChgPriWaitKeeps ==
    ASSUME TaskControl, KState(kn), NEW c, NEW t \in Task, NEW p \in Pri, ChgPriWait(c, t, p)
    PROVE  \/ kn.state[t] \notin WaitBit /\ TaskControl' /\ Undisturbed(kn', kn) /\ Aside(kn', kn)
           \/ /\ kn.state[t] \in WaitBit
              /\ \E k : /\ Undisturbed(k, kn) /\ Only(k, kn, {"bpriority"})
                        /\ SystemCall(c, ChgPriHook([k EXCEPT !.priority[t] = p], t))
<1> DEFINE k == [kn EXCEPT !.bpriority[t] = p]
           k1 == [k EXCEPT !.priority[t] = p]
<1>1. Only(k, kn, {"bpriority"}) /\ k.state = kn.state
  BY StateFacts DEF Only, KernelField
<1>2. SystemCall(c, CASE k.state[t] = "READY" -> MoveReady(k, t, p)
                      [] k.state[t] \in WaitBit -> ChgPriHook(k1, t)
                      [] OTHER -> k1)
  BY DEF ChgPriWait
<1> HIDE DEF k
<1>3. Undisturbed(k, kn) /\ KState(k) /\ Aside(k, kn)
  <2>1. {"bpriority"} \subseteq {"bpriority", "suscnt"}
    OBVIOUS
  <2>2. Undisturbed(k, kn)
    BY <1>1, <2>1, HiddenField
  <2>3. Aside(k, kn)
    BY <1>1, AsideFields
  <2> QED BY <2>2, <2>3 DEF Undisturbed
<1>4. ASSUME NEW k2, Undisturbed(k2, k), Aside(k2, k), SystemCall(c, k2)
      PROVE  TaskControl' /\ Undisturbed(kn', kn) /\ Aside(kn', kn)
  <2>1. KState(k2)
    BY <1>4 DEF Undisturbed
  <2>2. TaskControl' /\ kn' = k2
    BY <1>4, <2>1, CallControl
  <2> QED BY <1>3, <1>4, <2>2, UndisturbedTwice, AsideTwice
<1>5. CASE k.state[t] = "READY"
  <2>1. SystemCall(c, MoveReady(k, t, p)) /\ k.state[t] \notin WaitBit
    BY <1>2, <1>5, ATaskWaits
  <2>2. Undisturbed(MoveReady(k, t, p), k) /\ Aside(MoveReady(k, t, p), k)
    BY <1>3, <1>5, ReadyPriorityState
  <2> QED BY <1>1, <1>4, <2>1, <2>2
<1>6. CASE k.state[t] \in WaitBit
  <2>1. k.state[t] # "READY"
    BY <1>6, ATaskWaits
  <2>2. SystemCall(c, ChgPriHook(k1, t))
    BY <1>2, <1>6, <2>1
  <2> QED BY <1>1, <1>3, <1>6, <2>2
<1>7. CASE k.state[t] \notin WaitBit \cup {"READY"}
  <2>1. SystemCall(c, k1)
    BY <1>2, <1>7
  <2> HIDE DEF k1
  <2>2. Undisturbed(k1, k) /\ Aside(k1, k)
    <3>1. k1 = [k EXCEPT !.priority[t] = p]
      BY DEF k1
    <3> QED BY <1>3, <1>7, <3>1, StateFacts, UnqueuedPriorityState DEF Reprioritized, Only, KernelField
  <2> QED BY <1>1, <1>4, <1>7, <2>1, <2>2
<1> QED BY <1>5, <1>6, <1>7


(***************************************************************************)
(* Serving the queue of a semaphore.                                       *)
(***************************************************************************)
ServeSteps(f, k0, s, q) ==
    f = [n \in 0..Len(q) |-> IF n = 0 THEN [k |-> k0, stop |-> FALSE]
                             ELSE ServeNext(f[n-1], s, q[n])]

LEMMA ServeIs ==
    ASSUME NEW k0, NEW s, k0.que[s] \in Seq(Task), NEW w, ServeSteps(w, k0, s, k0.que[s])
    PROVE  Serve(k0, s) = w[Len(k0.que[s])].k
<1> DEFINE q == k0.que[s]
           f == CHOOSE f : ServeSteps(f, k0, s, q)
           Differ == {n \in 0..Len(q) : f[n] # w[n]}
<1>1. ServeSteps(w, k0, s, q) /\ Len(q) \in Nat
  OBVIOUS
<1>2. ServeSteps(f, k0, s, q)
  BY <1>1
<1>3. Serve(k0, s) = f[Len(q)].k
  BY DEF Serve, ServeSteps
<1> HIDE DEF f, q
<1>4. Differ = {}
  <2> SUFFICES ASSUME Differ # {} PROVE FALSE
    OBVIOUS
  <2>1. Differ \in SUBSET Nat
    BY <1>1
  <2>2. PICK n \in Differ : \A j \in Differ : n <= j
    BY <2>1, LeastElement
  <2>3. n \in 0..Len(q) /\ f[n] # w[n]
    BY <2>2
  <2>4. /\ f[n] = IF n = 0 THEN [k |-> k0, stop |-> FALSE] ELSE ServeNext(f[n-1], s, q[n])
        /\ w[n] = IF n = 0 THEN [k |-> k0, stop |-> FALSE] ELSE ServeNext(w[n-1], s, q[n])
    BY <1>1, <1>2, <2>3 DEF ServeSteps
  <2>5. n # 0 /\ n - 1 \in 0..Len(q)
    BY <1>1, <2>3, <2>4
  <2>6. n - 1 \notin Differ
    BY <1>1, <2>2, <2>3, <2>5
  <2>7. f[n-1] = w[n-1]
    BY <2>5, <2>6
  <2> QED BY <2>3, <2>4, <2>5, <2>7
<1>5. f[Len(q)] = w[Len(q)]
  BY <1>1, <1>4
<1> QED BY <1>3, <1>5 DEF q

\* The search goes on from k, or is over with k.
Looking(k) == [k |-> k, stop |-> FALSE]
Done(k) == [k |-> k, stop |-> TRUE]

LEMMA FoundRecord ==
    ASSUME NEW k, NEW k1, NEW a, NEW b
    PROVE  /\ [[k |-> k, stop |-> a] EXCEPT !.k = k1] = [k |-> k1, stop |-> a]
           /\ [[k |-> k, stop |-> a] EXCEPT !.stop = b] = [k |-> k, stop |-> b]
  OBVIOUS

LEMMA Found ==
    ASSUME NEW k
    PROVE  /\ Looking(k).k = k /\ ~Looking(k).stop
           /\ Done(k).k = k /\ Done(k).stop
           /\ \A k1 : [Looking(k) EXCEPT !.k = k1] = Looking(k1)
           /\ \A b : b = TRUE => [Looking(k) EXCEPT !.stop = b] = Done(k)
           /\ \A b : b = FALSE => [Looking(k) EXCEPT !.stop = b] = Looking(k)
<1>1. PICK off : off = FALSE
  OBVIOUS
<1>2. ASSUME NEW k1 PROVE [Looking(k) EXCEPT !.k = k1] = Looking(k1)
  <2>1. Looking(k) = [k |-> k, stop |-> off] /\ Looking(k1) = [k |-> k1, stop |-> off]
    BY <1>1 DEF Looking
  <2>2. [[k |-> k, stop |-> off] EXCEPT !.k = k1] = [k |-> k1, stop |-> off]
    BY ONLY FoundRecord
  <2> QED BY <2>1, <2>2
<1>3. ASSUME NEW b, b = TRUE PROVE [Looking(k) EXCEPT !.stop = b] = Done(k)
  <2>1. Looking(k) = [k |-> k, stop |-> off] /\ Done(k) = [k |-> k, stop |-> b]
    BY <1>1, <1>3 DEF Looking, Done
  <2>2. [[k |-> k, stop |-> off] EXCEPT !.stop = b] = [k |-> k, stop |-> b]
    BY ONLY FoundRecord
  <2> QED BY <2>1, <2>2
<1>4. ASSUME NEW b, b = FALSE PROVE [Looking(k) EXCEPT !.stop = b] = Looking(k)
  <2>1. Looking(k) = [k |-> k, stop |-> off] /\ Looking(k) = [k |-> k, stop |-> b]
    BY <1>1, <1>4 DEF Looking
  <2>2. [[k |-> k, stop |-> off] EXCEPT !.stop = b] = [k |-> k, stop |-> b]
    BY ONLY FoundRecord
  <2> QED BY <2>1, <2>2
<1>5. Looking(k).k = k /\ ~Looking(k).stop /\ Done(k).k = k /\ Done(k).stop
  BY DEF Looking, Done
<1> QED BY <1>2, <1>3, <1>4, <1>5

\* Task t of the queue has got its units.
Given(k, s, t) == [EndWait(k, t, "E_OK") EXCEPT !.semcnt[s] = @ - k.winfo[t]]

LEMMA ServeNextIs ==
    ASSUME NEW k, NEW s, NEW t
    PROVE  /\ ServeNext(Done(k), s, t) = Done(k)
           /\ k.semcnt[s] < k.winfo[t] /\ "CNT" \notin k.sematr[s]
              => ServeNext(Looking(k), s, t) = Done(k)
           /\ k.semcnt[s] < k.winfo[t] /\ "CNT" \in k.sematr[s]
              => ServeNext(Looking(k), s, t) = Looking(k)
           /\ ~(k.semcnt[s] < k.winfo[t])
              => ServeNext(Looking(k), s, t) = Looking(Given(k, s, t))
<1>1. ServeNext(Done(k), s, t) = Done(k)
  BY Found DEF ServeNext
<1> DEFINE a == Looking(k)
<1>2. ~a.stop /\ a.k = k
  BY Found
<1>3. ASSUME k.semcnt[s] < k.winfo[t], "CNT" \notin k.sematr[s]
      PROVE  ServeNext(a, s, t) = Done(k)
  <2> DEFINE b == "CNT" \notin a.k.sematr[s]
  <2>1. b = TRUE
    BY <1>2, <1>3
  <2> HIDE DEF b
  <2>2. [a EXCEPT !.stop = b] = Done(k)
    BY <2>1, Found
  <2> HIDE DEF a
  <2>3. ServeNext(a, s, t) = [a EXCEPT !.stop = b]
    BY <1>2, <1>3 DEF ServeNext, b
  <2> QED BY <2>2, <2>3
<1>4. ASSUME ~(k.semcnt[s] < k.winfo[t])
      PROVE  ServeNext(a, s, t) = Looking(Given(k, s, t))
  <2> DEFINE k1 == Given(k, s, t)
  <2>1. [a EXCEPT !.k = k1] = Looking(k1)
    <3> HIDE DEF k1
    <3> QED BY Found
  <2> HIDE DEF a
  <2>2. ServeNext(a, s, t) = [a EXCEPT !.k = [EndWait(a.k, t, "E_OK") EXCEPT
                                                !.semcnt[s] = @ - a.k.winfo[t]]]
    BY <1>2, <1>4 DEF ServeNext
  <2>3. ServeNext(a, s, t) = [a EXCEPT !.k = k1]
    BY <1>2, <2>2 DEF Given
  <2> QED BY <2>1, <2>3
<1>5. ASSUME k.semcnt[s] < k.winfo[t], "CNT" \in k.sematr[s]
      PROVE  ServeNext(a, s, t) = Looking(k)
  <2> DEFINE b == "CNT" \notin a.k.sematr[s]
  <2>1. b = FALSE
    BY <1>2, <1>5
  <2> HIDE DEF b
  <2>2. [a EXCEPT !.stop = b] = Looking(k)
    BY <2>1, Found
  <2> HIDE DEF a
  <2>3. ServeNext(a, s, t) = [a EXCEPT !.stop = b]
    BY <1>2, <1>5 DEF ServeNext, b
  <2> QED BY <2>2, <2>3
<1> QED BY <1>1, <1>3, <1>4, <1>5

(***************************************************************************)
(* Serving the queue of an event flag.                                     *)
(***************************************************************************)
ServeFlgSteps(g, k0, f, q) ==
    g = [n \in 0..Len(q) |-> IF n = 0 THEN [k |-> k0, stop |-> FALSE]
                             ELSE ServeFlgNext(g[n-1], f, q[n])]

LEMMA ServeFlgIs ==
    ASSUME NEW k0, NEW f, k0.que[f] \in Seq(Task), NEW w, ServeFlgSteps(w, k0, f, k0.que[f])
    PROVE  ServeFlg(k0, f) = w[Len(k0.que[f])].k
<1> DEFINE q == k0.que[f]
           g == CHOOSE g : ServeFlgSteps(g, k0, f, q)
           Differ == {n \in 0..Len(q) : g[n] # w[n]}
<1>1. ServeFlgSteps(w, k0, f, q) /\ Len(q) \in Nat
  OBVIOUS
<1>2. ServeFlgSteps(g, k0, f, q)
  BY <1>1
<1>3. ServeFlg(k0, f) = g[Len(q)].k
  BY DEF ServeFlg, ServeFlgSteps
<1> HIDE DEF g, q
<1>4. Differ = {}
  <2> SUFFICES ASSUME Differ # {} PROVE FALSE
    OBVIOUS
  <2>1. Differ \in SUBSET Nat
    BY <1>1
  <2>2. PICK n \in Differ : \A j \in Differ : n <= j
    BY <2>1, LeastElement
  <2>3. n \in 0..Len(q) /\ g[n] # w[n]
    BY <2>2
  <2>4. /\ g[n] = IF n = 0 THEN [k |-> k0, stop |-> FALSE] ELSE ServeFlgNext(g[n-1], f, q[n])
        /\ w[n] = IF n = 0 THEN [k |-> k0, stop |-> FALSE] ELSE ServeFlgNext(w[n-1], f, q[n])
    BY <1>1, <1>2, <2>3 DEF ServeFlgSteps
  <2>5. n # 0 /\ n - 1 \in 0..Len(q)
    BY <1>1, <2>3, <2>4
  <2>6. n - 1 \notin Differ
    BY <1>1, <2>2, <2>3, <2>5
  <2>7. g[n-1] = w[n-1]
    BY <2>5, <2>6
  <2> QED BY <2>3, <2>4, <2>5, <2>7
<1>5. g[Len(q)] = w[Len(q)]
  BY <1>1, <1>4
<1> QED BY <1>3, <1>5 DEF q

\* Task t of the queue has been released: what is left of the pattern.
Left(k, f, t) == Cleared(k.flgptn[f], k.winfo[t])
Freed(k, f, t) == [EndWait(k, t, "E_OK") EXCEPT !.flgptn[f] = Left(k, f, t)]
AfterFreed(k, f, t) ==
    IF Left(k, f, t) = {} THEN Done(Freed(k, f, t)) ELSE Looking(Freed(k, f, t))

LEMMA ServeFlgNextIs ==
    ASSUME NEW k, NEW f, NEW t
    PROVE  /\ ServeFlgNext(Done(k), f, t) = Done(k)
           /\ ~Cond(k.flgptn[f], k.winfo[t]) => ServeFlgNext(Looking(k), f, t) = Looking(k)
           /\ Cond(k.flgptn[f], k.winfo[t])
              => ServeFlgNext(Looking(k), f, t) = AfterFreed(k, f, t)
<1>1. ServeFlgNext(Done(k), f, t) = Done(k)
  BY Found DEF ServeFlgNext
<1> DEFINE a == Looking(k)
<1>2. ~a.stop /\ a.k = k
  BY Found
<1>3. ASSUME ~Cond(k.flgptn[f], k.winfo[t])
      PROVE  ServeFlgNext(a, f, t) = Looking(k)
  BY <1>2, <1>3 DEF ServeFlgNext
<1>4. ASSUME Cond(k.flgptn[f], k.winfo[t])
      PROVE  ServeFlgNext(a, f, t) = AfterFreed(k, f, t)
  <2> DEFINE left == Left(k, f, t)
             k1 == Freed(k, f, t)
             b == left = {}
  <2> HIDE DEF a
  <2>1. ServeFlgNext(a, f, t) = [k |-> k1, stop |-> b]
    BY <1>2, <1>4 DEF ServeFlgNext, Left, Freed
  <2> HIDE DEF k1, left
  <2>2. CASE left = {}
    <3>1. b = TRUE
      BY <2>2
    <3> HIDE DEF b
    <3> QED BY <2>1, <2>2, <3>1 DEF Done, AfterFreed, k1, left
  <2>3. CASE left # {}
    <3>1. b = FALSE
      BY <2>3
    <3> HIDE DEF b
    <3> QED BY <2>1, <2>3, <3>1 DEF Looking, AfterFreed, k1, left
  <2> QED BY <2>2, <2>3
<1> QED BY <1>1, <1>3, <1>4

(***************************************************************************)
(* The links of the messages of a mailbox.                                 *)
(***************************************************************************)
LEMMA LinksPrefix ==
    ASSUME NEW next, NEW h, NEW c \in Seq(Msg), NEW d \in Seq(Msg),
           LinksTo(next, h, c), LinksTo(next, h, d), Len(c) <= Len(d)
    PROVE  c = d
<1> DEFINE Differ == {i \in 1..Len(c) : c[i] # d[i]}
<1>1. /\ Len(c) \in Nat /\ Len(d) \in Nat /\ DOMAIN c = 1..Len(c) /\ DOMAIN d = 1..Len(d)
      /\ \A i \in 1..Len(d) : d[i] \in Msg
      /\ c = <<>> <=> Len(c) = 0
      /\ d = <<>> <=> Len(d) = 0
      /\ NoMsg \notin Msg
  BY MailboxAssumption
<1>2. Differ = {}
  <2> SUFFICES ASSUME Differ # {} PROVE FALSE
    OBVIOUS
  <2>1. Differ \in SUBSET Nat
    BY <1>1
  <2>2. PICK i \in Differ : \A j \in Differ : i <= j
    BY <2>1, LeastElement
  <2>3. i \in 1..Len(c) /\ c[i] # d[i] /\ i \in 1..Len(d)
    BY <1>1, <2>2
  <2>4. i # 1
    <3> SUFFICES ASSUME i = 1 PROVE FALSE
      OBVIOUS
    <3>1. h = c[1] /\ h = d[1]
      BY <1>1, <2>3 DEF LinksTo
    <3> QED BY <2>3, <3>1
  <2>5. /\ i-1 \in 1..Len(c) /\ i-1 \in 1..Len(d)
        /\ i-1 # Len(c) /\ i-1 # Len(d) /\ i-1 \notin Differ
    BY ONLY <1>1, <2>2, <2>3, <2>4
  <2>6. c[i-1] = d[i-1]
    BY <2>5
  <2>7. next[c[i-1]] = c[i-1+1] /\ next[d[i-1]] = d[i-1+1]
    BY ONLY <1>1, <2>5, LinksTo(next, h, c), LinksTo(next, h, d) DEF LinksTo
  <2>8. i-1+1 = i
    BY <1>1, <2>3
  <2> QED BY <2>3, <2>6, <2>7, <2>8
<1>3. \A i \in 1..Len(c) : c[i] = d[i]
  BY <1>2
<1>4. Len(c) = Len(d)
  <2>0. PICK n \in Nat, l \in Nat : n = Len(c) /\ l = Len(d) /\ n <= l
    BY <1>1
  <2> SUFFICES ASSUME n # l PROVE FALSE
    BY <2>0
  <2>1. CASE c = <<>>
    <3>1. h = NoMsg /\ h = d[1] /\ 1 \in 1..Len(d)
      BY <1>1, <2>0, <2>1 DEF LinksTo
    <3> QED BY <1>1, <3>1
  <2>2. CASE c # <<>>
    <3>0. n # 0
      BY <1>1, <2>0, <2>2
    <3>1. n \in 1..n /\ n \in 1..l /\ n+1 \in 1..l
      BY <2>0, <3>0
    <3>2. next[c[n]] = NoMsg /\ next[d[n]] = d[n+1] /\ c[n] = d[n]
      BY <1>1, <1>3, <2>0, <3>1 DEF LinksTo
    <3> QED BY <1>1, <2>0, <3>1, <3>2
  <2> QED BY <2>1, <2>2
<1> QED BY <1>1, <1>3, <1>4

\* There are no more messages linked to each other than messages.
LEMMA ChainIs ==
    ASSUME NEW k, NEW m, NEW c \in Seq(Msg), IsInjective(c), LinksTo(k.nextmsg, m, c)
    PROVE  Chain(k, m) = c
<1> DEFINE n == Cardinality(Msg)
           Links(d) == d \in SeqOf(Msg, n) /\ LinksTo(k.nextmsg, m, d)
<1>1. Len(c) \in Nat /\ c \in [1..Len(c) -> Msg] /\ DOMAIN c = 1..Len(c)
  OBVIOUS
<1>2. Len(c) <= n
  <2>1. c \in Injection(1..Len(c), Msg)
    BY <1>1 DEF Injection
  <2>2. Cardinality(1..Len(c)) <= n
    BY <2>1, FS_Injection, MailboxAssumption
  <2>3. Cardinality(1..Len(c)) = Len(c)
    <3>1. Cardinality(1..Len(c)) = IF 1 > Len(c) THEN 0 ELSE Len(c) - 1 + 1
      BY <1>1, FS_Interval
    <3> QED BY <1>1, <3>1
  <2> QED BY <2>2, <2>3
<1>3. n \in Nat
  BY FS_CardinalityType, MailboxAssumption
<1>4. Len(c) \in 0..n
  BY <1>1, <1>2, <1>3
<1>5. c \in SeqOf(Msg, n)
  BY <1>1, <1>4 DEF SeqOf
<1>6. ASSUME NEW d \in SeqOf(Msg, n), LinksTo(k.nextmsg, m, d) PROVE d = c
  <2>1. PICK j \in 0..n : d \in [1..j -> Msg]
    BY DEF SeqOf
  <2>2. d \in Seq(Msg)
    BY <1>3, <2>1
  <2>3. Len(c) <= Len(d) \/ Len(d) <= Len(c)
    BY <1>1, <2>2
  <2> QED BY <1>6, <2>2, <2>3, LinksPrefix
<1> QED BY <1>5, <1>6 DEF Chain

\* A message is linked in before entry i, or to the last one.
LEMMA InsertLinks ==
    ASSUME NEW next, NEW h, NEW c \in Seq(Msg), IsInjective(c), LinksTo(next, h, c),
           NEW m \in Msg, ~Contains(c, m), NEW i \in 1..Len(c)+1,
           NEW d \in Seq(Msg), Inserted(c, i, m, d),
           NEW next1, next1[m] = IF i = Len(c)+1 THEN NoMsg ELSE c[i],
           i > 1 => next1[c[i-1]] = m,
           \A j \in 1..Len(c) : j # i-1 => next1[c[j]] = next[c[j]]
    PROVE  LinksTo(next1, IF i = 1 THEN m ELSE h, d)
<1>0. i \in 1..Len(c)+1
  OBVIOUS
<1>1. /\ Len(c) \in Nat /\ DOMAIN c = 1..Len(c) /\ Len(d) = Len(c)+1 /\ DOMAIN d = 1..Len(c)+1
      /\ (c = <<>> <=> Len(c) = 0) /\ d # <<>>
      /\ \A j \in 1..i-1 : d[j] = c[j]
      /\ d[i] = m
      /\ \A j \in i+1..Len(c)+1 : d[j] = c[j-1]
  BY DEF Inserted
<1>2. (IF i = 1 THEN m ELSE h) = d[1]
  <2>1. CASE i = 1
    BY <1>1, <2>1
  <2>2. CASE i # 1
    <3>1. 1 \in 1..i-1 /\ c # <<>>
      BY <1>1, <2>2
    <3>2. h = c[1]
      BY <3>1 DEF LinksTo
    <3> QED BY <1>1, <2>2, <3>1, <3>2
  <2> QED BY <2>1, <2>2
<1>3. ASSUME NEW j \in 1..Len(c)+1
      PROVE  next1[d[j]] = IF j = Len(d) THEN NoMsg ELSE d[j+1]
  <2>1. CASE j < i-1
    <3>1. j \in 1..Len(c) /\ j # i-1 /\ j \in 1..i-1 /\ j+1 \in 1..i-1 /\ j # Len(c) /\ j # Len(d)
      <4>1. j < Len(c) /\ j \in 1..Len(c)
        BY ONLY <1>0, <1>1, <1>3, <2>1
      <4>2. j \in 1..i-1 /\ j+1 \in 1..i-1 /\ j # i-1
        BY ONLY <1>0, <1>1, <1>3, <2>1
      <4>3. j # Len(c) /\ j # Len(c)+1
        <5>1. PICK n \in Nat : n = Len(c)
          BY <1>1
        <5>2. j < n /\ j \in Nat
          BY <4>1, <5>1
        <5> QED BY <5>1, <5>2
      <4> QED BY <1>1, <4>1, <4>2, <4>3
    <3>2. next[c[j]] = c[j+1]
      BY <1>1, <3>1 DEF LinksTo
    <3> QED BY <1>1, <3>1, <3>2
  <2>2. CASE j = i-1
    <3>1. i > 1 /\ j \in 1..i-1 /\ j+1 = i /\ j # Len(d)
      BY <1>1, <2>2
    <3> QED BY <1>1, <2>2, <3>1
  <2>3. CASE j = i
    <3>1. CASE i = Len(c)+1
      BY <1>1, <2>3, <3>1
    <3>2. CASE i # Len(c)+1
      <4>1. j+1 \in i+1..Len(c)+1 /\ j # Len(d) /\ j+1-1 = i
        BY <1>1, <2>3, <3>2
      <4> QED BY <1>1, <2>3, <3>2, <4>1
    <3> QED BY <3>1, <3>2
  <2>4. CASE j > i
    <3>1. j \in i+1..Len(c)+1 /\ j-1 \in 1..Len(c) /\ j-1 # i-1 /\ d[j] = c[j-1]
      BY <1>1, <2>4
    <3>2. next1[d[j]] = next[c[j-1]]
      BY <3>1
    <3>3. next[c[j-1]] = IF j-1 = Len(c) THEN NoMsg ELSE c[j-1+1]
      BY <1>1, <3>1 DEF LinksTo
    <3>4. CASE j = Len(d)
      BY <1>1, <3>1, <3>2, <3>3, <3>4
    <3>5. CASE j # Len(d)
      <4>1. j+1 \in i+1..Len(c)+1 /\ j-1 # Len(c) /\ j-1+1 = j /\ j+1-1 = j
        BY ONLY <1>0, <1>1, <1>3, <2>4, <3>5
      <4>2. d[j+1] = c[j]
        BY <1>1, <4>1
      <4> QED BY <3>2, <3>3, <3>5, <4>1, <4>2
    <3> QED BY <3>4, <3>5
  <2> QED BY <1>1, <2>1, <2>2, <2>3, <2>4
<1> QED BY <1>1, <1>2, <1>3 DEF LinksTo

LEMMA TailFacts ==
    ASSUME NEW c \in Seq(Msg), c # <<>>
    PROVE  /\ Len(c) \in Nat /\ Len(c) >= 1 /\ DOMAIN c = 1..Len(c)
           /\ Tail(c) \in Seq(Msg) /\ Len(Tail(c)) = Len(c)-1 /\ DOMAIN Tail(c) = 1..Len(c)-1
           /\ \A j \in 1..Len(c)-1 : Tail(c)[j] = c[j+1]
           /\ Tail(c) = <<>> <=> Len(c) = 1
<1>1. Len(c) \in Nat /\ DOMAIN c = 1..Len(c)
  OBVIOUS
<1>2. Len(c) >= 1
  <2>1. Len(c) # 0
    OBVIOUS
  <2> QED BY <1>1, <2>1
<1>3. Tail(c) \in Seq(Msg) /\ Len(Tail(c)) = Len(c)-1
  OBVIOUS
<1>4. DOMAIN Tail(c) = 1..Len(c)-1
  BY <1>3
<1>5. \A j \in 1..Len(c)-1 : Tail(c)[j] = c[j+1]
  OBVIOUS
<1>6. Tail(c) = <<>> <=> Len(Tail(c)) = 0
  BY <1>3
<1>7. Tail(c) = <<>> <=> Len(c) = 1
  BY ONLY <1>1, <1>3, <1>6
<1> QED BY <1>1, <1>2, <1>3, <1>4, <1>5, <1>7

\* The first message is taken.
LEMMA TailLinks ==
    ASSUME NEW next, NEW h, NEW c \in Seq(Msg), IsInjective(c), LinksTo(next, h, c), c # <<>>,
           NEW next1, \A j \in 1..Len(c) : j # 1 => next1[c[j]] = next[c[j]]
    PROVE  LinksTo(next1, next[h], Tail(c)) /\ h = c[1]
<1> DEFINE d == Tail(c)
<1>1. /\ Len(c) \in Nat /\ Len(c) >= 1 /\ DOMAIN c = 1..Len(c)
      /\ d \in Seq(Msg) /\ Len(d) = Len(c)-1 /\ DOMAIN d = 1..Len(c)-1
      /\ \A j \in 1..Len(c)-1 : d[j] = c[j+1]
      /\ d = <<>> <=> Len(c) = 1
  BY TailFacts
<1>2. h = c[1]
  BY DEF LinksTo
<1>3. next[h] = IF d = <<>> THEN NoMsg ELSE d[1]
  <2>1. next[c[1]] = IF 1 = Len(c) THEN NoMsg ELSE c[1+1]
    BY <1>1 DEF LinksTo
  <2>2. d # <<>> => 1 \in 1..Len(c)-1
    BY <1>1
  <2> QED BY <1>1, <1>2, <2>1, <2>2
<1>4. ASSUME NEW j \in 1..Len(c)-1
      PROVE  next1[d[j]] = IF j = Len(d) THEN NoMsg ELSE d[j+1]
  <2>1. j+1 \in 1..Len(c) /\ j+1 # 1 /\ (j = Len(d) <=> j+1 = Len(c))
    BY <1>1
  <2>2. next1[d[j]] = next[c[j+1]]
    BY <1>1, <2>1
  <2>3. next[c[j+1]] = IF j+1 = Len(c) THEN NoMsg ELSE c[j+1+1]
    BY <1>1, <2>1 DEF LinksTo
  <2>4. j # Len(c)-1 => j+1 \in 1..Len(c)-1
    <3>1. PICK n \in Nat : n = Len(c)-1
      <4>1. Len(d) \in Nat
        BY <1>1
      <4> QED BY <1>1, <4>1
    <3>2. j \in 1..n
      BY <1>4, <3>1
    <3>3. j # n => j+1 \in 1..n
      BY <3>2
    <3> QED BY <3>1, <3>3
  <2> QED BY <1>1, <2>1, <2>2, <2>3, <2>4
<1> HIDE DEF d
<1>5. LinksTo(next1, next[h], d)
  BY <1>1, <1>3, <1>4 DEF LinksTo
<1> QED BY <1>2, <1>5 DEF d

(***************************************************************************)
(* The messages of all mailboxes.                                          *)
(***************************************************************************)
\* The messages of c are those of s, by priority and then in the order of s.
ByMsgPri(c, s) ==
    \A i, j \in DOMAIN c : i < j =>
        \/ MsgPri[c[i]] < MsgPri[c[j]]
        \/ MsgPri[c[i]] = MsgPri[c[j]] /\ Before(s, c[i], c[j])

\* c is the chain from head on: the messages of s, linked in their order or
\* in that of their priorities.
MsgChain(atr, head, tail, next, s, c) ==
    /\ c \in Seq(Msg) /\ IsInjective(c) /\ LinksTo(next, head, c)
    /\ \A e : Contains(c, e) <=> Contains(s, e)
    /\ IF "MPRI" \in atr THEN ByMsgPri(c, s)
       ELSE c = s /\ (c # <<>> => tail = c[Len(c)])

MsgTypes(head, tail, next, msgs) ==
    /\ head \in [MBX -> Msg \cup {NoMsg}] /\ tail \in [MBX -> Msg \cup {NoMsg}]
    /\ next \in [Msg -> Msg \cup {NoMsg}]
    /\ msgs \in [MBX -> Seq(Msg)]

\* A message is in one mailbox, and a mailbox that does not exist has none.
MsgState(id, atr, head, tail, next, msgs) ==
    /\ MsgTypes(head, tail, next, msgs)
    /\ \A x \in MBX : IsInjective(msgs[x]) /\ (~id[x] => msgs[x] = <<>>)
    /\ \A x, y \in MBX : \A e : Contains(msgs[x], e) /\ Contains(msgs[y], e) => x = y
    /\ \A x \in MBX : \E c : MsgChain(atr[x], head[x], tail[x], next, msgs[x], c)

\* Mailbox x and the links of its messages change.
LEMMA MsgStep ==
    ASSUME NEW id, NEW atr, NEW head, NEW tail, NEW next, NEW msgs,
           MsgState(id, atr, head, tail, next, msgs),
           NEW id1, NEW atr1, NEW head1, NEW tail1, NEW next1, NEW msgs1,
           MsgTypes(head1, tail1, next1, msgs1),
           NEW x \in MBX,
           \A y \in MBX \ {x} : /\ id1[y] = id[y] /\ atr1[y] = atr[y] /\ head1[y] = head[y]
                                /\ tail1[y] = tail[y] /\ msgs1[y] = msgs[y]
                                /\ \A e : Contains(msgs[y], e) => /\ next1[e] = next[e]
                                                                  /\ ~Contains(msgs1[x], e),
           IsInjective(msgs1[x]), ~id1[x] => msgs1[x] = <<>>,
           NEW c, MsgChain(atr1[x], head1[x], tail1[x], next1, msgs1[x], c)
    PROVE  MsgState(id1, atr1, head1, tail1, next1, msgs1)
<1>1. ASSUME NEW y \in MBX
      PROVE  /\ IsInjective(msgs1[y]) /\ (~id1[y] => msgs1[y] = <<>>)
             /\ \E d : MsgChain(atr1[y], head1[y], tail1[y], next1, msgs1[y], d)
  <2>1. CASE y = x
    BY <2>1
  <2>2. CASE y # x
    <3>1. PICK d : MsgChain(atr[y], head[y], tail[y], next, msgs[y], d)
      BY DEF MsgState
    <3>2. d \in Seq(Msg) /\ LinksTo(next, head[y], d)
          /\ \A e : Contains(d, e) <=> Contains(msgs[y], e)
      BY <3>1 DEF MsgChain
    <3>3. ASSUME NEW i \in DOMAIN d PROVE next1[d[i]] = next[d[i]]
      <4>1. Contains(d, d[i])
        BY <3>2 DEF Contains
      <4> QED BY <2>2, <3>2, <4>1
    <3>4. LinksTo(next1, head[y], d)
      BY <3>2, <3>3 DEF LinksTo
    <3>5. MsgChain(atr1[y], head1[y], tail1[y], next1, msgs1[y], d)
      BY <2>2, <3>1, <3>4 DEF MsgChain
    <3> QED BY <2>2, <3>5 DEF MsgState
  <2> QED BY <2>1, <2>2
<1>2. ASSUME NEW y \in MBX, NEW z \in MBX, NEW e, Contains(msgs1[y], e), Contains(msgs1[z], e)
      PROVE  y = z
  <2>1. CASE y = x \/ z = x
    BY <1>2, <2>1
  <2>2. CASE y # x /\ z # x
    BY <1>2, <2>2 DEF MsgState
  <2> QED BY <2>1, <2>2
<1> QED BY <1>1, <1>2 DEF MsgState

LEMMA EmptyChain ==
    ASSUME NEW atr, NEW tail, NEW next
    PROVE  MsgChain(atr, NoMsg, tail, next, <<>>, <<>>) /\ IsInjective(<<>>)
           /\ \A e : ~Contains(<<>>, e)
<1>1. DOMAIN <<>> = {} /\ <<>> \in Seq(Msg) /\ Len(<<>>) = 0
  OBVIOUS
<1>2. \A e : ~Contains(<<>>, e)
  BY <1>1 DEF Contains
<1>3. IsInjective(<<>>)
  BY <1>1 DEF IsInjective
<1>4. LinksTo(next, NoMsg, <<>>)
  BY <1>1 DEF LinksTo
<1>5. ByMsgPri(<<>>, <<>>)
  BY <1>1 DEF ByMsgPri
<1> QED BY <1>1, <1>2, <1>3, <1>4, <1>5 DEF MsgChain

\* No mailbox exists, or has been used.
LEMMA MsgFirst ==
    ASSUME NEW atr, NEW id
    PROVE  MsgState(id, atr, [x \in MBX |-> NoMsg], [x \in MBX |-> NoMsg],
                    [m \in Msg |-> NoMsg], [x \in MBX |-> <<>>])
<1> DEFINE none == [x \in MBX |-> NoMsg]
           next == [m \in Msg |-> NoMsg]
           msgs == [x \in MBX |-> <<>>]
<1>1. MsgTypes(none, none, next, msgs)
  BY DEF MsgTypes
<1>2. \A x \in MBX : none[x] = NoMsg /\ msgs[x] = <<>>
  OBVIOUS
<1> HIDE DEF none, next, msgs
<1>3. MsgState(id, atr, none, none, next, msgs)
  BY <1>1, <1>2, EmptyChain DEF MsgState
<1> QED BY <1>3 DEF none, next, msgs

(***************************************************************************)
(* The order in which messages were sent.                                  *)
(***************************************************************************)
LEMMA BeforeAppend ==
    ASSUME NEW s \in Seq(Msg), NEW m \in Msg
    PROVE  /\ \A u, v : Before(s, u, v) => Before(Append(s, m), u, v)
           /\ \A u : Contains(s, u) => Before(Append(s, m), u, m)
<1> DEFINE r == Append(s, m)
<1>1. PICK n \in Nat : n = Len(s)
  OBVIOUS
<1>2. DOMAIN s = 1..n /\ DOMAIN r = 1..n+1 /\ r[n+1] = m /\ \A i \in 1..n : r[i] = s[i]
  BY <1>1
<1> HIDE DEF r
<1>3. ASSUME NEW u, NEW v, Before(s, u, v) PROVE Before(r, u, v)
  <2>1. PICK i, j \in DOMAIN s : i < j /\ s[i] = u /\ s[j] = v
    BY <1>3 DEF Before
  <2>2. i \in DOMAIN r /\ j \in DOMAIN r
    BY <1>2, <2>1
  <2> QED BY <1>2, <2>1, <2>2 DEF Before
<1>4. ASSUME NEW u, Contains(s, u) PROVE Before(r, u, m)
  <2>1. PICK i \in 1..n : s[i] = u
    BY <1>1, <1>4 DEF Contains
  <2>2. i \in DOMAIN r /\ n+1 \in DOMAIN r /\ i < n+1
    BY <1>2, <2>1
  <2> QED BY <1>2, <2>1, <2>2 DEF Before
<1> QED BY <1>3, <1>4 DEF r

LEMMA UnlinkMsg ==
    ASSUME NEW s \in Seq(Msg), IsInjective(s), NEW m, Contains(s, m)
    PROVE  /\ Unlink(s, m) \in Seq(Msg) /\ IsInjective(Unlink(s, m))
           /\ \A e : Contains(Unlink(s, m), e) <=> Contains(s, e) /\ e # m
           /\ \A u, v : Before(s, u, v) /\ u # m /\ v # m => Before(Unlink(s, m), u, v)
<1> DEFINE p == CHOOSE i \in DOMAIN s : s[i] = m
           r == RemoveAt(s, CHOOSE i \in DOMAIN s : s[i] = m)
<1>1. PICK n \in Nat : n = Len(s)
  OBVIOUS
<1>2. DOMAIN s = 1..n
  BY <1>1
<1>3. p \in 1..n /\ s[p] = m /\ InRing(s, m)
  BY <1>1, <1>2 DEF Contains, InRing
<1>4. Unlink(s, m) = r
  BY <1>3 DEF Unlink
<1>5. /\ r \in Seq(Msg) /\ IsInjective(r)
      /\ \A e : Contains(r, e) <=> Contains(s, e) /\ e # m
  <2>1. r = RemoveAt(s, CHOOSE i \in DOMAIN s : s[i] = m)
    OBVIOUS
  <2> HIDE DEF r
  <2>2. /\ r \in Seq(Msg) /\ Len(r) = Len(s) - 1
        /\ IsInjective(r)
        /\ \A u : Contains(r, u) <=> Contains(s, u) /\ u # m
    <3>1. Ordered(s, [x \in Msg |-> 0]) 
      BY DEF Ordered
    <3> QED BY <2>1, <3>1, RemoveEntry
  <2> QED BY <2>2
<1>9. r = RemoveAt(s, p)
  OBVIOUS
<1> HIDE DEF p
<1>6. Len(r) = n - 1 /\ \A j \in 1..n-1 : r[j] = IF j < p THEN s[j] ELSE s[j+1]
  <2>1. p \in 1..Len(s)
    BY <1>1, <1>3
  <2> HIDE DEF r
  <2> QED BY <1>1, <1>9, <2>1, RemoveAtIndex
<1> HIDE DEF r
<1>7. DOMAIN r = 1..n-1
  BY <1>5, <1>6
<1>8. ASSUME NEW u, NEW v, Before(s, u, v), u # m, v # m PROVE Before(r, u, v)
  <2>1. PICK i, j \in 1..n : i < j /\ s[i] = u /\ s[j] = v
    BY <1>2, <1>8 DEF Before
  <2>2. i # p /\ j # p
    BY <1>3, <1>8, <2>1
  <2>3. PICK a \in 1..n-1 : a = IF i < p THEN i ELSE i-1
    BY <1>3, <2>1, <2>2
  <2>4. PICK b \in 1..n-1 : b = IF j < p THEN j ELSE j-1
    BY <1>3, <2>1, <2>2
  <2>5. a < b
    BY <1>3, <2>1, <2>2, <2>3, <2>4
  <2>6. r[a] = s[i]
    <3>1. CASE i < p
      BY <1>6, <2>3, <3>1
    <3>2. CASE ~(i < p)
      <4>1. ~(a < p) /\ a+1 = i
        BY <1>3, <2>1, <2>2, <2>3, <3>2
      <4> QED BY <1>6, <4>1
    <3> QED BY <3>1, <3>2
  <2>7. r[b] = s[j]
    <3>1. CASE j < p
      BY <1>6, <2>4, <3>1
    <3>2. CASE ~(j < p)
      <4>1. ~(b < p) /\ b+1 = j
        BY <1>3, <2>1, <2>2, <2>4, <3>2
      <4> QED BY <1>6, <4>1
    <3> QED BY <3>1, <3>2
  <2> QED BY <1>7, <2>1, <2>5, <2>6, <2>7 DEF Before
<1> QED BY <1>4, <1>5, <1>8

\* The first message is unlinked.
LEMMA UnlinkHead ==
    ASSUME NEW s \in Seq(Msg), IsInjective(s), s # <<>>
    PROVE  Unlink(s, s[1]) = Tail(s)
<1> DEFINE p == CHOOSE i \in DOMAIN s : s[i] = s[1]
           r == RemoveAt(s, p)
<1>1. /\ Len(s) \in Nat /\ DOMAIN s = 1..Len(s) /\ 1 \in 1..Len(s)
      /\ Tail(s) \in Seq(Msg) /\ Len(Tail(s)) = Len(s)-1
      /\ \A j \in 1..Len(s)-1 : Tail(s)[j] = s[j+1]
  BY TailFacts
<1>2. p \in DOMAIN s /\ s[p] = s[1]
  BY <1>1
<1> HIDE DEF p
<1>3. p = 1
  BY <1>1, <1>2 DEF IsInjective
<1>4. r \in Seq(Msg) /\ Len(r) = Len(s)-1 /\ \A j \in 1..Len(s)-1 : r[j] = IF j < p THEN s[j] ELSE s[j+1]
  BY <1>1, <1>3, RemoveAtIndex
<1>5. Unlink(s, s[1]) = r
  BY <1>1 DEF Unlink, InRing, p
<1> HIDE DEF r
<1>6. \A j \in 1..Len(s)-1 : r[j] = s[j+1]
  BY <1>3, <1>4
<1> QED BY <1>1, <1>4, <1>5, <1>6

(***************************************************************************)
(* What the calls do to the messages.                                      *)
(***************************************************************************)
\* tk_cre_mbx: a mailbox that does not exist has no messages.
LEMMA MsgCreated ==
    ASSUME NEW id \in [MBX -> BOOLEAN], NEW atr \in [MBX -> SUBSET MbxAtr], NEW head, NEW tail, NEW next, NEW msgs,
           MsgState(id, atr, head, tail, next, msgs),
           NEW x \in MBX, ~id[x], NEW id1, id1 = [id EXCEPT ![x] = TRUE],
           NEW a, NEW atr1, atr1 = [atr EXCEPT ![x] = a],
           NEW head1, head1 = [head EXCEPT ![x] = NoMsg]
    PROVE  MsgState(id1, atr1, head1, tail, next, msgs)
<1>1. MsgTypes(head1, tail, next, msgs) /\ head1[x] = NoMsg
  BY DEF MsgState, MsgTypes
<1>2. msgs[x] = <<>> /\ IsInjective(msgs[x])
  BY DEF MsgState
<1>3. \A y \in MBX \ {x} : /\ id1[y] = id[y] /\ atr1[y] = atr[y] /\ head1[y] = head[y]
                           /\ tail[y] = tail[y] /\ msgs[y] = msgs[y]
                           /\ \A e : Contains(msgs[y], e) => next[e] = next[e] /\ ~Contains(msgs[x], e)
  BY <1>2, EmptyChain DEF MsgState, MsgTypes
<1>4. MsgChain(atr1[x], head1[x], tail[x], next, msgs[x], <<>>)
  BY <1>1, <1>2, EmptyChain
<1>5. ~id1[x] => msgs[x] = <<>>
  BY <1>2
<1> QED BY ONLY MsgState(id, atr, head, tail, next, msgs), x \in MBX,
               <1>1, <1>2, <1>3, <1>4, <1>5, MsgStep

\* The links when the messages of s are forgotten.
NoLinks(next, s) == [m \in Msg |-> IF m \in ToSet(s) THEN NoMsg ELSE next[m]]

\* tk_del_mbx: its messages are forgotten.
LEMMA MsgDeleted ==
    ASSUME NEW id \in [MBX -> BOOLEAN], NEW atr \in [MBX -> SUBSET MbxAtr], NEW head, NEW tail, NEW next, NEW msgs,
           MsgState(id, atr, head, tail, next, msgs),
           NEW x \in MBX, NEW id1, id1 = [id EXCEPT ![x] = FALSE],
           NEW a, NEW atr1, atr1 = [atr EXCEPT ![x] = a],
           NEW head1, head1 = [head EXCEPT ![x] = NoMsg],
           NEW tail1, tail1 = [tail EXCEPT ![x] = NoMsg],
           NEW next1, next1 = NoLinks(next, msgs[x]),
           NEW msgs1, msgs1 = [msgs EXCEPT ![x] = <<>>]
    PROVE  MsgState(id1, atr1, head1, tail1, next1, msgs1)
<1> USE DEF NoLinks
<1>1. MsgTypes(head1, tail1, next1, msgs1) /\ head1[x] = NoMsg /\ msgs1[x] = <<>>
  BY DEF MsgState, MsgTypes
<1>2. \A y \in MBX : msgs[y] \in Seq(Msg)
  BY DEF MsgState, MsgTypes
<1>3. ASSUME NEW y \in MBX, NEW e, Contains(msgs[y], e)
      PROVE  e \in Msg /\ (e \in ToSet(msgs[x]) => y = x)
  <2>1. PICK i \in 1..Len(msgs[y]) : msgs[y][i] = e
    BY <1>3 DEF Contains
  <2>2. e \in Msg
    BY <1>2, <2>1
  <2>3. ASSUME e \in ToSet(msgs[x]) PROVE Contains(msgs[x], e)
    <3>1. DOMAIN msgs[x] = 1..Len(msgs[x])
      BY <1>2
    <3> QED BY <2>3, <3>1 DEF ToSet, Contains
  <2> QED BY <1>3, <2>2, <2>3 DEF MsgState
<1>4. \A y \in MBX \ {x} : /\ id1[y] = id[y] /\ atr1[y] = atr[y] /\ head1[y] = head[y]
                           /\ tail1[y] = tail[y] /\ msgs1[y] = msgs[y]
                           /\ \A e : Contains(msgs[y], e) => next1[e] = next[e] /\ ~Contains(msgs1[x], e)
  <2>1. \A y \in MBX \ {x} : /\ id1[y] = id[y] /\ atr1[y] = atr[y] /\ head1[y] = head[y]
                             /\ tail1[y] = tail[y] /\ msgs1[y] = msgs[y]
    BY DEF MsgState, MsgTypes
  <2>2. \A y \in MBX \ {x} : \A e : Contains(msgs[y], e) => next1[e] = next[e] /\ ~Contains(msgs1[x], e)
    BY <1>1, <1>3, EmptyChain
  <2> QED BY <2>1, <2>2
<1>5. ~id1[x] => msgs1[x] = <<>>
  BY <1>1
<1>6. MsgChain(atr1[x], head1[x], tail1[x], next1, msgs1[x], <<>>) /\ IsInjective(msgs1[x])
  BY <1>1, EmptyChain
<1> QED BY ONLY MsgState(id, atr, head, tail, next, msgs), x \in MBX,
               <1>1, <1>4, <1>5, <1>6, MsgStep

\* tk_rcv_mbx: the first message is taken.
LEMMA MsgReceived ==
    ASSUME NEW id \in [MBX -> BOOLEAN], NEW atr \in [MBX -> SUBSET MbxAtr], NEW head, NEW tail, NEW next, NEW msgs,
           MsgState(id, atr, head, tail, next, msgs),
           NEW x \in MBX, id[x], head[x] # NoMsg, NEW m, m = head[x],
           NEW head1, head1 = [head EXCEPT ![x] = next[m]],
           NEW next1, next1 = [next EXCEPT ![m] = NoMsg],
           NEW msgs1, msgs1 = [msgs EXCEPT ![x] = Unlink(@, m)]
    PROVE  MsgState(id, atr, head1, tail, next1, msgs1)
<1>1. /\ m \in Msg /\ next \in [Msg -> Msg \cup {NoMsg}] /\ msgs[x] \in Seq(Msg)
      /\ head1[x] = next[m] /\ msgs1[x] = Unlink(msgs[x], m) /\ IsInjective(msgs[x])
  BY DEF MsgState, MsgTypes
<1>2. PICK c : MsgChain(atr[x], head[x], tail[x], next, msgs[x], c)
  BY DEF MsgState
<1>3. /\ c \in Seq(Msg) /\ IsInjective(c) /\ LinksTo(next, m, c)
      /\ \A e : Contains(c, e) <=> Contains(msgs[x], e)
  BY <1>2 DEF MsgChain
<1>4. c # <<>> /\ c[1] = m
  BY <1>3 DEF LinksTo
<1>5. /\ Len(c) \in Nat /\ Len(c) >= 1 /\ DOMAIN c = 1..Len(c)
      /\ Tail(c) \in Seq(Msg) /\ Len(Tail(c)) = Len(c)-1 /\ DOMAIN Tail(c) = 1..Len(c)-1
      /\ \A j \in 1..Len(c)-1 : Tail(c)[j] = c[j+1]
      /\ Tail(c) = <<>> <=> Len(c) = 1
  BY <1>3, <1>4, TailFacts
<1>6. Unlink(c, m) = Tail(c)
  BY <1>3, <1>4, UnlinkHead
<1>7. Contains(c, m) /\ Contains(msgs[x], m)
  <2>1. 1 \in 1..Len(c)
    BY <1>5
  <2> QED BY <1>3, <1>4, <2>1 DEF Contains
<1>8. /\ msgs1[x] \in Seq(Msg) /\ IsInjective(msgs1[x])
      /\ \A e : Contains(msgs1[x], e) <=> Contains(msgs[x], e) /\ e # m
      /\ \A u, v : Before(msgs[x], u, v) /\ u # m /\ v # m => Before(msgs1[x], u, v)
  BY <1>1, <1>7, UnlinkMsg
<1>9. /\ IsInjective(Tail(c))
      /\ \A e : Contains(Tail(c), e) <=> Contains(c, e) /\ e # m
  <2>1. /\ Unlink(c, m) \in Seq(Msg) /\ IsInjective(Unlink(c, m))
        /\ \A e : Contains(Unlink(c, m), e) <=> Contains(c, e) /\ e # m
        /\ \A u, v : Before(c, u, v) /\ u # m /\ v # m => Before(Unlink(c, m), u, v)
    BY <1>3, <1>7, UnlinkMsg
  <2> QED BY <1>6, <2>1
<1>10. LinksTo(next1, head1[x], Tail(c))
  <2>1. ASSUME NEW j \in 1..Len(c), j # 1 PROVE next1[c[j]] = next[c[j]]
    <3>1. 1 \in DOMAIN c /\ j \in DOMAIN c
      BY <1>5
    <3>2. c[j] # m
      BY <1>3, <1>4, <2>1, <3>1 DEF IsInjective
    <3>3. c[j] \in Msg
      BY <1>3
    <3> QED BY <1>1, <3>2, <3>3
  <2> QED BY <1>1, <1>3, <1>4, <2>1, TailLinks
<1>11. ASSUME "MPRI" \in atr[x] PROVE ByMsgPri(Tail(c), msgs1[x])
  <2> SUFFICES ASSUME NEW i \in DOMAIN Tail(c), NEW j \in DOMAIN Tail(c), i < j
               PROVE  \/ MsgPri[Tail(c)[i]] < MsgPri[Tail(c)[j]]
                      \/ /\ MsgPri[Tail(c)[i]] = MsgPri[Tail(c)[j]]
                         /\ Before(msgs1[x], Tail(c)[i], Tail(c)[j])
    BY DEF ByMsgPri
  <2>1. PICK n \in Nat : n = Len(c)
    BY <1>5
  <2>2. /\ i+1 \in DOMAIN c /\ j+1 \in DOMAIN c /\ 1 \in DOMAIN c
        /\ i+1 < j+1 /\ i+1 # 1 /\ j+1 # 1
        /\ Tail(c)[i] = c[i+1] /\ Tail(c)[j] = c[j+1]
    <3>1. i \in 1..n-1 /\ j \in 1..n-1 /\ DOMAIN c = 1..n
      BY <1>5, <2>1
    <3>2. /\ i+1 \in 1..n /\ j+1 \in 1..n /\ 1 \in 1..n
          /\ i+1 < j+1 /\ i+1 # 1 /\ j+1 # 1
      BY <3>1
    <3> QED BY <1>5, <2>1, <3>1, <3>2
  <2>3. c[i+1] # m /\ c[j+1] # m
    BY <1>3, <1>4, <2>2 DEF IsInjective
  <2>4. ByMsgPri(c, msgs[x])
    BY <1>2, <1>11 DEF MsgChain
  <2>5. \/ MsgPri[c[i+1]] < MsgPri[c[j+1]]
        \/ MsgPri[c[i+1]] = MsgPri[c[j+1]] /\ Before(msgs[x], c[i+1], c[j+1])
    BY <2>2, <2>4 DEF ByMsgPri
  <2> QED BY <1>8, <2>2, <2>3, <2>5
<1>12. ASSUME "MPRI" \notin atr[x]
       PROVE  Tail(c) = msgs1[x] /\ (Tail(c) # <<>> => tail[x] = Tail(c)[Len(Tail(c))])
  <2>1. c = msgs[x] /\ tail[x] = c[Len(c)]
    BY <1>2, <1>4, <1>12 DEF MsgChain
  <2>2. Tail(c) = msgs1[x]
    BY <1>1, <1>6, <2>1
  <2>3. ASSUME Tail(c) # <<>> PROVE Tail(c)[Len(Tail(c))] = c[Len(c)]
    <3>1. PICK n \in Nat : n = Len(c)
      BY <1>5
    <3>2. n # 1 /\ n >= 1
      BY <1>5, <2>3, <3>1
    <3>3. n-1 \in 1..n-1 /\ n-1+1 = n
      BY <3>2
    <3> QED BY <1>5, <3>1, <3>3
  <2> QED BY <2>1, <2>2, <2>3
<1>13. \A e : Contains(Tail(c), e) <=> Contains(msgs1[x], e)
  BY <1>3, <1>8, <1>9
<1>14. MsgChain(atr[x], head1[x], tail[x], next1, msgs1[x], Tail(c))
  BY <1>5, <1>9, <1>10, <1>11, <1>12, <1>13 DEF MsgChain
<1>15. MsgTypes(head1, tail, next1, msgs1)
  BY <1>1, <1>8 DEF MsgState, MsgTypes
<1>16. ASSUME NEW y \in MBX \ {x}
       PROVE  /\ id[y] = id[y] /\ atr[y] = atr[y] /\ head1[y] = head[y]
              /\ tail[y] = tail[y] /\ msgs1[y] = msgs[y]
              /\ \A e : Contains(msgs[y], e) => next1[e] = next[e] /\ ~Contains(msgs1[x], e)
  <2>1. head1[y] = head[y] /\ msgs1[y] = msgs[y] /\ msgs[y] \in Seq(Msg)
    BY DEF MsgState, MsgTypes
  <2>2. ASSUME NEW e, Contains(msgs[y], e)
        PROVE  next1[e] = next[e] /\ ~Contains(msgs1[x], e)
    <3>1. e # m /\ ~Contains(msgs[x], e)
      BY <1>7, <2>2 DEF MsgState
    <3>2. e \in Msg
      BY <2>1, <2>2 DEF Contains
    <3> QED BY <1>1, <1>8, <3>1, <3>2
  <2> QED BY <2>1, <2>2
<1>17. ~id[x] => msgs1[x] = <<>>
  OBVIOUS
<1> QED BY ONLY MsgState(id, atr, head, tail, next, msgs), x \in MBX,
               <1>8, <1>14, <1>15, <1>16, <1>17, MsgStep

\* A message goes behind those that are not of lower priority.
LEMMA PriInserted ==
    ASSUME NEW c \in Seq(Msg), NEW s \in Seq(Msg), ByMsgPri(c, s),
           \A e : Contains(c, e) <=> Contains(s, e),
           NEW m \in Msg, NEW i \in 1..Len(c)+1, NEW d \in Seq(Msg), Inserted(c, i, m, d),
           \A j \in 1..i-1 : MsgPri[c[j]] <= MsgPri[m],
           \A j \in i..Len(c) : MsgPri[c[j]] > MsgPri[m]
    PROVE  ByMsgPri(d, Append(s, m))
<1> DEFINE r == Append(s, m)
           Earlier(u, v) == \/ MsgPri[u] < MsgPri[v]
                            \/ MsgPri[u] = MsgPri[v] /\ Before(r, u, v)
<1>1. PICK n \in Nat : n = Len(c)
  OBVIOUS
<1>2. /\ DOMAIN c = 1..n /\ DOMAIN d = 1..n+1 /\ i \in 1..n+1
      /\ \A j \in 1..n : c[j] \in Msg
      /\ \A j \in 1..i-1 : d[j] = c[j]
      /\ d[i] = m
      /\ \A j \in i+1..n+1 : d[j] = c[j-1]
      /\ MsgPri \in [Msg -> Int]
  BY <1>1, MailboxAssumption DEF Inserted
<1>3. ASSUME NEW a \in 1..n, NEW b \in 1..n, a < b PROVE Earlier(c[a], c[b])
  <2>1. \/ MsgPri[c[a]] < MsgPri[c[b]]
        \/ MsgPri[c[a]] = MsgPri[c[b]] /\ Before(s, c[a], c[b])
    BY <1>2, <1>3 DEF ByMsgPri
  <2>2. Before(s, c[a], c[b]) => Before(r, c[a], c[b])
    BY BeforeAppend
  <2> QED BY <2>1, <2>2
<1>4. ASSUME NEW a \in 1..i-1 PROVE Earlier(c[a], m)
  <2>1. a \in 1..n
    BY <1>2
  <2>2. Contains(c, c[a])
    BY <1>1, <2>1 DEF Contains
  <2>3. Before(r, c[a], m)
    BY <2>2, BeforeAppend
  <2>4. MsgPri[c[a]] <= MsgPri[m] /\ MsgPri[c[a]] \in Int /\ MsgPri[m] \in Int
    BY <1>2, <2>1
  <2>5. MsgPri[c[a]] < MsgPri[m] \/ MsgPri[c[a]] = MsgPri[m]
    BY <2>4
  <2> QED BY <2>3, <2>5
<1>5. ASSUME NEW b \in i..n PROVE Earlier(m, c[b])
  <2>1. MsgPri[c[b]] > MsgPri[m] /\ MsgPri[c[b]] \in Int /\ MsgPri[m] \in Int
    BY <1>1, <1>2
  <2>2. MsgPri[m] < MsgPri[c[b]]
    BY <2>1
  <2> QED BY <2>2
<1> HIDE DEF Earlier, r
<1>6. ASSUME NEW a \in 1..n+1, NEW b \in 1..n+1, a < b PROVE Earlier(d[a], d[b])
  <2>1. CASE b < i
    <3>1. a \in 1..n /\ b \in 1..n /\ a \in 1..i-1 /\ b \in 1..i-1
      BY <1>2, <1>6, <2>1
    <3> QED BY <1>2, <1>3, <1>6, <3>1
  <2>2. CASE b = i
    <3>1. a \in 1..i-1
      BY <1>2, <1>6, <2>2
    <3> QED BY <1>2, <1>4, <2>2, <3>1
  <2>3. CASE b > i
    <3>1. b \in i+1..n+1 /\ b-1 \in 1..n /\ b-1 \in i..n /\ d[b] = c[b-1]
      BY <1>2, <2>3
    <3>2. CASE a < i
      <4>1. a \in 1..i-1 /\ a \in 1..n /\ a < b-1
        BY <1>2, <2>3, <3>2
      <4> QED BY <1>2, <1>3, <3>1, <4>1
    <3>3. CASE a = i
      BY <1>2, <1>5, <3>1, <3>3
    <3>4. CASE a > i
      <4>1. a \in i+1..n+1
        BY <1>2, <3>4
      <4>2. a-1 \in 1..n
        BY <1>2, <3>4
      <4>3. a-1 < b-1
        BY <1>6
      <4> QED BY <1>2, <1>3, <3>1, <4>1, <4>2, <4>3
    <3> QED BY <1>2, <3>2, <3>3, <3>4
  <2> QED BY <1>2, <2>1, <2>2, <2>3
<1> QED BY <1>2, <1>6 DEF Earlier, ByMsgPri, r

\* Message m is sent to x and becomes the i-th of its chain c.
MsgLink(id, atr, head, tail, next, msgs, x, m, c, i, d, head1, tail1, next1, msgs1) ==
    /\ id \in [MBX -> BOOLEAN] /\ atr \in [MBX -> SUBSET MbxAtr]
    /\ MsgState(id, atr, head, tail, next, msgs)
    /\ x \in MBX /\ id[x] /\ m \in Msg /\ \A y \in MBX : ~Contains(msgs[y], m)
    /\ MsgChain(atr[x], head[x], tail[x], next, msgs[x], c)
    /\ i \in 1..Len(c)+1 /\ d = InsertAt(c, i, m)
    /\ next1 \in [Msg -> Msg \cup {NoMsg}]
    /\ next1[m] = IF i = Len(c)+1 THEN NoMsg ELSE c[i]
    /\ i > 1 => next1[c[i-1]] = m
    /\ \A e \in Msg : e # m /\ (i > 1 => e # c[i-1]) => next1[e] = next[e]
    /\ head1 \in [MBX -> Msg \cup {NoMsg}] /\ head1[x] = IF i = 1 THEN m ELSE head[x]
    /\ tail1 \in [MBX -> Msg \cup {NoMsg}]
    /\ \A y \in MBX \ {x} : head1[y] = head[y] /\ tail1[y] = tail[y]
    /\ msgs1 = [msgs EXCEPT ![x] = Append(@, m)]
    /\ IF "MPRI" \in atr[x] THEN ByMsgPri(d, msgs1[x]) ELSE i = Len(c)+1 /\ tail1[x] = m

LEMMA MsgLinked ==
    ASSUME NEW id, NEW atr, NEW head, NEW tail, NEW next, NEW msgs, NEW x, NEW m, NEW c, NEW i,
           NEW d, NEW head1, NEW tail1, NEW next1, NEW msgs1,
           MsgLink(id, atr, head, tail, next, msgs, x, m, c, i, d, head1, tail1, next1, msgs1)
    PROVE  MsgState(id, atr, head1, tail1, next1, msgs1)
<1>0. /\ id \in [MBX -> BOOLEAN] /\ atr \in [MBX -> SUBSET MbxAtr]
      /\ MsgState(id, atr, head, tail, next, msgs)
      /\ x \in MBX /\ id[x] /\ m \in Msg /\ \A y \in MBX : ~Contains(msgs[y], m)
      /\ MsgChain(atr[x], head[x], tail[x], next, msgs[x], c)
      /\ i \in 1..Len(c)+1 /\ d = InsertAt(c, i, m)
      /\ next1 \in [Msg -> Msg \cup {NoMsg}]
      /\ next1[m] = IF i = Len(c)+1 THEN NoMsg ELSE c[i]
      /\ i > 1 => next1[c[i-1]] = m
      /\ \A e \in Msg : e # m /\ (i > 1 => e # c[i-1]) => next1[e] = next[e]
      /\ head1 \in [MBX -> Msg \cup {NoMsg}] /\ head1[x] = IF i = 1 THEN m ELSE head[x]
      /\ tail1 \in [MBX -> Msg \cup {NoMsg}]
      /\ \A y \in MBX \ {x} : head1[y] = head[y] /\ tail1[y] = tail[y]
      /\ msgs1 = [msgs EXCEPT ![x] = Append(@, m)]
      /\ IF "MPRI" \in atr[x] THEN ByMsgPri(d, msgs1[x]) ELSE i = Len(c)+1 /\ tail1[x] = m
  BY DEF MsgLink
<1> USE <1>0
<1>13. MsgPri \in [Msg -> Int]
  BY MailboxAssumption
<1>1. /\ msgs \in [MBX -> Seq(Msg)] /\ msgs[x] \in Seq(Msg) /\ IsInjective(msgs[x])
      /\ msgs1[x] = Append(msgs[x], m)
      /\ \A y \in MBX \ {x} : msgs1[y] = msgs[y]
  BY DEF MsgState, MsgTypes
<1>2. /\ c \in Seq(Msg) /\ IsInjective(c) /\ LinksTo(next, head[x], c)
      /\ \A e : Contains(c, e) <=> Contains(msgs[x], e)
      /\ ~Contains(c, m)
  BY DEF MsgChain
<1>3. PICK n \in Nat : n = Len(c) /\ DOMAIN c = 1..n /\ i \in 1..n+1
  BY <1>2
<1>4. d \in Seq(Msg) /\ Inserted(c, i, m, d)
  BY <1>2, InsertAtIndex
<1>5. /\ IsInjective(d)
      /\ \A e : Contains(d, e) <=> Contains(c, e) \/ e = m
  <2>1. /\ d \in Seq(Msg) /\ Len(d) = Len(c) + 1 /\ IsInjective(d)
        /\ \A u : Contains(d, u) <=> Contains(c, u) \/ u = m
        /\ Ordered(c, MsgPri) /\ PlaceOf(c, i, m, MsgPri) => Ordered(d, MsgPri)
    BY ONLY <1>2, InsertEntry, <1>13, m \in Msg, i \in 1..Len(c)+1,
            d = InsertAt(c, i, m), SMTT(60)
  <2> QED BY <2>1
<1>6. /\ msgs1[x] \in Seq(Msg) /\ IsInjective(msgs1[x])
      /\ \A e : Contains(msgs1[x], e) <=> Contains(msgs[x], e) \/ e = m
  <2>1. /\ Append(msgs[x], m) \in Seq(Msg) /\ Len(Append(msgs[x], m)) = Len(msgs[x]) + 1
        /\ IsInjective(Append(msgs[x], m))
        /\ \A u : Contains(Append(msgs[x], m), u) <=> Contains(msgs[x], u) \/ u = m
    BY <1>1, AppendEntry, MailboxAssumption
  <2> QED BY <1>1, <2>1
<1>7. LinksTo(next1, head1[x], d)
  <2>1. ASSUME NEW j \in 1..Len(c), j # i-1 PROVE next1[c[j]] = next[c[j]]
    <3>1. c[j] \in Msg /\ c[j] # m
      BY <1>2, <2>1 DEF Contains
    <3>2. ASSUME i > 1 PROVE c[j] # c[i-1]
      <4>1. i-1 \in 1..n /\ j \in 1..n
        BY <1>3, <3>2
      <4> QED BY <1>2, <1>3, <2>1, <4>1 DEF IsInjective
    <3> QED BY <3>1, <3>2
  <2>2. LinksTo(next1, IF i = 1 THEN m ELSE head[x], d)
    <3>1. m \in Msg /\ i \in 1..Len(c)+1
      BY ONLY <1>0
    <3>2. next1[m] = IF i = Len(c)+1 THEN NoMsg ELSE c[i]
      BY ONLY <1>0
    <3>3. i > 1 => next1[c[i-1]] = m
      BY ONLY <1>0
    <3> QED BY ONLY <1>2, <1>4, <2>1, <3>1, <3>2, <3>3, InsertLinks, SMTT(60)
  <2> QED BY <2>2
<1>8. ASSUME "MPRI" \notin atr[x]
      PROVE  d = msgs1[x] /\ (d # <<>> => tail1[x] = d[Len(d)])
  <2>1. c = msgs[x] /\ i = n+1 /\ tail1[x] = m
    BY <1>3, <1>8 DEF MsgChain
  <2>2. Len(d) = n+1 /\ d[n+1] = m /\ \A j \in 1..n : d[j] = c[j]
    <3>1. i-1 = n
      BY <2>1
    <3> QED BY <1>3, <1>4, <2>1, <3>1 DEF Inserted
  <2>3. /\ Append(c, m) \in Seq(Msg) /\ Len(Append(c, m)) = n+1
        /\ \A j \in 1..n+1 : Append(c, m)[j] = d[j]
    BY <1>2, <1>3, <2>2
  <2>4. d = Append(c, m)
    BY <1>4, <2>2, <2>3
  <2> QED BY <1>1, <2>1, <2>2, <2>4
<1>9. MsgChain(atr[x], head1[x], tail1[x], next1, msgs1[x], d)
  <2>1. \A e : Contains(d, e) <=> Contains(msgs1[x], e)
    BY <1>2, <1>5, <1>6
  <2> QED BY <1>4, <1>5, <1>7, <1>8, <2>1 DEF MsgChain
<1>10. MsgTypes(head1, tail1, next1, msgs1)
  BY <1>1, <1>6 DEF MsgTypes
<1>11. ASSUME NEW y \in MBX \ {x}
       PROVE  /\ id[y] = id[y] /\ atr[y] = atr[y] /\ head1[y] = head[y]
              /\ tail1[y] = tail[y] /\ msgs1[y] = msgs[y]
              /\ \A e : Contains(msgs[y], e) => next1[e] = next[e] /\ ~Contains(msgs1[x], e)
  <2>1. ASSUME NEW e, Contains(msgs[y], e)
        PROVE  next1[e] = next[e] /\ ~Contains(msgs1[x], e)
    <3>1. e # m /\ ~Contains(msgs[x], e)
      BY <2>1 DEF MsgState
    <3>2. e \in Msg
      BY <1>1, <2>1 DEF Contains
    <3>3. ASSUME i > 1 PROVE e # c[i-1]
      <4>1. i-1 \in 1..Len(c)
        BY <1>3, <3>3
      <4>2. Contains(c, c[i-1])
        BY <4>1 DEF Contains
      <4> QED BY <1>2, <3>1, <4>2
    <3> QED BY <1>6, <3>1, <3>2, <3>3
  <2> QED BY <1>1, <2>1
<1>12. ~id[x] => msgs1[x] = <<>>
  OBVIOUS
<1> QED BY ONLY MsgState(id, atr, head, tail, next, msgs), x \in MBX,
               <1>6, <1>9, <1>10, <1>11, <1>12, MsgStep, SMTT(60)

(***************************************************************************)
(* The state of the objects and of the tasks that wait for them.           *)
(***************************************************************************)
\* The hooks of the waits are those of the three kinds of objects.
SyncHooks ==
    /\ \A k, t : ChgPriHook(k, t) = SyncChgPri(k, t)
    /\ \A k, o, wspec : RelWaiHook(k, o, wspec) = SyncRelWai(k, o, wspec)

SyncObject == SEM \cup FLG \cup MBX

SyncField == {"semid", "sematr", "semcnt", "maxsem", "flgid", "flgatr", "flgptn",
              "mbxid", "mbxatr", "mqhead", "mqtail", "nextmsg", "msgs"}

SemTypes(k) ==
    /\ k.semid \in [SEM -> BOOLEAN] /\ k.sematr \in [SEM -> SUBSET SemAtr]
    /\ k.maxsem \in [SEM -> 0..SemCntMax] /\ k.semcnt \in [SEM -> Nat]
    /\ \A s \in SEM : k.semcnt[s] \in 0..k.maxsem[s]

FlgTypes(k) ==
    /\ k.flgid \in [FLG -> BOOLEAN] /\ k.flgatr \in [FLG -> SUBSET FlgAtr]
    /\ k.flgptn \in [FLG -> Pattern]

MbxTypes(k) ==
    /\ k.mbxid \in [MBX -> BOOLEAN] /\ k.mbxatr \in [MBX -> SUBSET MbxAtr]
    /\ DOMAIN k.mqhead = MBX
    /\ MsgState(k.mbxid, k.mbxatr, k.mqhead, k.mqtail, k.nextmsg, k.msgs)

SyncTypes(k) == SyncField \subseteq DOMAIN k /\ SemTypes(k) /\ FlgTypes(k) /\ MbxTypes(k)

\* The queue of object o is in the order of the priorities.
ByPriority(k, o) ==
    \/ o \in SEM /\ "TPRI" \in k.sematr[o]
    \/ o \in FLG /\ "TPRI" \in k.flgatr[o]
    \/ o \in MBX /\ "TPRI" \in k.mbxatr[o]

\* Task t waits for an object that exists, as the object wants it.
WaitOf(k, t) ==
    LET o == k.wid[t]
        Kind(tpri, tfifo) == k.wspec[t] = IF ByPriority(k, o) THEN tpri ELSE tfifo
    IN  \/ o = NoObj
        \/ o \in SEM /\ k.semid[o] /\ k.winfo[t] \in 1..k.maxsem[o] /\ Kind("sem_tpri", "sem_tfifo")
        \/ o \in FLG /\ k.flgid[o] /\ k.winfo[t] \in FlgWait /\ Kind("flg_tpri", "flg_tfifo")
        \/ o \in MBX /\ k.mbxid[o] /\ Kind("mbx_tpri", "mbx_tfifo")

QueueOrder(k) == \A o \in SyncObject : ByPriority(k, o) => Ordered(k.que[o], k.priority)

OneWaiter(k) ==
    \A f \in FLG : "WMUL" \notin k.flgatr[f] =>
        \A u, v \in Task : k.wid[u] = f /\ k.wid[v] = f => u = v

SyncState(k) ==
    /\ KState(k) /\ SyncTypes(k)
    /\ \A t \in Task : WaitOf(k, t)
    /\ QueueOrder(k) /\ OneWaiter(k)

\* What the tasks that wait for an object wait for is not there.
SemOk(k, s) ==
    \A i \in DOMAIN k.que[s] :
        i = 1 \/ "CNT" \in k.sematr[s] => k.winfo[k.que[s][i]] > k.semcnt[s]

FlgOk(k, f) == \A i \in DOMAIN k.que[f] : ~Cond(k.flgptn[f], k.winfo[k.que[f][i]])

MbxOk(k, x) == k.que[x] # <<>> => k.mqhead[x] = NoMsg

ObjectOk(k, o) ==
    /\ o \in SEM => SemOk(k, o)
    /\ o \in FLG => FlgOk(k, o)
    /\ o \in MBX => MbxOk(k, o)

LEMMA SyncObjectKinds ==
    /\ SyncObject \subseteq WaitQ /\ NoObj \notin SyncObject
    /\ \A o \in SyncObject : \/ o \in SEM /\ o \notin FLG /\ o \notin MBX
                             \/ o \in FLG /\ o \notin SEM /\ o \notin MBX
                             \/ o \in MBX /\ o \notin SEM /\ o \notin FLG
  BY SemaphoreAssumption, EventFlagAssumption, MailboxAssumption, SyncObjectsAssumption
  DEF SyncObject

LEMMA FieldsApart == SyncField \cap TaskField = {}
  BY DEF SyncField, TaskField, KernelField, WaitField

\* Of the fields of the objects, only those of F differ.
LEMMA OtherObjectFields ==
    ASSUME NEW k, SyncField \subseteq DOMAIN k, NEW k1, NEW F, Only(k1, k, TaskField \cup F)
    PROVE  /\ SyncField \subseteq DOMAIN k1
           /\ \A f \in SyncField \ F : k1[f] = k[f]
           /\ "semid" \notin F => k1.semid = k.semid
           /\ "sematr" \notin F => k1.sematr = k.sematr
           /\ "semcnt" \notin F => k1.semcnt = k.semcnt
           /\ "maxsem" \notin F => k1.maxsem = k.maxsem
           /\ "flgid" \notin F => k1.flgid = k.flgid
           /\ "flgatr" \notin F => k1.flgatr = k.flgatr
           /\ "flgptn" \notin F => k1.flgptn = k.flgptn
           /\ "mbxid" \notin F => k1.mbxid = k.mbxid
           /\ "mbxatr" \notin F => k1.mbxatr = k.mbxatr
           /\ "mqhead" \notin F => k1.mqhead = k.mqhead
           /\ "mqtail" \notin F => k1.mqtail = k.mqtail
           /\ "nextmsg" \notin F => k1.nextmsg = k.nextmsg
           /\ "msgs" \notin F => k1.msgs = k.msgs
<1>1. /\ SyncField \subseteq DOMAIN k1 /\ \A f \in SyncField \ F : k1[f] = k[f]
  BY FieldsApart DEF Only
<1> QED BY <1>1 DEF SyncField

\* The fields of the objects are as before.
ObjectsSame(k1, k) ==
    /\ SyncField \subseteq DOMAIN k1
    /\ k1.semid = k.semid /\ k1.sematr = k.sematr /\ k1.maxsem = k.maxsem /\ k1.semcnt = k.semcnt
    /\ k1.flgid = k.flgid /\ k1.flgatr = k.flgatr /\ k1.flgptn = k.flgptn
    /\ k1.mbxid = k.mbxid /\ k1.mbxatr = k.mbxatr /\ k1.mqhead = k.mqhead
    /\ k1.mqtail = k.mqtail /\ k1.nextmsg = k.nextmsg /\ k1.msgs = k.msgs

LEMMA TaskStepObjects ==
    ASSUME NEW k, SyncField \subseteq DOMAIN k, NEW k1, Only(k1, k, TaskField)
    PROVE  ObjectsSame(k1, k)
<1>1. SyncField \subseteq DOMAIN k1 /\ \A f \in SyncField : k1[f] = k[f]
  BY FieldsApart DEF Only
<1> QED BY <1>1 DEF SyncField, ObjectsSame

\* The queue of o and what its tasks wait for are as before.
SameQueue(k1, k, o) ==
    /\ k1.que[o] = k.que[o]
    /\ \A u \in Task : k.wid[u] = o => k1.winfo[u] = k.winfo[u]

SameObject(k1, k, o) ==
    /\ o \in SEM => k1.sematr[o] = k.sematr[o] /\ k1.semcnt[o] = k.semcnt[o]
    /\ o \in FLG => k1.flgptn[o] = k.flgptn[o]
    /\ o \in MBX => k1.mqhead[o] = k.mqhead[o]

LEMMA QueueEntries ==
    ASSUME NEW k, KState(k), NEW o \in SyncObject
    PROVE  /\ o \in WaitQ /\ o # NoObj /\ k.que[o] \in Seq(Task) /\ IsInjective(k.que[o])
           /\ DOMAIN k.que[o] = 1..Len(k.que[o]) /\ Len(k.que[o]) \in Nat
           /\ \A i \in DOMAIN k.que[o] : k.que[o][i] \in Task /\ k.wid[k.que[o][i]] = o
           /\ \A u \in Task : k.wid[u] = o => \E i \in DOMAIN k.que[o] : k.que[o][i] = u
<1>1. o \in WaitQ /\ o # NoObj
  BY SyncObjectKinds
<1>2. /\ k.que[o] \in Seq(Task) /\ IsInjective(k.que[o])
      /\ \A t \in Task : InRing(k.que[o], t) <=> k.wid[t] = o
  BY <1>1, RingHasWaiters
<1>3. DOMAIN k.que[o] = 1..Len(k.que[o]) /\ Len(k.que[o]) \in Nat
      /\ \A i \in DOMAIN k.que[o] : k.que[o][i] \in Task
  BY <1>2, LenProperties, ElementOfSeq
<1> QED BY <1>1, <1>2, <1>3 DEF InRing

LEMMA OkSame ==
    ASSUME NEW k, KState(k), NEW o \in SyncObject, NEW k1, SameQueue(k1, k, o), SameObject(k1, k, o),
           ObjectOk(k, o)
    PROVE  ObjectOk(k1, o)
<1>1. \A i \in DOMAIN k.que[o] : k1.winfo[k.que[o][i]] = k.winfo[k.que[o][i]]
  BY QueueEntries DEF SameQueue
<1>2. k1.que[o] = k.que[o]
  BY DEF SameQueue
<1> QED BY <1>1, <1>2 DEF ObjectOk, SemOk, FlgOk, MbxOk, SameObject

\* Tasks leave a queue whose every task is looked at.
LEMMA OkFewer ==
    ASSUME NEW k, KState(k), NEW o \in SyncObject, NEW k1, KState(k1), SameObject(k1, k, o),
           o \in SEM => "CNT" \in k.sematr[o],
           \A u \in Task : k1.wid[u] = o => k.wid[u] = o /\ k1.winfo[u] = k.winfo[u],
           ObjectOk(k, o)
    PROVE  ObjectOk(k1, o)
<1>1. \A i \in DOMAIN k1.que[o] : \E j \in DOMAIN k.que[o] :
          k1.que[o][i] = k.que[o][j] /\ k1.winfo[k1.que[o][i]] = k.winfo[k.que[o][j]]
  <2> SUFFICES ASSUME NEW i \in DOMAIN k1.que[o]
               PROVE  \E j \in DOMAIN k.que[o] :
                         k1.que[o][i] = k.que[o][j] /\ k1.winfo[k1.que[o][i]] = k.winfo[k.que[o][j]]
    OBVIOUS
  <2> DEFINE u == k1.que[o][i]
  <2>1. u \in Task /\ k1.wid[u] = o
    BY QueueEntries
  <2> HIDE DEF u
  <2>2. k.wid[u] = o /\ k1.winfo[u] = k.winfo[u]
    BY <2>1
  <2>3. PICK j \in DOMAIN k.que[o] : k.que[o][j] = u
    BY <2>1, <2>2, QueueEntries
  <2> QED BY <2>2, <2>3 DEF u
<1>2. k1.que[o] # <<>> => k.que[o] # <<>>
  <2>1. ASSUME k1.que[o] # <<>> PROVE 1 \in DOMAIN k1.que[o]
    BY <2>1, QueueEntries
  <2> QED BY <1>1, <2>1
<1> QED BY <1>1, <1>2 DEF ObjectOk, SemOk, FlgOk, MbxOk, SameObject

(***************************************************************************)
(* Steps in which no wait begins or ends, and the end of one wait.         *)
(***************************************************************************)
\* The wait of a task to whose object nothing has happened.
LEMMA WaitKept ==
    ASSUME NEW k, SyncState(k), NEW k1, Only(k1, k, TaskField), NEW t \in Task,
           k1.wid[t] = k.wid[t], k1.winfo[t] = k.winfo[t],
           k.wid[t] # NoObj => k1.wspec[t] = k.wspec[t]
    PROVE  WaitOf(k1, t)
<1>1. WaitOf(k, t) /\ SyncField \subseteq DOMAIN k
  BY DEF SyncState, SyncTypes
<1>3. ObjectsSame(k1, k)
  BY <1>1, TaskStepObjects
<1>4. ByPriority(k1, k1.wid[t]) <=> ByPriority(k, k.wid[t])
  BY <1>3 DEF ByPriority, ObjectsSame
<1> QED BY <1>1, <1>3, <1>4 DEF WaitOf, ObjectsSame

LEMMA TypesKept ==
    ASSUME NEW k, SyncTypes(k), NEW k1, Only(k1, k, TaskField)
    PROVE  /\ SyncTypes(k1) /\ ObjectsSame(k1, k)
           /\ \A o : ByPriority(k1, o) <=> ByPriority(k, o)
           /\ \A o : SameObject(k1, k, o)
           /\ k1.flgatr = k.flgatr
<1>1. SyncField \subseteq DOMAIN k
  BY DEF SyncTypes
<1>2. ObjectsSame(k1, k)
  BY <1>1, TaskStepObjects
<1>3. SyncTypes(k1)
  BY <1>2 DEF SyncTypes, SemTypes, FlgTypes, MbxTypes, ObjectsSame
<1> QED BY <1>2, <1>3 DEF ByPriority, SameObject, ObjectsSame

\* The tasks that wait stay, and keep their priorities.
LEMMA AsideState ==
    ASSUME NEW k, SyncState(k), NEW k1, Undisturbed(k1, k), Aside(k1, k)
    PROVE  SyncState(k1) /\ \A o \in SyncObject : ObjectOk(k, o) => ObjectOk(k1, o)
<1>1. /\ KState(k) /\ SyncTypes(k) /\ QueueOrder(k) /\ OneWaiter(k)
      /\ KState(k1) /\ Only(k1, k, TaskField)
  BY DEF SyncState, Undisturbed
<1>2. /\ SyncTypes(k1) /\ \A o : ByPriority(k1, o) <=> ByPriority(k, o)
      /\ \A o : SameObject(k1, k, o) /\ k1.flgatr = k.flgatr
  BY <1>1, TypesKept
<1>3. \A u \in Task : k1.wid[u] = k.wid[u] /\ k1.winfo[u] = k.winfo[u]
  BY DEF Undisturbed, Kept
<1>4. ASSUME NEW t \in Task PROVE WaitOf(k1, t)
  <2>1. k.wid[t] # NoObj => k1.wspec[t] = k.wspec[t]
    BY <1>1 DEF Undisturbed, Kept, KState, WaitsOnly
  <2> QED BY <1>1, <1>3, <2>1, WaitKept
<1>5. ASSUME NEW o \in SyncObject PROVE k1.que[o] = k.que[o]
  BY <1>5, SyncObjectKinds DEF Aside
<1>6. ASSUME NEW o \in SyncObject, Ordered(k.que[o], k.priority) PROVE Ordered(k1.que[o], k1.priority)
  <2>1. \A i \in DOMAIN k.que[o] : k1.priority[k.que[o][i]] = k.priority[k.que[o][i]]
    BY <1>1, QueueEntries DEF Aside
  <2> QED BY <1>5, <1>6, <2>1 DEF Ordered
<1>7. QueueOrder(k1)
  BY <1>1, <1>2, <1>6 DEF QueueOrder
<1>8. OneWaiter(k1)
  BY <1>1, <1>2, <1>3 DEF OneWaiter
<1>9. ASSUME NEW o \in SyncObject, ObjectOk(k, o) PROVE ObjectOk(k1, o)
  <2>1. SameQueue(k1, k, o)
    BY <1>3, <1>5 DEF SameQueue
  <2> QED BY <1>1, <1>2, <1>9, <2>1, OkSame
<1> QED BY <1>1, <1>2, <1>4, <1>7, <1>8, <1>9 DEF SyncState

\* Task t has left the queue of its object.
Released(k1, k, t) ==
    /\ Concerns(k1, k, t)
    /\ k1.wid[t] = NoObj
    /\ \A h \in WaitQ : k1.que[h] = Unlink(k.que[h], t)

\* The queues of the other objects are as they were.
OnlyAt(k1, k, o) ==
    /\ \A h \in SyncObject \ {o} : k1.que[h] = k.que[h]
    /\ \A u \in Task : k.wid[u] # o => SameTask(k1, k, u)

LEMMA ReleasedState ==
    ASSUME NEW k, SyncState(k), NEW t \in Task, NEW k1, Released(k1, k, t)
    PROVE  /\ SyncState(k1)
           /\ \A o \in SyncObject :
                 /\ ObjectOk(k, o)
                 /\ o \in SEM /\ o = k.wid[t] => "CNT" \in k.sematr[o]
                 => ObjectOk(k1, o)
           /\ \A h \in SyncObject \ {k.wid[t]} : k1.que[h] = k.que[h]
<1>1. /\ KState(k) /\ SyncTypes(k) /\ QueueOrder(k) /\ OneWaiter(k)
      /\ KState(k1) /\ Only(k1, k, TaskField)
      /\ \A u \in Task \ {t} : SameTask(k1, k, u)
      /\ k1.wid[t] = NoObj /\ NoObj \notin SyncObject
  BY SyncObjectKinds DEF SyncState, Released, Concerns
<1>2. /\ SyncTypes(k1) /\ \A o : ByPriority(k1, o) <=> ByPriority(k, o)
      /\ \A o : SameObject(k1, k, o) /\ k1.flgatr = k.flgatr
  BY <1>1, TypesKept
<1>3. ASSUME NEW u \in Task PROVE WaitOf(k1, u)
  <2>1. CASE u = t
    BY <2>1, <1>1 DEF WaitOf
  <2>2. CASE u # t
    BY <2>2, <1>1, WaitKept DEF SameTask
  <2> QED BY <2>1, <2>2
<1>4. ASSUME NEW o \in SyncObject
      PROVE  /\ k1.que[o] = Unlink(k.que[o], t)
             /\ o # k.wid[t] => k1.que[o] = k.que[o]
  <2>1. o \in WaitQ
    BY SyncObjectKinds
  <2>2. k.wid[t] # o => Unlink(k.que[o], t) = k.que[o]
    BY <1>1, <2>1, NotQueued
  <2> QED BY <2>1, <2>2 DEF Released
<1>5. ASSUME NEW o \in SyncObject, Ordered(k.que[o], k.priority) PROVE Ordered(k1.que[o], k1.priority)
  <2>1. k.que[o] \in Seq(Task) /\ IsInjective(k.que[o])
    BY <1>1, QueueEntries
  <2>2. Ordered(k1.que[o], k.priority)
    BY <1>4, <1>5, <2>1, UnlinkOrdered
  <2>3. \A i \in DOMAIN k1.que[o] : k1.que[o][i] \in Task \ {t}
    BY <1>1, QueueEntries
  <2>4. \A u \in Task \ {t} : k1.priority[u] = k.priority[u]
    BY <1>1 DEF SameTask
  <2> QED BY <2>2, <2>3, <2>4 DEF Ordered
<1>6. QueueOrder(k1)
  BY <1>1, <1>2, <1>5 DEF QueueOrder
<1>7. \A u \in Task : \A o \in SyncObject : k1.wid[u] = o => k.wid[u] = o /\ k1.winfo[u] = k.winfo[u]
  BY <1>1 DEF SameTask
<1>8. OneWaiter(k1)
  BY <1>1, <1>2, <1>7 DEF OneWaiter, SyncObject
<1>9. ASSUME NEW o \in SyncObject, ObjectOk(k, o), o \in SEM /\ o = k.wid[t] => "CNT" \in k.sematr[o]
      PROVE  ObjectOk(k1, o)
  <2>1. CASE o # k.wid[t]
    <3>1. SameQueue(k1, k, o)
      BY <2>1, <1>1, <1>4 DEF SameQueue, SameTask
    <3> QED BY <1>1, <1>2, <1>9, <3>1, OkSame
  <2>2. CASE o = k.wid[t]
    BY <2>2, <1>1, <1>2, <1>7, <1>9, OkFewer
  <2> QED BY <2>1, <2>2
<1> QED BY <1>1, <1>2, <1>3, <1>4, <1>6, <1>8, <1>9 DEF SyncState

(***************************************************************************)
(* Changes of the fields of the objects.                                   *)
(***************************************************************************)
\* What object o is, apart from what there is for the tasks that wait for it.
SameKind(k1, k, o) ==
    /\ o \in SEM => /\ k1.semid[o] = k.semid[o] /\ k1.sematr[o] = k.sematr[o]
                    /\ k1.maxsem[o] = k.maxsem[o]
    /\ o \in FLG => k1.flgid[o] = k.flgid[o] /\ k1.flgatr[o] = k.flgatr[o]
    /\ o \in MBX => k1.mbxid[o] = k.mbxid[o] /\ k1.mbxatr[o] = k.mbxatr[o]

LEMMA EmptyQueue ==
    ASSUME NEW k, KState(k), NEW o \in SyncObject
    PROVE  /\ k.que[o] = <<>> <=> \A u \in Task : k.wid[u] # o
           /\ k.que[o] = <<>> => ObjectOk(k, o) /\ \A d : Ordered(k.que[o], d)
<1>1. /\ DOMAIN k.que[o] = 1..Len(k.que[o]) /\ Len(k.que[o]) \in Nat /\ k.que[o] \in Seq(Task)
      /\ \A i \in DOMAIN k.que[o] : k.que[o][i] \in Task /\ k.wid[k.que[o][i]] = o
      /\ \A u \in Task : k.wid[u] = o => \E i \in DOMAIN k.que[o] : k.que[o][i] = u
  BY QueueEntries
<1>2. k.que[o] = <<>> => DOMAIN k.que[o] = {}
  OBVIOUS
<1>3. k.que[o] # <<>> => 1 \in DOMAIN k.que[o]
  BY <1>1
<1> QED BY <1>1, <1>2, <1>3 DEF ObjectOk, SemOk, FlgOk, MbxOk, Ordered

\* An object whose fields change stays what it is, or nobody waits for it.
LEMMA ObjectState ==
    ASSUME NEW k, SyncState(k), NEW k1, Only(k1, k, SyncField), SyncTypes(k1),
           \A o \in SyncObject : SameKind(k1, k, o) \/ k.que[o] = <<>>
    PROVE  /\ SyncState(k1)
           /\ \A f \in TaskField : k1[f] = k[f]
           /\ \A o \in SyncObject : SameObject(k1, k, o) /\ ObjectOk(k, o) => ObjectOk(k1, o)
<1>1. KState(k) /\ QueueOrder(k) /\ OneWaiter(k) /\ TaskField \subseteq DOMAIN k
  BY StateFacts DEF SyncState, TaskField
<1>2. TaskField \subseteq DOMAIN k1 /\ \A f \in TaskField : k1[f] = k[f]
  BY <1>1, FieldsApart DEF Only
<1>3. /\ k1.que = k.que /\ k1.wid = k.wid /\ k1.winfo = k.winfo /\ k1.wspec = k.wspec
      /\ k1.priority = k.priority /\ k1.wercd = k.wercd
  BY <1>2 DEF TaskField, KernelField, WaitField
<1>4. KState(k1)
  <2>1. WaitTypes(k)
    BY <1>1 DEF KState
  <2>2. DOMAIN k1.wercd = Task /\ k1.wercd = [u \in Task |-> k1.wercd[u]]
    BY <1>3, <2>1 DEF WaitTypes
  <2> QED BY <1>1, <1>2, <2>2, OtherFields
<1>5. ASSUME NEW o \in SyncObject, SameKind(k1, k, o) PROVE ByPriority(k1, o) <=> ByPriority(k, o)
  BY <1>5 DEF SameKind, ByPriority
<1>6. ASSUME NEW t \in Task PROVE WaitOf(k1, t)
  <2> DEFINE o == k.wid[t]
  <2>1. CASE o = NoObj
    BY <2>1, <1>3 DEF WaitOf
  <2>2. CASE o # NoObj
    <3>1. WaitOf(k, t)
      BY DEF SyncState
    <3>2. o \in SyncObject
      BY <2>2, <3>1 DEF WaitOf, SyncObject
    <3>3. k.que[o] # <<>>
      BY <1>1, <3>2, EmptyQueue
    <3>4. SameKind(k1, k, o)
      BY <3>2, <3>3
    <3>5. ByPriority(k1, o) <=> ByPriority(k, o)
      BY <1>5, <3>2, <3>4
    <3> QED BY <1>3, <3>1, <3>4, <3>5 DEF WaitOf, SameKind
  <2> QED BY <2>1, <2>2
<1>7. ASSUME NEW o \in SyncObject, ByPriority(k1, o) PROVE Ordered(k1.que[o], k1.priority)
  <2>1. CASE SameKind(k1, k, o)
    BY <2>1, <1>1, <1>3, <1>5, <1>7 DEF QueueOrder
  <2>2. CASE k.que[o] = <<>>
    BY <2>2, <1>1, <1>3, EmptyQueue
  <2> QED BY <2>1, <2>2
<1>8. ASSUME NEW f \in FLG, "WMUL" \notin k1.flgatr[f], NEW u \in Task, NEW v \in Task,
             k1.wid[u] = f, k1.wid[v] = f
      PROVE  u = v
  <2>1. f \in SyncObject /\ k.que[f] # <<>>
    BY <1>1, <1>3, <1>8, EmptyQueue DEF SyncObject
  <2>2. k1.flgatr[f] = k.flgatr[f]
    BY <2>1 DEF SameKind
  <2> QED BY <1>1, <1>3, <1>8, <2>2 DEF OneWaiter
<1>9. ASSUME NEW o \in SyncObject, SameObject(k1, k, o), ObjectOk(k, o) PROVE ObjectOk(k1, o)
  <2>1. SameQueue(k1, k, o)
    BY <1>3 DEF SameQueue
  <2> QED BY <1>1, <1>9, <2>1, OkSame
<1>10. QueueOrder(k1) /\ OneWaiter(k1)
  BY <1>7, <1>8 DEF QueueOrder, OneWaiter
<1> QED BY <1>2, <1>4, <1>6, <1>9, <1>10 DEF SyncState

(***************************************************************************)
(* Tasks are released from the queue of one object.                        *)
(***************************************************************************)
\* Some of the tasks that waited for o do not wait any more.
Releases(k1, k, o) ==
    /\ Only(k1, k, TaskField \cup {"semcnt", "flgptn"})
    /\ \A h \in SyncObject \ {o} : k1.que[h] = k.que[h] /\ SameObject(k1, k, h)
    /\ \A u \in Task : \/ SameTask(k1, k, u)
                       \/ k.wid[u] = o /\ k1.wid[u] = NoObj /\ k1.state[u] \notin WaitBit

LEMMA ReleasesNone ==
    ASSUME NEW k, NEW o
    PROVE  Releases(k, k, o)
  BY DEF Releases, Only, SameObject, SameTask

LEMMA ReleasesMore ==
    ASSUME NEW k, NEW k1, NEW k2, NEW o \in SyncObject, Releases(k1, k, o), Releases(k2, k1, o)
    PROVE  Releases(k2, k, o)
<1>1. o # NoObj
  BY SyncObjectKinds
<1>2. Only(k2, k, TaskField \cup {"semcnt", "flgptn"})
  BY DEF Releases, Only
<1>3. ASSUME NEW h \in SyncObject \ {o} PROVE k2.que[h] = k.que[h] /\ SameObject(k2, k, h)
  BY DEF Releases, SameObject
<1>4. ASSUME NEW u \in Task
      PROVE  \/ SameTask(k2, k, u)
             \/ k.wid[u] = o /\ k2.wid[u] = NoObj /\ k2.state[u] \notin WaitBit
  BY <1>1 DEF Releases, SameTask
<1> QED BY <1>2, <1>3, <1>4 DEF Releases

LEMMA ReleasesOk ==
    ASSUME NEW k, KState(k), NEW o \in SyncObject, NEW k1, Releases(k1, k, o)
    PROVE  /\ \A h \in SyncObject \ {o} : ObjectOk(k, h) => ObjectOk(k1, h)
           /\ \A u \in Task : k1.wid[u] = o => k.wid[u] = o /\ k1.winfo[u] = k.winfo[u]
           /\ (\A u \in Task : k.state[u] \in WaitBit => k.wid[u] # NoObj)
              => \A u \in Task : k1.state[u] \in WaitBit => k1.wid[u] # NoObj
<1>1. o # NoObj
  BY SyncObjectKinds
<1>2. ASSUME NEW h \in SyncObject \ {o}, ObjectOk(k, h) PROVE ObjectOk(k1, h)
  <2>1. SameQueue(k1, k, h) /\ SameObject(k1, k, h)
    BY DEF Releases, SameQueue, SameTask
  <2> QED BY <1>2, <2>1, OkSame
<1> QED BY <1>1, <1>2 DEF Releases, SameTask

\* Task t has left the queue of o, and what it got is gone.
Served(k1, k, t, o) ==
    /\ SyncState(k1) /\ Releases(k1, k, o)
    /\ k1.que[o] = Unlink(k.que[o], t) /\ k1.wid[t] = NoObj
    /\ k1.sematr = k.sematr
    /\ \A u \in Task \ {t} : SameTask(k1, k, u)

LEMMA ServedState ==
    ASSUME NEW k, SyncState(k), NEW t \in Task, NEW ke, Released(ke, k, t), ke.state[t] \notin WaitBit,
           NEW o \in SyncObject, o = k.wid[t],
           NEW k1, Only(k1, ke, {"semcnt", "flgptn"}), SyncTypes(k1),
           \A h \in SyncObject \ {o} : SameObject(k1, ke, h)
    PROVE  Served(k1, k, t, o)
<1>1. /\ SyncState(ke) /\ \A h \in SyncObject \ {o} : ke.que[h] = k.que[h]
      /\ Only(ke, k, TaskField) /\ SyncTypes(k)
      /\ \A u \in Task \ {t} : SameTask(ke, k, u)
      /\ ke.wid[t] = NoObj /\ ke.que[o] = Unlink(k.que[o], t)
  BY ReleasedState, SyncObjectKinds DEF Released, Concerns, SyncState
<1>2. Only(k1, ke, SyncField)
  BY DEF Only, SyncField
<1>3. SyncField \subseteq DOMAIN ke /\ SyncTypes(ke)
  BY <1>1 DEF SyncState, SyncTypes
<1>4. /\ k1.semid = ke.semid /\ k1.sematr = ke.sematr /\ k1.maxsem = ke.maxsem
      /\ k1.flgid = ke.flgid /\ k1.flgatr = ke.flgatr
      /\ k1.mbxid = ke.mbxid /\ k1.mbxatr = ke.mbxatr
  BY <1>3 DEF Only, SyncField
<1>5. \A h \in SyncObject : SameKind(k1, ke, h)
  BY <1>4 DEF SameKind
<1>6. SyncState(k1) /\ \A f \in TaskField : k1[f] = ke[f]
  BY <1>1, <1>2, <1>5, ObjectState
<1>7. /\ k1.que = ke.que /\ k1.wid = ke.wid /\ k1.winfo = ke.winfo /\ k1.wspec = ke.wspec
      /\ k1.priority = ke.priority /\ k1.wercd = ke.wercd /\ k1.state = ke.state
      /\ k1.wtmeb = ke.wtmeb
  BY <1>6 DEF TaskField, KernelField, WaitField
<1>8. \A u \in Task \ {t} : SameTask(k1, k, u)
  BY <1>1, <1>7 DEF SameTask
<1>9. ObjectsSame(ke, k)
  BY <1>1, TypesKept
<1>10. Releases(k1, k, o)
  <2>1. Only(k1, k, TaskField \cup {"semcnt", "flgptn"})
    BY <1>1 DEF Only
  <2>2. ASSUME NEW h \in SyncObject \ {o} PROVE k1.que[h] = k.que[h] /\ SameObject(k1, k, h)
    BY <1>1, <1>7, <1>9 DEF SameObject, ObjectsSame
  <2> QED BY <1>1, <1>7, <1>8, <2>1, <2>2 DEF Releases
<1>11. k1.sematr = k.sematr
  BY <1>4, <1>9 DEF ObjectsSame
<1> QED BY <1>1, <1>6, <1>7, <1>8, <1>10, <1>11 DEF Served

LEMMA EndWaitReleases ==
    ASSUME NEW k, SyncState(k), NEW t \in Task, k.wid[t] # NoObj, NEW ercd
    PROVE  /\ Released(EndWait(k, t, ercd), k, t)
           /\ EndWait(k, t, ercd).state[t] \notin WaitBit /\ k.state[t] \in WaitBit
           /\ ObjectsSame(EndWait(k, t, ercd), k)
<1>1. KState(k) /\ k.state[t] \in WaitBit
  BY DEF SyncState, KState, WaitsOnly
<1> DEFINE k1 == EndWait(k, t, ercd)
<1>2. WaitOver(k1, k, t, ercd)
  BY <1>1, EndWaitState
<1> HIDE DEF k1
<1>3. Released(k1, k, t) /\ k1.state[t] \notin WaitBit /\ Only(k1, k, TaskField)
  BY <1>2 DEF WaitOver, Released, WaitBit, Concerns
<1>4. ObjectsSame(k1, k)
  BY <1>3, TypesKept DEF SyncState
<1> QED BY <1>1, <1>3, <1>4 DEF k1

LEMMA CountsKept ==
    ASSUME NEW c \in [SEM -> Nat], NEW m \in [SEM -> 0..SemCntMax],
           \A h \in SEM : c[h] \in 0..m[h],
           NEW s \in SEM, NEW v \in 0..m[s], NEW c1, c1 = [c EXCEPT ![s] = v]
    PROVE  /\ c1 \in [SEM -> Nat] /\ \A h \in SEM : c1[h] \in 0..m[h]
           /\ c1[s] = v /\ \A h \in SEM \ {s} : c1[h] = c[h]
<1>1. v \in Nat
  OBVIOUS
<1> QED BY <1>1

\* Task t gets its units.
LEMMA GiveState ==
    ASSUME NEW k, SyncState(k), NEW s \in SEM, NEW t \in Task, k.wid[t] = s,
           ~(k.semcnt[s] < k.winfo[t]),
           NEW k1, k1 = Given(k, s, t)
    PROVE  Served(k1, k, t, s) /\ k1.semcnt[s] < k.semcnt[s]
<1> DEFINE ke == EndWait(k, t, "E_OK")
<1>1. s \in SyncObject /\ s # NoObj /\ s \notin FLG /\ s \notin MBX
  BY SyncObjectKinds DEF SyncObject
<1>2. /\ Released(ke, k, t) /\ ke.state[t] \notin WaitBit /\ ObjectsSame(ke, k)
  BY <1>1, EndWaitReleases
<1>3. SyncTypes(k) /\ WaitOf(k, t)
  BY DEF SyncState
<1> HIDE DEF ke
<1>4. k1 = [ke EXCEPT !.semcnt = [ke.semcnt EXCEPT ![s] = k.semcnt[s] - k.winfo[t]]]
  <2>1. k1 = [ke EXCEPT !.semcnt[s] = @ - k.winfo[t]]
    BY DEF ke, Given
  <2> QED BY <2>1, <1>2 DEF ObjectsSame
<1>5. SyncField \subseteq DOMAIN ke
  BY <1>2 DEF ObjectsSame
<1>6. /\ Only(k1, ke, {"semcnt"}) /\ k1.semcnt = [ke.semcnt EXCEPT ![s] = k.semcnt[s] - k.winfo[t]]
  BY <1>4, <1>5 DEF Only, SyncField
<1> DEFINE n == k.semcnt[s]  w == k.winfo[t]  m == k.maxsem[s]
<1>7. n \in 0..m /\ w \in 1..m /\ ~(n < w) /\ m \in Nat
  BY <1>1, <1>3 DEF SyncTypes, SemTypes, WaitOf
<1>8. n - w \in 0..m /\ n - w < n /\ n - w \in Nat
  <2> HIDE DEF n, w, m
  <2> QED BY <1>7
<1>9. /\ k1.semid = k.semid /\ k1.sematr = k.sematr /\ k1.maxsem = k.maxsem
      /\ k1.flgid = k.flgid /\ k1.flgatr = k.flgatr /\ k1.flgptn = k.flgptn
      /\ k1.mbxid = k.mbxid /\ k1.mbxatr = k.mbxatr /\ k1.mqhead = k.mqhead
      /\ k1.mqtail = k.mqtail /\ k1.nextmsg = k.nextmsg /\ k1.msgs = k.msgs
      /\ SyncField \subseteq DOMAIN k1
  BY <1>2, <1>5, <1>6 DEF Only, SyncField, ObjectsSame
<1>10. k1.semcnt = [k.semcnt EXCEPT ![s] = n - w]
  BY <1>2, <1>6 DEF ObjectsSame
<1>11. SyncTypes(k1)
  <2>1. SemTypes(k) /\ FlgTypes(k) /\ MbxTypes(k)
    BY <1>3 DEF SyncTypes
  <2>2. PICK v : v = n - w
    OBVIOUS
  <2>3. v \in 0..k.maxsem[s] /\ k1.semcnt = [k.semcnt EXCEPT ![s] = v]
    BY <2>2, <1>8, <1>10
  <2> HIDE DEF n, w, m
  <2>6. k1.semcnt \in [SEM -> Nat] /\ \A h \in SEM : k1.semcnt[h] \in 0..k.maxsem[h]
    <3>1. /\ k.semcnt \in [SEM -> Nat] /\ k.maxsem \in [SEM -> 0..SemCntMax]
          /\ \A h \in SEM : k.semcnt[h] \in 0..k.maxsem[h]
          /\ s \in SEM
      BY <2>1 DEF SemTypes
    <3> QED BY ONLY <3>1, <2>3, CountsKept
  <2>4. SemTypes(k1)
    BY <2>1, <2>6, <1>9 DEF SemTypes
  <2>5. FlgTypes(k1) /\ MbxTypes(k1)
    BY <2>1, <1>9 DEF FlgTypes, MbxTypes
  <2> QED BY <2>4, <2>5, <1>9 DEF SyncTypes
<1>12. \A h \in SyncObject \ {s} : SameObject(k1, ke, h)
  BY <1>2, <1>3, <1>9, <1>10 DEF SameObject, ObjectsSame, SyncTypes, SemTypes
<1>13. Only(k1, ke, {"semcnt", "flgptn"})
  BY <1>6 DEF Only
<1>14. Served(k1, k, t, s)
  BY <1>1, <1>2, <1>11, <1>12, <1>13, ServedState
<1>15. k1.semcnt[s] = n - w
  BY <1>3, <1>10 DEF SyncTypes, SemTypes
<1> QED BY <1>8, <1>14, <1>15

\* Task t is released, and clears what it clears.
LEMMA FreedState ==
    ASSUME NEW k, SyncState(k), NEW f \in FLG, NEW t \in Task, k.wid[t] = f,
           NEW k1, k1 = Freed(k, f, t)
    PROVE  /\ Served(k1, k, t, f)
           /\ k1.flgptn[f] = Left(k, f, t) /\ k1.flgptn[f] \subseteq k.flgptn[f]
<1> DEFINE ke == EndWait(k, t, "E_OK")
           left == Left(k, f, t)
<1>1. f \in SyncObject /\ f # NoObj /\ f \notin SEM /\ f \notin MBX
  BY SyncObjectKinds DEF SyncObject
<1>2. /\ Released(ke, k, t) /\ ke.state[t] \notin WaitBit /\ ObjectsSame(ke, k)
  BY <1>1, EndWaitReleases
<1>3. SyncTypes(k)
  BY DEF SyncState
<1>4. left \subseteq k.flgptn[f]
  BY DEF Left, Cleared
<1>5. k1 = [ke EXCEPT !.flgptn[f] = left]
  BY DEF Freed
<1> HIDE DEF ke, left
<1>6. SyncField \subseteq DOMAIN ke
  BY <1>2 DEF ObjectsSame
<1>7. Only(k1, ke, {"flgptn"}) /\ k1.flgptn = [ke.flgptn EXCEPT ![f] = left]
  BY <1>5, <1>6 DEF Only, SyncField
<1>8. /\ k1.semid = k.semid /\ k1.sematr = k.sematr /\ k1.maxsem = k.maxsem
      /\ k1.flgid = k.flgid /\ k1.flgatr = k.flgatr /\ k1.semcnt = k.semcnt
      /\ k1.mbxid = k.mbxid /\ k1.mbxatr = k.mbxatr /\ k1.mqhead = k.mqhead
      /\ k1.mqtail = k.mqtail /\ k1.nextmsg = k.nextmsg /\ k1.msgs = k.msgs
      /\ SyncField \subseteq DOMAIN k1
  BY <1>2, <1>6, <1>7 DEF Only, SyncField, ObjectsSame
<1>9. k1.flgptn = [k.flgptn EXCEPT ![f] = left] /\ left \in Pattern
  BY <1>2, <1>3, <1>4, <1>7 DEF ObjectsSame, SyncTypes, FlgTypes, Pattern
<1>10. SyncTypes(k1)
  BY <1>3, <1>8, <1>9 DEF SyncTypes, SemTypes, FlgTypes, MbxTypes
<1>11. \A h \in SyncObject \ {f} : SameObject(k1, ke, h)
  BY <1>2, <1>3, <1>8, <1>9 DEF SameObject, ObjectsSame, SyncTypes, FlgTypes
<1>12. Only(k1, ke, {"semcnt", "flgptn"})
  BY <1>7 DEF Only
<1>13. Served(k1, k, t, f)
  BY <1>1, <1>2, <1>10, <1>11, <1>12, ServedState
<1>14. k1.flgptn[f] = left
  BY <1>3, <1>9 DEF SyncTypes, FlgTypes
<1> QED BY <1>4, <1>13, <1>14 DEF left

\* s is q without its first n entries.
Rest(s, q, n) == Len(s) = Len(q) - n /\ \A j \in 1..Len(q)-n : s[j] = q[n+j]

LEMMA UnlinkFirst ==
    ASSUME NEW q \in Seq(Task), NEW s \in Seq(Task), IsInjective(s), NEW n \in 0..Len(q)-1,
           Rest(s, q, n)
    PROVE  Rest(Unlink(s, q[n+1]), q, n+1)
<1>1. /\ Len(s) = Len(q) - n /\ Len(s) \in Nat /\ Len(q) \in Nat /\ n \in Nat /\ 1 \in 1..Len(s)
      /\ DOMAIN s = 1..Len(s)
  BY DEF Rest
<1>2. s[1] = q[n+1]
  BY <1>1 DEF Rest
<1> DEFINE i == CHOOSE i \in DOMAIN s : s[i] = q[n+1]
<1>3. i = 1
  BY <1>1, <1>2 DEF IsInjective
<1>4. Unlink(s, q[n+1]) = RemoveAt(s, 1)
  BY <1>1, <1>2, <1>3 DEF Unlink, InRing
<1>5. /\ Len(RemoveAt(s, 1)) = Len(s) - 1
      /\ \A j \in 1..Len(s)-1 : RemoveAt(s, 1)[j] = s[j+1]
  <2>1. /\ Len(RemoveAt(s, 1)) = Len(s) - 1
        /\ \A j \in 1..Len(s)-1 : RemoveAt(s, 1)[j] = IF j < 1 THEN s[j] ELSE s[j+1]
    BY <1>1, RemoveAtIndex
  <2>2. \A j \in 1..Len(s)-1 : ~(j < 1)
    BY <1>1
  <2> QED BY <2>1, <2>2
<1>6. ASSUME NEW j \in 1..Len(q)-(n+1) PROVE RemoveAt(s, 1)[j] = q[(n+1)+j]
  <2>1. j \in 1..Len(s)-1 /\ j + 1 \in 1..Len(q)-n /\ n + (j+1) = (n+1)+j
    BY <1>1
  <2> QED BY <1>5, <2>1 DEF Rest
<1>7. Len(s) - 1 = Len(q) - (n+1)
  BY <1>1
<1> QED BY <1>4, <1>5, <1>6, <1>7 DEF Rest

(***************************************************************************)
(* A semaphore: after the search no task waits for units that are there.   *)
(***************************************************************************)
\* The first n tasks of the queue q of s have been looked at, and the search
\* goes on: those still in it need more than there is, and there is none if
\* the order counts.
Looked(k, k0, s, q, n) ==
    /\ SyncState(k) /\ Releases(k, k0, s) /\ k.sematr = k0.sematr
    /\ \A j \in n+1..Len(q) : k.wid[q[j]] = s
    /\ \A i \in 1..n : k.wid[q[i]] = s =>
          "CNT" \in k.sematr[s] /\ k.winfo[q[i]] > k.semcnt[s]
    /\ "CNT" \notin k.sematr[s] => Rest(k.que[s], q, n)

\* The search is over.
Searched(k, k0, s) == SyncState(k) /\ Releases(k, k0, s) /\ SemOk(k, s)

Search(a, k0, s, q, n) ==
    \/ \E k : a = Looking(k) /\ Looked(k, k0, s, q, n)
    \/ \E k : a = Done(k) /\ Searched(k, k0, s)

\* The next task gets its units.
LEMMA NextGets ==
    ASSUME NEW k0, NEW s \in SEM, NEW q \in Seq(Task), IsInjective(q), NEW n \in 0..Len(q)-1,
           NEW k, Looked(k, k0, s, q, n), ~(k.semcnt[s] < k.winfo[q[n+1]]),
           NEW k1, k1 = Given(k, s, q[n+1])
    PROVE  Looked(k1, k0, s, q, n+1)
<1> DEFINE t == q[n+1]
<1>1. /\ n \in Nat /\ Len(q) \in Nat /\ n+1 \in 1..Len(q) /\ DOMAIN q = 1..Len(q)
      /\ s \in SyncObject /\ s # NoObj
  BY SyncObjectKinds DEF SyncObject
<1>2. t \in Task /\ k.wid[t] = s /\ SyncState(k) /\ KState(k)
  BY <1>1 DEF Looked, SyncState
<1>3. Served(k1, k, t, s) /\ k1.semcnt[s] < k.semcnt[s]
  BY <1>2, GiveState
<1>4. /\ SyncState(k1) /\ Releases(k1, k, s) /\ k1.que[s] = Unlink(k.que[s], t)
      /\ k1.wid[t] = NoObj /\ k1.sematr = k.sematr
      /\ \A u \in Task \ {t} : k1.wid[u] = k.wid[u] /\ k1.winfo[u] = k.winfo[u]
  BY <1>3 DEF Served, SameTask
<1>5. \A i \in 1..Len(q) : i # n+1 => q[i] \in Task \ {t}
  BY <1>1 DEF IsInjective
<1>6. Releases(k1, k0, s) /\ k1.sematr = k0.sematr
  BY <1>1, <1>4, ReleasesMore DEF Looked
<1>7. ASSUME NEW j \in (n+1)+1..Len(q) PROVE k1.wid[q[j]] = s
  <2>1. j \in 1..Len(q) /\ j # n+1 /\ j \in n+1..Len(q)
    BY <1>1
  <2> QED BY <2>1, <1>4, <1>5 DEF Looked
<1>8. k.semcnt[s] \in Nat /\ k1.semcnt[s] \in Nat
  BY <1>2, <1>4 DEF SyncState, SyncTypes, SemTypes
<1>9. ASSUME NEW i \in 1..n+1, k1.wid[q[i]] = s
      PROVE  "CNT" \in k1.sematr[s] /\ k1.winfo[q[i]] > k1.semcnt[s]
  <2>1. i # n+1
    BY <1>1, <1>4, <1>9
  <2>2. i \in 1..n /\ i \in 1..Len(q)
    BY <2>1, <1>1
  <2>3. k.wid[q[i]] = s /\ k1.winfo[q[i]] = k.winfo[q[i]]
    BY <2>1, <2>2, <1>4, <1>5, <1>9
  <2>4. "CNT" \in k.sematr[s] /\ k.winfo[q[i]] > k.semcnt[s]
    BY <2>2, <2>3 DEF Looked
  <2>5. k.winfo[q[i]] \in Nat
    <3>1. WaitOf(k, q[i]) /\ q[i] \in Task
      BY <1>2, <2>2 DEF SyncState
    <3>2. k.winfo[q[i]] \in 1..k.maxsem[s]
      BY <3>1, <2>3, <1>1, SyncObjectKinds DEF WaitOf
    <3> QED BY <3>2
  <2> QED BY <2>3, <2>4, <2>5, <1>3, <1>4, <1>8
<1>10. ASSUME "CNT" \notin k1.sematr[s] PROVE Rest(k1.que[s], q, n+1)
  <2>1. k.que[s] \in Seq(Task) /\ IsInjective(k.que[s]) /\ Rest(k.que[s], q, n)
    BY <1>1, <1>2, <1>4, <1>10, QueueEntries DEF Looked
  <2> QED BY <2>1, <1>4, UnlinkFirst
<1> HIDE DEF t
<1> QED BY <1>4, <1>6, <1>7, <1>9, <1>10 DEF Looked

LEMMA NextLooked ==
    ASSUME NEW k0, NEW s \in SEM, NEW q \in Seq(Task), IsInjective(q), NEW n \in 0..Len(q)-1,
           NEW a, Search(a, k0, s, q, n)
    PROVE  Search(ServeNext(a, s, q[n+1]), k0, s, q, n+1)
<1> DEFINE t == q[n+1]
           b == ServeNext(a, s, t)
<1>1. ASSUME NEW k, a = Done(k), Searched(k, k0, s) PROVE Search(b, k0, s, q, n+1)
  <2>1. b = a
    BY <1>1, ServeNextIs
  <2> QED BY <1>1, <2>1 DEF Search
<1>2. ASSUME NEW k, a = Looking(k), Looked(k, k0, s, q, n) PROVE Search(b, k0, s, q, n+1)
  <2>1. n \in Nat /\ Len(q) \in Nat /\ n+1 \in 1..Len(q)
    OBVIOUS
  <2>2. CASE ~(k.semcnt[s] < k.winfo[t])
    <3> DEFINE k1 == Given(k, s, t)
    <3>1. Looked(k1, k0, s, q, n+1)
      BY <1>2, <2>2, NextGets
    <3> HIDE DEF t
    <3>2. ServeNext(Looking(k), s, t) = Looking(k1)
      BY ONLY <2>2, ServeNextIs
    <3> HIDE DEF k1
    <3> QED BY <1>2, <3>1, <3>2 DEF Search, t
  <2>3. CASE k.semcnt[s] < k.winfo[t] /\ "CNT" \notin k.sematr[s]
    <3>1. b = Done(k)
      BY <1>2, <2>3, ServeNextIs
    <3>2. ASSUME NEW i \in DOMAIN k.que[s], i = 1 \/ "CNT" \in k.sematr[s]
          PROVE  k.winfo[k.que[s][i]] > k.semcnt[s]
      <4>1. k.que[s][1] = t
        <5>1. Rest(k.que[s], q, n)
          BY <1>2, <2>3 DEF Looked
        <5> QED BY <5>1, <2>1 DEF Rest
      <4>2. k.semcnt[s] \in Nat /\ k.winfo[t] \in Nat
        <5>1. k.wid[t] = s /\ t \in Task /\ SyncState(k)
          BY <1>2, <2>1 DEF Looked
        <5>2. s \in SyncObject
          BY DEF SyncObject
        <5>3. WaitOf(k, t) /\ SemTypes(k)
          BY <5>1 DEF SyncState, SyncTypes
        <5>4. k.winfo[t] \in 1..k.maxsem[s]
          BY <5>1, <5>2, <5>3, SyncObjectKinds DEF WaitOf
        <5> QED BY <5>3, <5>4 DEF SemTypes
      <4> HIDE DEF t
      <4> QED BY <2>3, <3>2, <4>1, <4>2
    <3>3. Searched(k, k0, s)
      BY <1>2, <3>2 DEF Looked, Searched, SemOk
    <3> HIDE DEF b
    <3> QED BY <3>1, <3>3 DEF Search
  <2>4. CASE k.semcnt[s] < k.winfo[t] /\ "CNT" \in k.sematr[s]
    <3>1. b = Looking(k)
      BY <1>2, <2>4, ServeNextIs
    <3>2. k.semcnt[s] \in Nat /\ k.winfo[t] \in Nat
      <4>1. k.wid[t] = s /\ t \in Task /\ SyncState(k)
        BY <1>2, <2>1 DEF Looked
      <4>2. s \in SyncObject
        BY DEF SyncObject
      <4>3. WaitOf(k, t) /\ SemTypes(k)
        BY <4>1 DEF SyncState, SyncTypes
      <4>4. k.winfo[t] \in 1..k.maxsem[s]
        BY <4>1, <4>2, <4>3, SyncObjectKinds DEF WaitOf
      <4> QED BY <4>3, <4>4 DEF SemTypes
    <3>3. \A j \in (n+1)+1..Len(q) : j \in n+1..Len(q)
      BY <2>1
    <3>4. \A i \in 1..n+1 : i = n+1 \/ i \in 1..n
      BY <2>1
    <3>5. Looked(k, k0, s, q, n+1)
      BY <1>2, <2>4, <3>2, <3>3, <3>4 DEF Looked
    <3> HIDE DEF b
    <3> QED BY <3>1, <3>5 DEF Search
  <2> QED BY <2>2, <2>3, <2>4
<1> QED BY <1>1, <1>2 DEF Search

LEMMA SearchStarts ==
    ASSUME NEW k, SyncState(k), NEW s \in SEM
    PROVE  Search(Looking(k), k, s, k.que[s], 0)
<1> DEFINE q == k.que[s]
<1>1. /\ s \in SyncObject /\ KState(k)
  BY DEF SyncObject, SyncState
<1>2. /\ q \in Seq(Task) /\ Len(q) \in Nat /\ DOMAIN q = 1..Len(q)
      /\ \A i \in DOMAIN q : k.wid[q[i]] = s
  BY <1>1, QueueEntries
<1>3. Rest(q, q, 0)
  BY <1>2 DEF Rest
<1>4. Looked(k, k, s, q, 0)
  BY <1>2, <1>3, ReleasesNone DEF Looked
<1> HIDE DEF q
<1> QED BY <1>4 DEF Search, q

\* The search of the first m tasks of q.
LEMMA SearchGoesOn ==
    ASSUME NEW k, SyncState(k), NEW s \in SEM, NEW q, q = k.que[s], NEW m \in 0..Len(q)
    PROVE  \E w : /\ w = [n \in 0..m |-> IF n = 0 THEN Looking(k) ELSE ServeNext(w[n-1], s, q[n])]
                  /\ \A n \in 0..m : Search(w[n], k, s, q, n)
<1> DEFINE Steps(w, i) ==
             w = [n \in 0..i |-> IF n = 0 THEN Looking(k) ELSE ServeNext(w[n-1], s, q[n])]
           Good(w, i) == \A n \in 0..i : Search(w[n], k, s, q, n)
           Missing == {i \in 0..Len(q) : ~\E w : Steps(w, i) /\ Good(w, i)}
<1>1. /\ q \in Seq(Task) /\ IsInjective(q) /\ Len(q) \in Nat
  BY QueueEntries DEF SyncObject, SyncState
<1> SUFFICES ASSUME Missing # {} PROVE FALSE
  OBVIOUS
<1>2. Missing \subseteq Nat
  BY <1>1
<1>3. PICK i \in Missing : \A j \in Missing : i <= j
  BY <1>2, LeastElement
<1>4. i \in 0..Len(q) /\ ~\E w : Steps(w, i) /\ Good(w, i)
  BY <1>3
<1>5. i # 0
  <2> DEFINE w == [n \in {0} |-> Looking(k)]
  <2>1. 0..0 = {0} /\ w[0] = Looking(k)
    OBVIOUS
  <2>2. Search(w[0], k, s, q, 0)
    BY <2>1, SearchStarts
  <2>3. Steps(w, 0) /\ Good(w, 0)
    BY <2>1, <2>2
  <2> HIDE DEF w, Steps, Good
  <2> QED BY <2>3, <1>4
<1>6. i \in Nat /\ i - 1 \in 0..Len(q) /\ i - 1 \in 0..Len(q)-1 /\ (i - 1) + 1 = i /\ i - 1 < i
  BY <1>1, <1>4, <1>5
<1>7. \E g : Steps(g, i-1) /\ Good(g, i-1)
  <2> HIDE DEF Steps, Good
  <2> QED BY <1>3, <1>6
<1>8. PICK g : Steps(g, i-1) /\ Good(g, i-1)
  <2> HIDE DEF Steps, Good
  <2> QED BY <1>7
<1> DEFINE w == [n \in 0..i |-> IF n = i THEN ServeNext(g[i-1], s, q[i]) ELSE g[n]]
<1>9. ASSUME NEW n \in 0..i
      PROVE  /\ w[n] = IF n = 0 THEN Looking(k) ELSE ServeNext(w[n-1], s, q[n])
             /\ Search(w[n], k, s, q, n)
  <2>1. CASE n = i
    <3>1. w[n] = ServeNext(g[i-1], s, q[i]) /\ w[n-1] = g[i-1] /\ n # 0
      BY <2>1, <1>5, <1>6
    <3>2. Search(g[i-1], k, s, q, i-1)
      BY <1>6, <1>8
    <3>3. Search(ServeNext(g[i-1], s, q[(i-1)+1]), k, s, q, (i-1)+1)
      BY <3>2, <1>1, <1>6, NextLooked
    <3> HIDE DEF w
    <3> QED BY <2>1, <3>1, <3>3, <1>6
  <2>2. CASE n # i
    <3>1. n \in 0..i-1 /\ w[n] = g[n] /\ (n # 0 => n - 1 \in 0..i /\ n - 1 # i)
      BY <2>2, <1>6
    <3>2. n # 0 => w[n-1] = g[n-1]
      BY <3>1
    <3>3. g[n] = IF n = 0 THEN Looking(k) ELSE ServeNext(g[n-1], s, q[n])
      BY <3>1, <1>8
    <3>4. Search(g[n], k, s, q, n)
      BY <3>1, <1>8
    <3> HIDE DEF w
    <3> QED BY <3>1, <3>2, <3>3, <3>4
  <2> QED BY <2>1, <2>2
<1>10. w = [n \in 0..i |-> w[n]]
  OBVIOUS
<1> HIDE DEF w
<1>11. Steps(w, i) /\ Good(w, i)
  BY <1>9, <1>10
<1> HIDE DEF Steps, Good
<1> QED BY <1>4, <1>11

\* Nobody waits for units that are there, and only tasks in the queue of s
\* have got theirs.
LEMMA ServeState ==
    ASSUME NEW k, SyncState(k), NEW s \in SEM
    PROVE  Searched(Serve(k, s), k, s)
<1> DEFINE q == k.que[s]
           N == Len(q)
<1>1. /\ q \in Seq(Task) /\ N \in Nat /\ N \in 0..N /\ DOMAIN q = 1..N /\ s \in SyncObject
      /\ KState(k) /\ \A u \in Task : k.wid[u] = s => \E i \in DOMAIN q : q[i] = u
  BY QueueEntries DEF SyncObject, SyncState
<1> HIDE DEF q, N
<1>2. PICK w : /\ w = [n \in 0..N |-> IF n = 0 THEN Looking(k) ELSE ServeNext(w[n-1], s, q[n])]
               /\ \A n \in 0..N : Search(w[n], k, s, q, n)
  BY <1>1, SearchGoesOn DEF q, N
<1>3. ServeSteps(w, k, s, q)
  BY <1>2 DEF ServeSteps, Looking, N
<1>4. Serve(k, s) = w[N].k
  BY <1>1, <1>3, ServeIs DEF q, N
<1>5. Search(w[N], k, s, q, N)
  BY <1>1, <1>2
<1>6. ASSUME NEW k1, w[N] = Done(k1), Searched(k1, k, s) PROVE Searched(Serve(k, s), k, s)
  <2>1. Serve(k, s) = k1
    BY <1>4, <1>6, Found
  <2> QED BY <1>6, <2>1
<1>7. ASSUME NEW k1, w[N] = Looking(k1), Looked(k1, k, s, q, N) PROVE Searched(Serve(k, s), k, s)
  <2>1. Serve(k, s) = k1
    BY <1>4, <1>7, Found
  <2>2. SyncState(k1) /\ Releases(k1, k, s) /\ KState(k1)
    BY <1>7 DEF Looked, SyncState
  <2>3. ASSUME NEW i \in DOMAIN k1.que[s], i = 1 \/ "CNT" \in k1.sematr[s]
        PROVE  k1.winfo[k1.que[s][i]] > k1.semcnt[s]
    <3> DEFINE u == k1.que[s][i]
    <3>1. u \in Task /\ k1.wid[u] = s
      BY <1>1, <2>2, QueueEntries
    <3> HIDE DEF u
    <3>2. k.wid[u] = s
      BY <1>1, <2>2, <3>1, ReleasesOk
    <3>3. PICK j \in 1..N : q[j] = u
      BY <1>1, <3>1, <3>2
    <3> QED BY <1>7, <3>1, <3>3 DEF Looked, u
  <2> QED BY <2>1, <2>2, <2>3 DEF Searched, SemOk
<1> QED BY <1>5, <1>6, <1>7 DEF Search

(***************************************************************************)
(* An event flag: after the search no task waits for what is set.          *)
(***************************************************************************)
\* A condition that does not hold does not hold for a part of the pattern.
LEMMA CondParts ==
    ASSUME NEW p, NEW p1, p1 \subseteq p, NEW w, ~Cond(p, w)
    PROVE  ~Cond(p1, w)
  BY DEF Cond

LEMMA CondNothing ==
    ASSUME NEW w \in FlgWait
    PROVE  ~Cond({}, w)
  BY DEF Cond, FlgWait

\* The first n tasks of the queue q of f have been looked at, and the search
\* goes on.
FlgLooked(k, k0, f, q, n) ==
    /\ SyncState(k) /\ Releases(k, k0, f)
    /\ \A j \in n+1..Len(q) : k.wid[q[j]] = f
    /\ \A i \in 1..n : k.wid[q[i]] = f => ~Cond(k.flgptn[f], k.winfo[q[i]])

\* The search is over.
FlgSearched(k, k0, f) == SyncState(k) /\ Releases(k, k0, f) /\ FlgOk(k, f)

FlgSearch(a, k0, f, q, n) ==
    \/ \E k : a = Looking(k) /\ FlgLooked(k, k0, f, q, n)
    \/ \E k : a = Done(k) /\ FlgSearched(k, k0, f)

\* The next task is released.
LEMMA NextFreed ==
    ASSUME NEW k0, NEW f \in FLG, NEW q \in Seq(Task), IsInjective(q), NEW n \in 0..Len(q)-1,
           NEW k, FlgLooked(k, k0, f, q, n), NEW k1, k1 = Freed(k, f, q[n+1])
    PROVE  FlgLooked(k1, k0, f, q, n+1) /\ k1.flgptn[f] = Left(k, f, q[n+1])
<1> DEFINE t == q[n+1]
<1>1. /\ n \in Nat /\ Len(q) \in Nat /\ n+1 \in 1..Len(q) /\ DOMAIN q = 1..Len(q)
      /\ f \in SyncObject /\ f # NoObj
  BY SyncObjectKinds DEF SyncObject
<1>2. t \in Task /\ k.wid[t] = f /\ SyncState(k)
  BY <1>1 DEF FlgLooked
<1>3. Served(k1, k, t, f) /\ k1.flgptn[f] \subseteq k.flgptn[f] /\ k1.flgptn[f] = Left(k, f, t)
  BY <1>2, FreedState
<1>4. /\ SyncState(k1) /\ Releases(k1, k, f) /\ k1.wid[t] = NoObj
      /\ \A u \in Task \ {t} : k1.wid[u] = k.wid[u] /\ k1.winfo[u] = k.winfo[u]
  BY <1>3 DEF Served, SameTask
<1>5. \A i \in 1..Len(q) : i # n+1 => q[i] \in Task \ {t}
  BY <1>1 DEF IsInjective
<1>6. Releases(k1, k0, f)
  BY <1>1, <1>4, ReleasesMore DEF FlgLooked
<1>7. ASSUME NEW j \in (n+1)+1..Len(q) PROVE k1.wid[q[j]] = f
  <2>1. j \in 1..Len(q) /\ j # n+1 /\ j \in n+1..Len(q)
    BY <1>1
  <2> QED BY <2>1, <1>4, <1>5 DEF FlgLooked
<1>8. ASSUME NEW i \in 1..n+1, k1.wid[q[i]] = f
      PROVE  ~Cond(k1.flgptn[f], k1.winfo[q[i]])
  <2>1. i # n+1
    BY <1>1, <1>4, <1>8
  <2>2. i \in 1..n /\ i \in 1..Len(q)
    BY <2>1, <1>1
  <2>3. k.wid[q[i]] = f /\ k1.winfo[q[i]] = k.winfo[q[i]]
    BY <2>1, <2>2, <1>4, <1>5, <1>8
  <2>4. ~Cond(k.flgptn[f], k.winfo[q[i]])
    BY <2>2, <2>3 DEF FlgLooked
  <2> QED BY <2>3, <2>4, <1>3, CondParts
<1> HIDE DEF t
<1> QED BY <1>3, <1>4, <1>6, <1>7, <1>8 DEF FlgLooked, t

\* With nothing left of the pattern no condition holds.
LEMMA NothingLeft ==
    ASSUME NEW k, SyncState(k), NEW f \in FLG, k.flgptn[f] = {}
    PROVE  FlgOk(k, f)
<1>1. f \in SyncObject /\ f # NoObj /\ f \notin SEM /\ f \notin MBX /\ KState(k)
  BY SyncObjectKinds DEF SyncObject, SyncState
<1>2. ASSUME NEW i \in DOMAIN k.que[f] PROVE ~Cond(k.flgptn[f], k.winfo[k.que[f][i]])
  <2> DEFINE u == k.que[f][i]
  <2>1. u \in Task /\ k.wid[u] = f
    BY <1>1, QueueEntries
  <2> HIDE DEF u
  <2>2. k.winfo[u] \in FlgWait
    BY <1>1, <2>1 DEF SyncState, WaitOf
  <2> QED BY <2>2, CondNothing DEF u
<1> QED BY <1>2 DEF FlgOk

LEMMA FlgNextLooked ==
    ASSUME NEW k0, NEW f \in FLG, NEW q \in Seq(Task), IsInjective(q), NEW n \in 0..Len(q)-1,
           NEW a, FlgSearch(a, k0, f, q, n)
    PROVE  FlgSearch(ServeFlgNext(a, f, q[n+1]), k0, f, q, n+1)
<1> DEFINE t == q[n+1]
           b == ServeFlgNext(a, f, t)
<1>1. ASSUME NEW k, a = Done(k), FlgSearched(k, k0, f) PROVE FlgSearch(b, k0, f, q, n+1)
  <2>1. b = a
    BY <1>1, ServeFlgNextIs
  <2> QED BY <1>1, <2>1 DEF FlgSearch
<1>2. ASSUME NEW k, a = Looking(k), FlgLooked(k, k0, f, q, n) PROVE FlgSearch(b, k0, f, q, n+1)
  <2>1. n \in Nat /\ Len(q) \in Nat /\ n+1 \in 1..Len(q)
    OBVIOUS
  <2>2. CASE Cond(k.flgptn[f], k.winfo[t])
    <3> DEFINE k1 == Freed(k, f, t)
    <3>1. FlgLooked(k1, k0, f, q, n+1) /\ k1.flgptn[f] = Left(k, f, t)
      BY <1>2, NextFreed
    <3> HIDE DEF t
    <3>2. ServeFlgNext(Looking(k), f, t) = AfterFreed(k, f, t)
      BY ONLY <2>2, ServeFlgNextIs
    <3> HIDE DEF k1
    <3>3. CASE Left(k, f, t) # {}
      <4>1. b = Looking(k1)
        BY <1>2, <3>2, <3>3 DEF AfterFreed, k1
      <4> HIDE DEF b
      <4> QED BY <4>1, <3>1 DEF FlgSearch
    <3>4. CASE Left(k, f, t) = {}
      <4>1. b = Done(k1)
        BY <1>2, <3>2, <3>4 DEF AfterFreed, k1
      <4>2. FlgSearched(k1, k0, f)
        BY <3>1, <3>4, NothingLeft DEF FlgLooked, FlgSearched
      <4> HIDE DEF b
      <4> QED BY <4>1, <4>2 DEF FlgSearch
    <3> QED BY <3>3, <3>4
  <2>3. CASE ~Cond(k.flgptn[f], k.winfo[t])
    <3>1. \A j \in (n+1)+1..Len(q) : j \in n+1..Len(q)
      BY <2>1
    <3>2. \A i \in 1..n+1 : i = n+1 \/ i \in 1..n
      BY <2>1
    <3>3. FlgLooked(k, k0, f, q, n+1)
      BY <1>2, <2>3, <3>1, <3>2 DEF FlgLooked
    <3> HIDE DEF t
    <3>4. ServeFlgNext(Looking(k), f, t) = Looking(k)
      BY ONLY <2>3, ServeFlgNextIs
    <3> QED BY <1>2, <3>3, <3>4 DEF FlgSearch
  <2> QED BY <2>2, <2>3
<1> QED BY <1>1, <1>2 DEF FlgSearch

LEMMA FlgSearchStarts ==
    ASSUME NEW k, SyncState(k), NEW f \in FLG
    PROVE  FlgSearch(Looking(k), k, f, k.que[f], 0)
<1> DEFINE q == k.que[f]
<1>1. /\ f \in SyncObject /\ KState(k)
  BY DEF SyncObject, SyncState
<1>2. /\ q \in Seq(Task) /\ Len(q) \in Nat /\ DOMAIN q = 1..Len(q)
      /\ \A i \in DOMAIN q : k.wid[q[i]] = f
  BY <1>1, QueueEntries
<1>3. FlgLooked(k, k, f, q, 0)
  BY <1>2, ReleasesNone DEF FlgLooked
<1> HIDE DEF q
<1> QED BY <1>3 DEF FlgSearch, q

\* The search of the first m tasks of q.
LEMMA FlgSearchGoesOn ==
    ASSUME NEW k, SyncState(k), NEW f \in FLG, NEW q, q = k.que[f], NEW m \in 0..Len(q)
    PROVE  \E w : /\ w = [n \in 0..m |-> IF n = 0 THEN Looking(k) ELSE ServeFlgNext(w[n-1], f, q[n])]
                  /\ \A n \in 0..m : FlgSearch(w[n], k, f, q, n)
<1> DEFINE Steps(w, i) ==
             w = [n \in 0..i |-> IF n = 0 THEN Looking(k) ELSE ServeFlgNext(w[n-1], f, q[n])]
           Good(w, i) == \A n \in 0..i : FlgSearch(w[n], k, f, q, n)
           Missing == {i \in 0..Len(q) : ~\E w : Steps(w, i) /\ Good(w, i)}
<1>1. /\ q \in Seq(Task) /\ IsInjective(q) /\ Len(q) \in Nat
  BY QueueEntries DEF SyncObject, SyncState
<1> SUFFICES ASSUME Missing # {} PROVE FALSE
  OBVIOUS
<1>2. Missing \subseteq Nat
  BY <1>1
<1>3. PICK i \in Missing : \A j \in Missing : i <= j
  BY <1>2, LeastElement
<1>4. i \in 0..Len(q) /\ ~\E w : Steps(w, i) /\ Good(w, i)
  BY <1>3
<1>5. i # 0
  <2> DEFINE w == [n \in {0} |-> Looking(k)]
  <2>1. 0..0 = {0} /\ w[0] = Looking(k)
    OBVIOUS
  <2>2. FlgSearch(w[0], k, f, q, 0)
    BY <2>1, FlgSearchStarts
  <2>3. Steps(w, 0) /\ Good(w, 0)
    BY <2>1, <2>2
  <2> HIDE DEF w, Steps, Good
  <2> QED BY <2>3, <1>4
<1>6. i \in Nat /\ i - 1 \in 0..Len(q) /\ i - 1 \in 0..Len(q)-1 /\ (i - 1) + 1 = i /\ i - 1 < i
  BY <1>1, <1>4, <1>5
<1>7. \E g : Steps(g, i-1) /\ Good(g, i-1)
  <2> HIDE DEF Steps, Good
  <2> QED BY <1>3, <1>6
<1>8. PICK g : Steps(g, i-1) /\ Good(g, i-1)
  <2> HIDE DEF Steps, Good
  <2> QED BY <1>7
<1> DEFINE w == [n \in 0..i |-> IF n = i THEN ServeFlgNext(g[i-1], f, q[i]) ELSE g[n]]
<1>9. ASSUME NEW n \in 0..i
      PROVE  /\ w[n] = IF n = 0 THEN Looking(k) ELSE ServeFlgNext(w[n-1], f, q[n])
             /\ FlgSearch(w[n], k, f, q, n)
  <2>1. CASE n = i
    <3>1. w[n] = ServeFlgNext(g[i-1], f, q[i]) /\ w[n-1] = g[i-1] /\ n # 0
      BY <2>1, <1>5, <1>6
    <3>2. FlgSearch(g[i-1], k, f, q, i-1)
      BY <1>6, <1>8
    <3>3. FlgSearch(ServeFlgNext(g[i-1], f, q[(i-1)+1]), k, f, q, (i-1)+1)
      BY <3>2, <1>1, <1>6, FlgNextLooked
    <3> HIDE DEF w
    <3> QED BY <2>1, <3>1, <3>3, <1>6
  <2>2. CASE n # i
    <3>1. n \in 0..i-1 /\ w[n] = g[n] /\ (n # 0 => n - 1 \in 0..i /\ n - 1 # i)
      BY <2>2, <1>6
    <3>2. n # 0 => w[n-1] = g[n-1]
      BY <3>1
    <3>3. g[n] = IF n = 0 THEN Looking(k) ELSE ServeFlgNext(g[n-1], f, q[n])
      BY <3>1, <1>8
    <3>4. FlgSearch(g[n], k, f, q, n)
      BY <3>1, <1>8
    <3> HIDE DEF w
    <3> QED BY <3>1, <3>2, <3>3, <3>4
  <2> QED BY <2>1, <2>2
<1>10. w = [n \in 0..i |-> w[n]]
  OBVIOUS
<1> HIDE DEF w
<1>11. Steps(w, i) /\ Good(w, i)
  BY <1>9, <1>10
<1> HIDE DEF Steps, Good
<1> QED BY <1>4, <1>11

\* Nobody waits for a condition that holds, and only tasks in the queue of f
\* have been released.
LEMMA ServeFlgState ==
    ASSUME NEW k, SyncState(k), NEW f \in FLG
    PROVE  FlgSearched(ServeFlg(k, f), k, f)
<1> DEFINE q == k.que[f]
           N == Len(q)
<1>1. /\ q \in Seq(Task) /\ N \in Nat /\ N \in 0..N /\ DOMAIN q = 1..N /\ f \in SyncObject
      /\ KState(k) /\ \A u \in Task : k.wid[u] = f => \E i \in DOMAIN q : q[i] = u
  BY QueueEntries DEF SyncObject, SyncState
<1> HIDE DEF q, N
<1>2. PICK w : /\ w = [n \in 0..N |-> IF n = 0 THEN Looking(k) ELSE ServeFlgNext(w[n-1], f, q[n])]
               /\ \A n \in 0..N : FlgSearch(w[n], k, f, q, n)
  BY <1>1, FlgSearchGoesOn DEF q, N
<1>3. ServeFlgSteps(w, k, f, q)
  BY <1>2 DEF ServeFlgSteps, Looking, N
<1>4. ServeFlg(k, f) = w[N].k
  BY <1>1, <1>3, ServeFlgIs DEF q, N
<1>5. FlgSearch(w[N], k, f, q, N)
  BY <1>1, <1>2
<1>6. ASSUME NEW k1, w[N] = Done(k1), FlgSearched(k1, k, f) PROVE FlgSearched(ServeFlg(k, f), k, f)
  <2>1. ServeFlg(k, f) = k1
    BY <1>4, <1>6, Found
  <2> QED BY <1>6, <2>1
<1>7. ASSUME NEW k1, w[N] = Looking(k1), FlgLooked(k1, k, f, q, N)
      PROVE  FlgSearched(ServeFlg(k, f), k, f)
  <2>1. ServeFlg(k, f) = k1
    BY <1>4, <1>7, Found
  <2>2. SyncState(k1) /\ Releases(k1, k, f) /\ KState(k1)
    BY <1>7 DEF FlgLooked, SyncState
  <2>3. ASSUME NEW i \in DOMAIN k1.que[f] PROVE ~Cond(k1.flgptn[f], k1.winfo[k1.que[f][i]])
    <3> DEFINE u == k1.que[f][i]
    <3>1. u \in Task /\ k1.wid[u] = f
      BY <1>1, <2>2, QueueEntries
    <3> HIDE DEF u
    <3>2. k.wid[u] = f
      BY <1>1, <2>2, <3>1, ReleasesOk
    <3>3. PICK j \in 1..N : q[j] = u
      BY <1>1, <3>1, <3>2
    <3> QED BY <1>7, <3>1, <3>3 DEF FlgLooked, u
  <2> QED BY <2>1, <2>2, <2>3 DEF FlgSearched, FlgOk
<1> QED BY <1>5, <1>6, <1>7 DEF FlgSearch

(***************************************************************************)
(* knl_wait_delete: every task in the queue of an object is released.      *)
(***************************************************************************)
LEMMA EndWaitServed ==
    ASSUME NEW k, SyncState(k), NEW o \in SyncObject, NEW t \in Task, k.wid[t] = o, NEW ercd
    PROVE  Served(EndWait(k, t, ercd), k, t, o)
<1> DEFINE ke == EndWait(k, t, ercd)
<1>1. o # NoObj
  BY SyncObjectKinds
<1>2. Released(ke, k, t) /\ ke.state[t] \notin WaitBit
  BY <1>1, EndWaitReleases
<1> HIDE DEF ke
<1>3. SyncTypes(ke)
  BY <1>2, ReleasedState DEF SyncState
<1>4. Only(ke, ke, {"semcnt", "flgptn"}) /\ \A h \in SyncObject \ {o} : SameObject(ke, ke, h)
  BY DEF Only, SameObject
<1>5. Served(ke, k, t, o)
  BY <1>2, <1>3, <1>4, ServedState
<1> QED BY <1>5 DEF ke

\* The first n tasks of the queue q of o have been released.
Deleted(k, k0, o, q, n) ==
    /\ SyncState(k) /\ Releases(k, k0, o)
    /\ \A j \in n+1..Len(q) : k.wid[q[j]] = o
    /\ \A i \in 1..n : k.wid[q[i]] # o

LEMMA NextDeleted ==
    ASSUME NEW k0, NEW o \in SyncObject, NEW q \in Seq(Task), IsInjective(q), NEW n \in 0..Len(q)-1,
           NEW k, Deleted(k, k0, o, q, n)
    PROVE  Deleted(EndWait(k, q[n+1], "E_DLT"), k0, o, q, n+1)
<1> DEFINE t == q[n+1]
           k1 == EndWait(k, t, "E_DLT")
<1>1. /\ n \in Nat /\ Len(q) \in Nat /\ n+1 \in 1..Len(q) /\ DOMAIN q = 1..Len(q)
      /\ o # NoObj
  BY SyncObjectKinds
<1>2. t \in Task /\ k.wid[t] = o /\ SyncState(k)
  BY <1>1 DEF Deleted
<1>3. Served(k1, k, t, o)
  BY <1>2, EndWaitServed
<1> HIDE DEF k1
<1>4. /\ SyncState(k1) /\ Releases(k1, k, o) /\ k1.wid[t] = NoObj
      /\ \A u \in Task \ {t} : k1.wid[u] = k.wid[u]
  BY <1>3 DEF Served, SameTask
<1>5. \A i \in 1..Len(q) : i # n+1 => q[i] \in Task \ {t}
  BY <1>1 DEF IsInjective
<1>6. Releases(k1, k0, o)
  BY <1>1, <1>4, ReleasesMore DEF Deleted
<1>7. ASSUME NEW j \in (n+1)+1..Len(q) PROVE k1.wid[q[j]] = o
  <2>1. j \in 1..Len(q) /\ j # n+1 /\ j \in n+1..Len(q)
    BY <1>1
  <2> QED BY <2>1, <1>4, <1>5 DEF Deleted
<1>8. ASSUME NEW i \in 1..n+1 PROVE k1.wid[q[i]] # o
  <2>1. i = n+1 \/ (i \in 1..n /\ i \in 1..Len(q) /\ i # n+1)
    BY <1>1
  <2> QED BY <2>1, <1>1, <1>4, <1>5 DEF Deleted
<1> HIDE DEF t
<1>9. Deleted(k1, k0, o, q, n+1)
  BY <1>4, <1>6, <1>7, <1>8 DEF Deleted
<1> QED BY <1>9 DEF k1, t

\* f[i] is the state after the first i tasks of s have been released, up to n.
DeletedUpTo(f, k, s, n) ==
    f = [i \in 0..n |-> IF i = 0 THEN k ELSE EndWait(f[i-1], s[i], "E_DLT")]

LEMMA DeletesAll ==
    ASSUME NEW k, NEW s, NEW m \in Nat
    PROVE  \E f : DeletedUpTo(f, k, s, m)
<1> DEFINE Missing == {n \in Nat : ~\E f : DeletedUpTo(f, k, s, n)}
<1> SUFFICES ASSUME Missing # {} PROVE FALSE
  OBVIOUS
<1>1. Missing \subseteq Nat /\ \A n \in Missing : ~\E f : DeletedUpTo(f, k, s, n)
  OBVIOUS
<1>2. \A n \in Nat \ Missing : \E f : DeletedUpTo(f, k, s, n)
  OBVIOUS
<1> HIDE DEF Missing
<1>3. PICK n \in Missing : \A j \in Missing : n <= j
  BY <1>1, LeastElement
<1>4. n \in Nat /\ ~\E f : DeletedUpTo(f, k, s, n)
  BY <1>1, <1>3
<1>5. n # 0
  <2>1. DeletedUpTo([i \in {0} |-> k], k, s, 0)
    BY DEF DeletedUpTo
  <2> QED BY <2>1, <1>4
<1>6. PICK g : DeletedUpTo(g, k, s, n-1)
  BY <1>2, <1>3, <1>4, <1>5
<1> DEFINE f == [i \in 0..n |-> IF i = n THEN EndWait(g[n-1], s[n], "E_DLT") ELSE g[i]]
<1>7. DeletedUpTo(f, k, s, n)
  <2>1. ASSUME NEW i \in 0..n
        PROVE  f[i] = IF i = 0 THEN k ELSE EndWait(f[i-1], s[i], "E_DLT")
    <3>1. CASE i = n
      BY <3>1, <1>4, <1>5
    <3>2. CASE i # n
      <4>1. i \in 0..(n-1) /\ f[i] = g[i] /\ (i # 0 => i - 1 \in 0..n /\ i - 1 # n)
        BY <3>2, <1>4
      <4>2. g[i] = IF i = 0 THEN k ELSE EndWait(g[i-1], s[i], "E_DLT")
        BY <4>1, <1>6 DEF DeletedUpTo
      <4> QED BY <4>1, <4>2
    <3> QED BY <3>1, <3>2
  <2> HIDE DEF f
  <2>2. f = [i \in 0..n |-> f[i]]
    BY DEF f
  <2> QED BY <2>1, <2>2 DEF DeletedUpTo
<1> QED BY <1>4, <1>7

LEMMA WaitDeleteIs ==
    ASSUME NEW k, NEW o, NEW s \in Seq(Task), s = k.que[o]
    PROVE  \E f : DeletedUpTo(f, k, s, Len(s)) /\ WaitDelete(k, o) = f[Len(s)]
<1> DEFINE f == CHOOSE f : DeletedUpTo(f, k, s, Len(s))
<1>1. \E g : DeletedUpTo(g, k, s, Len(s))
  <2>1. Len(s) \in Nat
    OBVIOUS
  <2> QED BY <2>1, DeletesAll
<1>2. DeletedUpTo(f, k, s, Len(s))
  BY <1>1
<1>3. WaitDelete(k, o) = f[Len(s)]
  BY DEF WaitDelete, DeletedUpTo
<1> QED BY <1>2, <1>3

LEMMA WaitDeleteState ==
    ASSUME NEW k, SyncState(k), NEW o \in SyncObject, NEW k1, k1 = WaitDelete(k, o)
    PROVE  SyncState(k1) /\ Releases(k1, k, o) /\ k1.que[o] = <<>>
<1> DEFINE s == k.que[o]
<1>1. /\ s \in Seq(Task) /\ IsInjective(s) /\ Len(s) \in Nat /\ DOMAIN s = 1..Len(s)
      /\ \A i \in DOMAIN s : k.wid[s[i]] = o
      /\ \A u \in Task : k.wid[u] = o => \E i \in DOMAIN s : s[i] = u
      /\ KState(k)
  BY QueueEntries DEF SyncState
<1> HIDE DEF s
<1>2. PICK f : DeletedUpTo(f, k, s, Len(s)) /\ WaitDelete(k, o) = f[Len(s)]
  BY <1>1, WaitDeleteIs DEF s
<1> DEFINE Bad == {n \in 0..Len(s) : ~Deleted(f[n], k, o, s, n)}
<1>3. Deleted(k, k, o, s, 0)
  BY <1>1, ReleasesNone DEF Deleted
<1>4. f[0] = k /\ \A n \in 1..Len(s) : f[n] = EndWait(f[n-1], s[n], "E_DLT")
  <2>1. \A i \in 0..Len(s) : f[i] = IF i = 0 THEN k ELSE EndWait(f[i-1], s[i], "E_DLT")
    BY <1>2 DEF DeletedUpTo
  <2>2. \A n \in 1..Len(s) : n \in 0..Len(s) /\ n # 0
    BY <1>1
  <2> QED BY <2>1, <2>2, <1>1
<1>5. Bad = {}
  <2> SUFFICES ASSUME Bad # {} PROVE FALSE
    OBVIOUS
  <2>1. Bad \in SUBSET Nat
    BY <1>1
  <2>2. PICK n \in Bad : \A j \in Bad : n <= j
    BY <2>1, LeastElement
  <2>3. n \in 0..Len(s) /\ ~Deleted(f[n], k, o, s, n) /\ n # 0
    BY <2>2, <1>3, <1>4
  <2>4. n - 1 \in 0..Len(s)-1 /\ (n - 1) + 1 = n /\ n \in 1..Len(s) /\ n - 1 \in 0..Len(s)
    BY <2>3, <1>1
  <2>5. n - 1 \notin Bad
    BY <2>2, <2>4
  <2>6. Deleted(f[n-1], k, o, s, n-1)
    BY <2>4, <2>5
  <2>7. Deleted(EndWait(f[n-1], s[(n-1)+1], "E_DLT"), k, o, s, (n-1)+1)
    BY <2>4, <2>6, <1>1, NextDeleted
  <2> QED BY <2>3, <2>4, <2>7, <1>4
<1>6. Deleted(k1, k, o, s, Len(s))
  BY <1>1, <1>2, <1>5
<1>7. SyncState(k1) /\ Releases(k1, k, o) /\ KState(k1)
  BY <1>6 DEF Deleted, SyncState
<1>8. ASSUME NEW u \in Task PROVE k1.wid[u] # o
  <2>1. SUFFICES ASSUME k1.wid[u] = o PROVE FALSE
    OBVIOUS
  <2>2. k.wid[u] = o
    BY <2>1, <1>1, <1>7, ReleasesOk
  <2>3. PICK i \in 1..Len(s) : s[i] = u
    BY <2>2, <1>1
  <2> QED BY <2>1, <2>3, <1>6 DEF Deleted
<1> QED BY <1>7, <1>8, EmptyQueue

(***************************************************************************)
(* The hooks.  AllServed(k): no task waits for what is there, and every    *)
(* task that waits is in the queue of an object.                           *)
(***************************************************************************)
AllQueued(k) == \A t \in Task : k.state[t] \in WaitBit => k.wid[t] # NoObj

AllServed(k) == SyncState(k) /\ AllQueued(k) /\ \A o \in SyncObject : ObjectOk(k, o)

\* A task that waits does so for an object, with the hooks of its kind.
LEMMA WaitKinds ==
    ASSUME NEW k, SyncState(k), NEW t \in Task, k.wid[t] # NoObj
    PROVE  LET o == k.wid[t]
           IN  /\ o \in SyncObject /\ k.state[t] \in WaitBit
               /\ o \in SEM => k.wspec[t] = IF ByPriority(k, o) THEN "sem_tpri" ELSE "sem_tfifo"
               /\ o \in FLG => k.wspec[t] = IF ByPriority(k, o) THEN "flg_tpri" ELSE "flg_tfifo"
               /\ o \in MBX => k.wspec[t] = IF ByPriority(k, o) THEN "mbx_tpri" ELSE "mbx_tfifo"
<1>1. WaitOf(k, t) /\ k.state[t] \in WaitBit
  BY DEF SyncState, KState, WaitsOnly
<1>2. k.wid[t] \in SyncObject
  BY <1>1 DEF WaitOf, SyncObject
<1> QED BY <1>1, <1>2, SyncObjectKinds DEF WaitOf

\* sem_rel_wai: units that the tasks behind t can have go to them.
LEMMA SemRelWaiState ==
    ASSUME NEW k, SyncState(k), NEW s \in SEM, "CNT" \in k.sematr[s] => SemOk(k, s),
           NEW k1, k1 = SemRelWai(k, s)
    PROVE  SyncState(k1) /\ Releases(k1, k, s) /\ SemOk(k1, s)
<1>1. CASE "CNT" \in k.sematr[s]
  BY <1>1, ReleasesNone DEF SemRelWai
<1>2. CASE "CNT" \notin k.sematr[s]
  BY <1>2, ServeState DEF SemRelWai, Searched
<1> QED BY <1>1, <1>2

LEMMA SemServed ==
    ASSUME NEW k, KState(k), NEW s \in SEM, NEW k1, SyncState(k1), Releases(k1, k, s), SemOk(k1, s),
           \A o \in SyncObject \ {s} : ObjectOk(k, o)
    PROVE  \A o \in SyncObject : ObjectOk(k1, o)
<1>1. s \in SyncObject /\ s \notin FLG /\ s \notin MBX
  BY SyncObjectKinds DEF SyncObject
<1>2. ObjectOk(k1, s)
  BY <1>1 DEF ObjectOk
<1> QED BY <1>1, <1>2, ReleasesOk

\* The hook of the wait of t, after t has left the queue.
LEMMA RelWaiState ==
    ASSUME NEW k, SyncState(k), \A o \in SyncObject : ObjectOk(k, o),
           NEW t \in Task, k.wid[t] # NoObj, NEW ke, Released(ke, k, t),
           NEW k1, k1 = SyncRelWai(ke, k.wid[t], k.wspec[t])
    PROVE  /\ SyncState(k1) /\ Releases(k1, ke, k.wid[t])
           /\ \A o \in SyncObject : ObjectOk(k1, o)
<1> DEFINE s == k.wid[t]
<1>1. /\ s \in SyncObject
      /\ s \in SEM => k.wspec[t] = IF ByPriority(k, s) THEN "sem_tpri" ELSE "sem_tfifo"
      /\ s \in FLG => k.wspec[t] = IF ByPriority(k, s) THEN "flg_tpri" ELSE "flg_tfifo"
      /\ s \in MBX => k.wspec[t] = IF ByPriority(k, s) THEN "mbx_tpri" ELSE "mbx_tfifo"
  BY WaitKinds
<1>2. /\ SyncState(ke) /\ KState(ke)
      /\ \A o \in SyncObject : (o \in SEM /\ o = s => "CNT" \in k.sematr[o]) => ObjectOk(ke, o)
  BY ReleasedState DEF SyncState
<1> HIDE DEF s
<1>3. CASE s \in SEM
  <2>1. k1 = SemRelWai(ke, s)
    BY <1>1, <1>3 DEF SyncRelWai, SemWSpec, s
  <2>2. ke.sematr = k.sematr
    BY TypesKept DEF Released, Concerns, SyncState, ObjectsSame
  <2>3. "CNT" \in ke.sematr[s] => SemOk(ke, s)
    BY <1>1, <1>2, <1>3, <2>2 DEF ObjectOk
  <2>4. SyncState(k1) /\ Releases(k1, ke, s) /\ SemOk(k1, s)
    BY <1>2, <1>3, <2>1, <2>3, SemRelWaiState
  <2>5. \A o \in SyncObject \ {s} : ObjectOk(ke, o)
    BY <1>2
  <2>6. \A o \in SyncObject : ObjectOk(k1, o)
    BY <1>2, <1>3, <2>4, <2>5, SemServed
  <2> QED BY <2>4, <2>6 DEF s
<1>4. CASE s \notin SEM
  <2>1. k.wspec[t] \notin SemWSpec
    BY <1>1, <1>4 DEF SemWSpec, SyncObject
  <2>2. k1 = ke
    BY <2>1 DEF SyncRelWai
  <2> QED BY <1>2, <1>4, <2>2, ReleasesNone DEF s
<1> QED BY <1>3, <1>4

\* A wait that fails.
LEMMA FailedState ==
    ASSUME SyncHooks, NEW k, AllServed(k), NEW t \in Task, k.state[t] \in WaitBit, NEW ercd
    PROVE  AllServed(ReleaseFailed(k, t, ercd))
<1> DEFINE ke == EndWait(k, t, ercd)
           k1 == SyncRelWai(ke, k.wid[t], k.wspec[t])
<1>1. /\ SyncState(k) /\ k.wid[t] # NoObj /\ \A o \in SyncObject : ObjectOk(k, o)
      /\ AllQueued(k) /\ KState(k)
  BY DEF AllServed, AllQueued, SyncState
<1>2. Released(ke, k, t) /\ ke.state[t] \notin WaitBit
  BY <1>1, EndWaitReleases
<1>3. ReleaseFailed(k, t, ercd) = k1
  BY DEF ReleaseFailed, SyncHooks
<1> HIDE DEF ke
<1>4. SyncState(k1) /\ Releases(k1, ke, k.wid[t]) /\ \A o \in SyncObject : ObjectOk(k1, o)
  BY <1>1, <1>2, RelWaiState
<1> HIDE DEF k1
<1>5. AllQueued(ke) /\ KState(ke)
  BY <1>1, <1>2 DEF AllQueued, Released, Concerns, SameTask
<1>6. AllQueued(k1)
  BY <1>1, <1>4, <1>5, WaitKinds, ReleasesOk DEF AllQueued
<1> QED BY <1>3, <1>4, <1>6 DEF AllServed

\* A task that ends.
LEMMA EndedState ==
    ASSUME SyncHooks, NEW k, AllServed(k), NEW t \in Task, k.state[t] \in Alive,
           NEW k0, k0 = Withdrawn(k, t),
           NEW k1, k1 = IF k.state[t] \in WaitBit THEN RelWaiHook(k0, k.wid[t], k.wspec[t]) ELSE k0,
           NEW k2, k2 = MakeDormant(k1, t)
    PROVE  AllServed(k2)
<1>1. SyncState(k) /\ AllQueued(k) /\ KState(k) /\ \A o \in SyncObject : ObjectOk(k, o)
  BY DEF AllServed, SyncState
<1>2. TakenOut(k0, k, t)
  BY <1>1, DetachState
<1>3. CASE k.state[t] \in WaitBit
  <2>1. k.wid[t] # NoObj /\ k1 = SyncRelWai(k0, k.wid[t], k.wspec[t])
    BY <1>1, <1>3 DEF SyncHooks, AllQueued
  <2>2. Released(k0, k, t) /\ KState(k0) /\ k0.wid[t] = NoObj /\ ~k0.wtmeb[t]
        /\ k0.state[t] = k.state[t]
    BY <1>1, <1>2, <1>3, TakenOutWaiting DEF Released, TakenOut, Concerns
  <2>3. /\ SyncState(k1) /\ Releases(k1, k0, k.wid[t]) /\ KState(k1)
        /\ \A o \in SyncObject : ObjectOk(k1, o)
    BY <1>1, <2>1, <2>2, RelWaiState DEF SyncState
  <2>4. SameTask(k1, k0, t)
    BY <2>1, <2>2, <2>3 DEF Releases
  <2>5. /\ k1.wid[t] = NoObj /\ ~k1.wtmeb[t] /\ k1.state[t] \in WaitBit
    BY <1>3, <2>2, <2>4 DEF SameTask
  <2>6. TakenOut(k1, k1, t)
    <3>1. TaskPlaces(k1)[t] = {}
      BY ONLY <2>3, <2>5, t \in Task, PlaceCases
    <3>2. [TaskPlaces(k1) EXCEPT ![t] = {}] = TaskPlaces(k1)
      BY <3>1 DEF TaskPlaces
    <3>3. \A h \in WaitQ : k1.que[h] = Unlink(k1.que[h], t)
      BY ONLY <2>3, <2>5, t \in Task, NotQueued
    <3>4. Only(k1, k1, TaskField) /\ \A u \in Task : SameTask(k1, k1, u)
      BY DEF Only, SameTask
    <3> QED BY <2>3, <2>5, <3>2, <3>3, <3>4 DEF TakenOut, KState
  <2>7. Dormant(k2, k1, t)
    BY <2>3, <2>6, DormantState
  <2>8. Released(k2, k1, t) /\ k2.state[t] \notin WaitBit /\ NoObj \notin SyncObject
    BY <2>7, ATaskWaits, SyncObjectKinds DEF Dormant, Released
  <2>9. SyncState(k2) /\ \A o \in SyncObject : ObjectOk(k2, o)
    BY ONLY <2>3, <2>5, <2>8, t \in Task, ReleasedState
  <2>10. ASSUME NEW u \in Task, k2.state[u] \in WaitBit PROVE k2.wid[u] # NoObj
    <3>1. u # t /\ SameTask(k2, k1, u)
      BY <2>8, <2>10 DEF Released, Concerns
    <3>2. k1.state[u] \in WaitBit /\ k2.wid[u] = k1.wid[u]
      BY <3>1, <2>10 DEF SameTask
    <3>3. SameTask(k1, k0, u)
      BY <3>2, <2>3 DEF Releases
    <3>4. SameTask(k0, k, u)
      BY <3>1, <2>2 DEF Released, Concerns
    <3> QED BY <1>1, <3>2, <3>3, <3>4 DEF SameTask, AllQueued
  <2> QED BY <2>9, <2>10 DEF AllServed, AllQueued
<1>4. CASE k.state[t] \notin WaitBit
  <2>1. k1 = k0 /\ k.wid[t] = NoObj
    BY <1>1, <1>4 DEF KState, WaitsOnly
  <2>2. Dormant(MakeDormant(k0, t), k, t)
    BY <1>1, <1>2, DormantState
  <2>3. Dormant(k2, k, t)
    BY <2>1, <2>2
  <2>4. Released(k2, k, t) /\ k2.state[t] \notin WaitBit /\ NoObj \notin SyncObject
    BY <2>3, ATaskWaits, SyncObjectKinds DEF Dormant, Released
  <2>5. SyncState(k2) /\ \A o \in SyncObject : ObjectOk(k2, o)
    BY <1>1, <2>1, <2>4, ReleasedState
  <2>6. ASSUME NEW u \in Task, k2.state[u] \in WaitBit PROVE k2.wid[u] # NoObj
    BY <1>1, <2>4, <2>6 DEF Released, Concerns, SameTask, AllQueued
  <2> QED BY <2>5, <2>6 DEF AllServed, AllQueued
<1> QED BY <1>3, <1>4

\* A waiting task has a new priority, and perhaps a new place in its queue.
LEMMA ReorderedState ==
    ASSUME NEW k, SyncState(k), NEW t \in Task, NEW p, k.wid[t] # NoObj,
           NEW k1, Undisturbed(k1, k), k1.priority = [k.priority EXCEPT ![t] = p],
           NEW o, o = k.wid[t],
           \A g \in WaitQ \ {o} : k1.que[g] = k.que[g],
           ByPriority(k, o) /\ Ordered(k.que[o], k.priority) => Ordered(k1.que[o], k1.priority)
    PROVE  /\ SyncState(k1)
           /\ \A h \in SyncObject :
                 /\ ObjectOk(k, h)
                 /\ h = o => k1.que[o] = k.que[o] \/ (o \in SEM => "CNT" \in k.sematr[o])
                 => ObjectOk(k1, h)
           /\ k1.sematr = k.sematr
<1>1. /\ KState(k) /\ SyncTypes(k) /\ QueueOrder(k) /\ OneWaiter(k)
      /\ KState(k1) /\ Only(k1, k, TaskField) /\ o \in SyncObject
  BY WaitKinds DEF SyncState, Undisturbed
<1>2. /\ SyncTypes(k1) /\ \A h : ByPriority(k1, h) <=> ByPriority(k, h)
      /\ \A h : SameObject(k1, k, h) /\ k1.flgatr = k.flgatr /\ k1.sematr = k.sematr
  BY <1>1, TypesKept DEF ObjectsSame
<1>3. \A u \in Task : k1.wid[u] = k.wid[u] /\ k1.winfo[u] = k.winfo[u]
  BY DEF Undisturbed, Kept
<1>4. ASSUME NEW u \in Task PROVE WaitOf(k1, u)
  <2>1. k.wid[u] # NoObj => k1.wspec[u] = k.wspec[u]
    BY <1>1 DEF Undisturbed, Kept, KState, WaitsOnly
  <2> QED BY <1>1, <1>3, <2>1, WaitKept
<1>5. ASSUME NEW h \in SyncObject \ {o} PROVE k1.que[h] = k.que[h]
  BY <1>5, SyncObjectKinds
<1>6. ASSUME NEW h \in SyncObject, ByPriority(k1, h) PROVE Ordered(k1.que[h], k1.priority)
  <2>1. Ordered(k.que[h], k.priority)
    BY <1>1, <1>2, <1>6 DEF QueueOrder
  <2>2. CASE h = o
    BY <2>1, <2>2, <1>2, <1>6
  <2>3. CASE h # o
    <3>1. \A i \in DOMAIN k.que[h] : k.que[h][i] \in Task \ {t}
      BY <2>3, <1>1, QueueEntries
    <3>2. \A u \in Task \ {t} : k1.priority[u] = k.priority[u]
      <4>1. DOMAIN k.priority = Task
        BY <1>1, StateFacts DEF Kernel
      <4> QED BY <4>1
    <3> QED BY <1>5, <2>1, <2>3, <3>1, <3>2 DEF Ordered
  <2> QED BY <2>2, <2>3
<1>7. QueueOrder(k1) /\ OneWaiter(k1)
  BY <1>1, <1>2, <1>3, <1>6 DEF QueueOrder, OneWaiter
<1>8. ASSUME NEW h \in SyncObject, ObjectOk(k, h),
             h = o => k1.que[o] = k.que[o] \/ (o \in SEM => "CNT" \in k.sematr[o])
      PROVE  ObjectOk(k1, h)
  <2>1. CASE k1.que[h] = k.que[h]
    <3>1. SameQueue(k1, k, h)
      BY <1>3, <2>1 DEF SameQueue
    <3> QED BY <1>1, <1>2, <1>8, <3>1, OkSame
  <2>2. CASE k1.que[h] # k.que[h]
    <3>1. h \in SEM => "CNT" \in k.sematr[h]
      BY <2>2, <1>5, <1>8
    <3> QED BY <1>1, <1>2, <1>3, <1>8, <3>1, OkFewer
  <2> QED BY <2>1, <2>2
<1> QED BY <1>1, <1>2, <1>4, <1>7, <1>8 DEF SyncState

\* Without an order of priorities a task keeps its place.
LEMMA KeepsPlaceState ==
    ASSUME NEW k, KState(k), NEW t \in Task, k.state[t] \in WaitBit, NEW p \in Pri,
           NEW k1, Reprioritized(k1, k, t, p, k.que)
    PROVE  Undisturbed(k1, k)
<1> DEFINE r == TaskPlaces(k)
<1>1. Steady(k, r) /\ k.que \in Rings /\ r \in Places /\ Linked(k.que, r)
  BY StateFacts DEF Steady, Ready, Kernel
<1>2. r[t] \cap Pri = {} /\ k.state[t] # "READY"
  BY ATaskWaits, PlaceCases
<1> HIDE DEF r
<1>3. Steady(k1, r)
  BY <1>1, <1>2, NewPriority
<1> QED BY <1>2, <1>3, PriorityState DEF r

\* The hook of the wait of t, when t has been given priority p.
LEMMA ChgPriState ==
    ASSUME NEW k, AllServed(k), NEW t \in Task, k.state[t] \in WaitBit, NEW p \in Pri
    PROVE  AllServed(SyncChgPri([k EXCEPT !.priority[t] = p], t))
<1> DEFINE k0 == [k EXCEPT !.priority[t] = p]
           k2 == GcbChangePri(k0, t, k0.wid[t])
           k1 == SyncChgPri(k0, t)
           s == k.wid[t]
<1>1. /\ SyncState(k) /\ AllQueued(k) /\ KState(k) /\ s # NoObj
      /\ \A o \in SyncObject : ObjectOk(k, o)
  BY DEF AllServed, SyncState, AllQueued
<1>2. /\ s \in SyncObject
      /\ s \in SEM => k.wspec[t] = IF ByPriority(k, s) THEN "sem_tpri" ELSE "sem_tfifo"
      /\ s \in FLG => k.wspec[t] = IF ByPriority(k, s) THEN "flg_tpri" ELSE "flg_tfifo"
      /\ s \in MBX => k.wspec[t] = IF ByPriority(k, s) THEN "mbx_tpri" ELSE "mbx_tfifo"
  BY <1>1, WaitKinds
<1>3. k0.wid = k.wid /\ Undisturbed(k2, k) /\ Reordered(k2, k, t, p, s)
  BY <1>1, WaiterPriorityState
<1>4. k0.wspec = k.wspec
  OBVIOUS
<1>5. Reprioritized(k0, k, t, p, k.que)
  <2>1. TaskField \subseteq DOMAIN k
    BY <1>1, StateFacts DEF TaskField
  <2> QED BY <2>1 DEF Reprioritized, Only, TaskField, KernelField
<1> SUFFICES AllServed(k1)
  OBVIOUS
<1> HIDE DEF s, k2
<1>6. CASE ByPriority(k, s)
  <2>1. /\ SyncState(k2) /\ k2.sematr = k.sematr
        /\ \A h \in SyncObject :
              (h = s => k2.que[s] = k.que[s] \/ (s \in SEM => "CNT" \in k.sematr[s])) => ObjectOk(k2, h)
    BY <1>1, <1>3, ReorderedState DEF Reordered, s
  <2>2. KState(k2) /\ AllQueued(k2)
    BY <1>1, <1>3 DEF Undisturbed, Kept, AllQueued
  <2>3. CASE s \in SEM
    <3>1. k0.wspec[t] = "sem_tpri"
      BY <2>3, <1>2, <1>4, <1>6
    <3>2. k1 = SemRelWai(k2, s)
      BY <3>1, <1>3 DEF SyncChgPri, SemChgPri, s, k2
    <3> HIDE DEF k1, k0
    <3>3. "CNT" \in k2.sematr[s] => SemOk(k2, s)
      BY <2>1, <2>3, <1>2 DEF ObjectOk
    <3>4. SyncState(k1) /\ Releases(k1, k2, s) /\ SemOk(k1, s)
      BY <2>1, <2>3, <3>2, <3>3, SemRelWaiState
    <3>5. \A o \in SyncObject : ObjectOk(k1, o)
      BY <2>1, <2>2, <2>3, <3>4, SemServed
    <3>6. AllQueued(k1)
      BY <1>2, <2>2, <3>4, ReleasesOk DEF AllQueued
    <3> QED BY <3>4, <3>5, <3>6 DEF AllServed
  <2>4. CASE s \notin SEM
    <3>1. k0.wspec[t] \in {"flg_tpri", "mbx_tpri"}
      BY <2>4, <1>2, <1>4, <1>6 DEF SyncObject
    <3>2. k1 = k2
      BY <3>1 DEF SyncChgPri, FlgChgPri, MbxChgPri, k2
    <3> QED BY <2>1, <2>2, <2>4, <3>2 DEF AllServed
  <2> QED BY <2>3, <2>4
<1>7. CASE ~ByPriority(k, s)
  <2>1. k0.wspec[t] \in {"sem_tfifo", "flg_tfifo", "mbx_tfifo"}
    BY <1>2, <1>4, <1>7 DEF SyncObject
  <2>2. k1 = k0
    BY <2>1 DEF SyncChgPri
  <2>3. Undisturbed(k0, k)
    BY <1>1, <1>5, KeepsPlaceState
  <2>4. k0.que = k.que /\ k0.priority = [k.priority EXCEPT ![t] = p]
    BY <1>5 DEF Reprioritized
  <2> HIDE DEF k0, k1
  <2>5. SyncState(k0) /\ \A h \in SyncObject : ObjectOk(k0, h)
    BY <1>1, <1>7, <2>3, <2>4, ReorderedState DEF s
  <2>6. AllQueued(k0)
    BY <1>1, <2>3 DEF Undisturbed, Kept, AllQueued
  <2> QED BY <2>2, <2>5, <2>6 DEF AllServed
<1> QED BY <1>6, <1>7

(***************************************************************************)
(* A wait for an object begins.                                            *)
(***************************************************************************)
\* wspec and info are those of a wait for object o, which has room for it.
Joins(k, o, wspec, info) ==
    LET Kind(tpri, tfifo) == wspec = IF ByPriority(k, o) THEN tpri ELSE tfifo
    IN  \/ o \in SEM /\ k.semid[o] /\ info \in 1..k.maxsem[o] /\ Kind("sem_tpri", "sem_tfifo")
        \/ /\ o \in FLG /\ k.flgid[o] /\ info \in FlgWait /\ Kind("flg_tpri", "flg_tfifo")
           /\ "WMUL" \in k.flgatr[o] \/ k.que[o] = <<>>
        \/ o \in MBX /\ k.mbxid[o] /\ Kind("mbx_tpri", "mbx_tfifo")

\* Task t has joined the tasks that wait for o.
Joined(k1, k, t, o, info) ==
    /\ SyncState(k1) /\ AllQueued(k1) /\ SameObject(k1, k, o)
    /\ \A h \in SyncObject \ {o} : ObjectOk(k1, h)
    /\ k1.wid[t] = o /\ k1.winfo[t] = info
    /\ \A u \in Task \ {t} : k1.wid[u] = k.wid[u] /\ k1.winfo[u] = k.winfo[u]
    /\ k1.priority = k.priority

LEMMA BegunState ==
    ASSUME NEW k, AllServed(k), NEW t \in Task, k.state[t] = "READY", NEW o \in SyncObject,
           NEW tpri, tpri <=> ByPriority(k, o), NEW wspec, NEW info, NEW tmout,
           Joins(k, o, wspec, info),
           NEW k1, k1 = GcbMakeWait(k, t, o, o, tpri, wspec, info, tmout)
    PROVE  Joined(k1, k, t, o, info) /\ QueueJoined(k1, k, t, o, tpri)
<1>1. /\ SyncState(k) /\ AllQueued(k) /\ \A h \in SyncObject : ObjectOk(k, h)
      /\ KState(k) /\ SyncTypes(k) /\ QueueOrder(k) /\ OneWaiter(k)
  BY DEF AllServed, SyncState
<1>2. wspec \in WSpec /\ o \in WaitQ /\ o # NoObj
  BY SyncObjectKinds DEF Joins, WSpec
<1>3. WaitBegun(k1, k, t, o, wspec, info) /\ QueueJoined(k1, k, t, o, tpri)
  BY <1>1, <1>2, GcbMakeWaitState
<1>4. /\ KState(k1) /\ Only(k1, k, TaskField) /\ \A u \in Task \ {t} : SameTask(k1, k, u)
      /\ k1.state[t] \in WaitBit /\ k1.wid[t] = o /\ k1.wspec[t] = wspec /\ k1.winfo[t] = info
      /\ k1.priority = k.priority /\ \A h \in SyncObject \ {o} : k1.que[h] = k.que[h]
  BY <1>3, SyncObjectKinds DEF WaitBegun, Concerns, QueueJoined, WaitBit
<1>5. /\ SyncTypes(k1) /\ ObjectsSame(k1, k) /\ \A h : ByPriority(k1, h) <=> ByPriority(k, h)
      /\ \A h : SameObject(k1, k, h) /\ k1.flgatr = k.flgatr
  BY <1>1, <1>4, TypesKept
<1>6. ASSUME NEW u \in Task PROVE WaitOf(k1, u)
  <2>1. CASE u = t
    BY <2>1, <1>4, <1>5 DEF WaitOf, Joins, ObjectsSame
  <2>2. CASE u # t
    BY <2>2, <1>1, <1>4, WaitKept DEF SameTask
  <2> QED BY <2>1, <2>2
<1>7. ASSUME NEW h \in SyncObject, ByPriority(k1, h) PROVE Ordered(k1.que[h], k1.priority)
  <2>1. Ordered(k.que[h], k.priority)
    BY <1>1, <1>5, <1>7 DEF QueueOrder
  <2> QED BY <2>1, <1>3, <1>4, <1>5, <1>7 DEF QueueJoined
<1>8. ASSUME NEW f \in FLG, "WMUL" \notin k1.flgatr[f], NEW u \in Task, NEW v \in Task,
             k1.wid[u] = f, k1.wid[v] = f
      PROVE  u = v
  <2>1. f \in SyncObject /\ f \notin SEM /\ f \notin MBX
    BY SyncObjectKinds DEF SyncObject
  <2>2. CASE f = o
    <3>1. k.que[f] = <<>>
      BY <2>1, <2>2, <1>5, <1>8 DEF Joins
    <3>2. \A w \in Task : k.wid[w] # f
      BY <2>1, <3>1, <1>1, EmptyQueue
    <3> QED BY <3>2, <1>4, <1>8 DEF SameTask
  <2>3. CASE f # o
    <3>1. u # t /\ v # t
      BY <2>3, <1>4, <1>8
    <3> QED BY <3>1, <1>1, <1>4, <1>5, <1>8 DEF SameTask, OneWaiter
  <2> QED BY <2>2, <2>3
<1>9. ASSUME NEW h \in SyncObject \ {o} PROVE ObjectOk(k1, h)
  <2>1. k.wid[t] = NoObj /\ h # NoObj
    BY <1>1, SyncObjectKinds, ATaskWaits DEF KState, WaitsOnly
  <2>2. SameQueue(k1, k, h)
    BY <2>1, <1>4 DEF SameQueue, SameTask
  <2> QED BY <2>2, <1>1, <1>5, OkSame
<1>10. AllQueued(k1)
  BY <1>1, <1>2, <1>4 DEF AllQueued, SameTask
<1>11. SyncState(k1)
  BY <1>4, <1>5, <1>6, <1>7, <1>8 DEF SyncState, QueueOrder, OneWaiter
<1>12. \A u \in Task \ {t} : k1.wid[u] = k.wid[u] /\ k1.winfo[u] = k.winfo[u]
  BY <1>4 DEF SameTask
<1> QED BY <1>3, <1>4, <1>5, <1>9, <1>10, <1>11, <1>12 DEF Joined

LEMMA JoinedServed ==
    ASSUME NEW k, NEW k1, NEW t, NEW o \in SyncObject, NEW info, Joined(k1, k, t, o, info),
           ObjectOk(k1, o)
    PROVE  AllServed(k1)
  BY DEF Joined, AllServed

\* The first task of the queue needs more than there is, when the new one
\* would have been the first and does, or the first one is as before.
LEMMA SemJoinedServed ==
    ASSUME NEW k, AllServed(k), NEW t \in Task, k.state[t] = "READY", NEW s \in SEM, NEW cnt \in Nat,
           NEW tpri, tpri <=> ByPriority(k, s),
           NEW k1, Joined(k1, k, t, s, cnt), QueueJoined(k1, k, t, s, tpri),
           ("CNT" \in k.sematr[s] \/ IsTop(k, t, s, tpri)) => k.semcnt[s] < cnt
    PROVE  AllServed(k1)
<1>1. /\ s \in SyncObject /\ s # NoObj /\ KState(k) /\ KState(k1)
      /\ k1.semcnt[s] = k.semcnt[s] /\ k1.sematr[s] = k.sematr[s] /\ k1.priority = k.priority
      /\ k.semcnt[s] \in Nat /\ SemOk(k, s) /\ QueueOrder(k) /\ k.wid[t] = NoObj
  BY SyncObjectKinds, ATaskWaits
  DEF SyncObject, AllServed, SyncState, SyncTypes, SemTypes, Joined, SameObject, ObjectOk, KState, WaitsOnly
<1> DEFINE q == k.que[s]  r == k1.que[s]
<1>2. /\ DOMAIN q = 1..Len(q) /\ Len(q) \in Nat
      /\ \A i \in DOMAIN q : q[i] \in Task /\ k.wid[q[i]] = s
      /\ \A u \in Task : k.wid[u] = s => \E i \in DOMAIN q : q[i] = u
  BY <1>1, QueueEntries
<1>3. /\ DOMAIN r = 1..Len(r) /\ Len(r) \in Nat /\ IsInjective(r)
      /\ \A i \in DOMAIN r : r[i] \in Task /\ k1.wid[r[i]] = s
      /\ \A u \in Task : k1.wid[u] = s => \E i \in DOMAIN r : r[i] = u
  BY <1>1, QueueEntries
<1>4. ASSUME NEW i \in DOMAIN r, r[i] # t
      PROVE  \E j \in DOMAIN q : q[j] = r[i] /\ k1.winfo[r[i]] = k.winfo[q[j]]
  <2>1. r[i] \in Task \ {t} /\ k1.wid[r[i]] = s
    BY <1>3, <1>4
  <2>2. k.wid[r[i]] = s /\ k1.winfo[r[i]] = k.winfo[r[i]]
    BY <2>1 DEF Joined
  <2> HIDE DEF q, r
  <2>3. PICK j \in DOMAIN q : q[j] = r[i]
    BY <1>2, <2>1, <2>2
  <2> QED BY <2>2, <2>3
<1>5. Head(r) = r[1] /\ (q # <<>> => Head(q) = q[1] /\ 1 \in DOMAIN q)
  BY <1>2
<1>6. \A u \in Task : k.priority[u] \in Nat
  <2>1. k.priority \in [Task -> Pri] /\ Pri \subseteq Nat
    BY <1>1, StateFacts, PriIsNatural DEF Kernel
  <2> QED BY <2>1
<1>7. k1.winfo[t] = cnt
  BY DEF Joined
<1>8. ASSUME NEW i \in DOMAIN r, i = 1 \/ "CNT" \in k1.sematr[s]
      PROVE  k1.winfo[r[i]] > k1.semcnt[s]
  <2>1. CASE "CNT" \in k.sematr[s]
    <3>1. CASE r[i] = t
      BY <2>1, <3>1, <1>1, <1>7
    <3>2. CASE r[i] # t
      <4>1. PICK j \in DOMAIN q : k1.winfo[r[i]] = k.winfo[q[j]]
        BY <3>2, <1>4
      <4> QED BY <2>1, <4>1, <1>1 DEF SemOk
    <3> QED BY <3>1, <3>2
  <2>2. CASE "CNT" \notin k.sematr[s]
    <3>1. i = 1
      BY <2>2, <1>1, <1>8
    <3>2. CASE r[1] = t
      <4>1. CASE IsTop(k, t, s, tpri)
        BY <3>1, <3>2, <4>1, <1>1, <1>7
      <4>2. CASE ~IsTop(k, t, s, tpri)
        <5>1. q # <<>> /\ (tpri => ~(k.priority[t] < k.priority[Head(q)]))
          BY <4>2 DEF IsTop
        <5>2. Head(r) = Head(q)
          BY <5>1 DEF QueueJoined
        <5>3. q[1] = t
          BY <3>2, <5>1, <5>2, <1>5
        <5> QED BY <5>1, <5>3, <1>1, <1>2, <1>5
      <4> QED BY <4>1, <4>2
    <3>3. CASE r[1] # t
      <4>1. PICK j \in DOMAIN q : q[j] = r[1] /\ k1.winfo[r[1]] = k.winfo[q[j]]
        BY <3>1, <3>3, <1>4
      <4>2. q # <<>> /\ 1 \in DOMAIN q
        BY <4>1, <1>2
      <4>3. q[1] = r[1]
        <5>1. CASE tpri /\ k.priority[t] < k.priority[q[1]]
          <6>1. Ordered(q, k.priority)
            BY <5>1, <1>1 DEF QueueOrder
          <6>2. Ordered(r, k.priority)
            BY <5>1, <6>1 DEF QueueJoined
          <6>3. PICK m \in DOMAIN r : r[m] = t
            BY <1>3 DEF Joined
          <6>4. 1 \in DOMAIN r /\ m # 1 /\ 1 < m
            BY <3>1, <3>3, <6>3, <1>3
          <6>5. k.priority[r[1]] <= k.priority[t]
            BY <6>2, <6>3, <6>4 DEF Ordered
          <6>6. k.priority[q[1]] <= k.priority[q[j]]
            <7>1. j = 1 \/ 1 < j
              BY <4>1, <1>2
            <7>2. k.priority[q[1]] <= k.priority[q[1]]
              BY <1>6, <4>2, <1>2
            <7> QED BY <7>1, <7>2, <4>1, <4>2, <6>1 DEF Ordered
          <6>7. k.priority[q[1]] \in Nat /\ k.priority[r[1]] \in Nat /\ k.priority[t] \in Nat
            BY <4>2, <6>4, <1>6, <1>2, <1>3
          <6>8. k.priority[t] < k.priority[q[1]] /\ k.priority[q[1]] <= k.priority[r[1]]
            BY <5>1, <6>6, <4>1
          <6> HIDE DEF q, r
          <6> QED BY <6>5, <6>7, <6>8
        <5>2. CASE ~(tpri /\ k.priority[t] < k.priority[q[1]])
          <6>1. tpri => ~(k.priority[t] < k.priority[Head(q)])
            BY <5>2, <4>2, <1>5
          <6>2. Head(r) = Head(q)
            BY <6>1, <4>2 DEF QueueJoined
          <6> QED BY <6>2, <4>2, <1>5
        <5> QED BY <5>1, <5>2
      <4>4. k.winfo[q[1]] > k.semcnt[s]
        BY <4>2, <1>1 DEF SemOk
      <4>5. k.winfo[q[j]] = k.winfo[q[1]]
        BY <4>1, <4>3
      <4> QED BY <3>1, <4>1, <4>4, <4>5, <1>1
    <3> QED BY <3>2, <3>3
  <2> QED BY <2>1, <2>2
<1>9. SemOk(k1, s) /\ s \notin FLG /\ s \notin MBX
  BY <1>1, <1>8, SyncObjectKinds DEF SemOk
<1> QED BY <1>1, <1>9, JoinedServed DEF ObjectOk

(***************************************************************************)
(* The calls on semaphores, event flags and mailboxes.                     *)
(***************************************************************************)
\* The fields of object o change: nobody waits for it, or nobody waits for
\* what is there then.
LEMMA FieldServed ==
    ASSUME NEW k, AllServed(k), NEW k1, Only(k1, k, SyncField), SyncTypes(k1),
           NEW o \in SyncObject,
           \A h \in SyncObject \ {o} : SameKind(k1, k, h) /\ SameObject(k1, k, h),
           k.que[o] = <<>> \/ (SameKind(k1, k, o) /\ ObjectOk(k1, o))
    PROVE  AllServed(k1)
<1>1. SyncState(k) /\ AllQueued(k) /\ KState(k) /\ \A h \in SyncObject : ObjectOk(k, h)
  BY DEF AllServed, SyncState
<1>2. /\ SyncState(k1) /\ KState(k1) /\ \A f \in TaskField : k1[f] = k[f]
      /\ \A h \in SyncObject : SameObject(k1, k, h) => ObjectOk(k1, h)
  BY <1>1, ObjectState DEF SyncState
<1>3. k1.state = k.state /\ k1.wid = k.wid /\ k1.que = k.que
  BY <1>2 DEF TaskField, KernelField, WaitField
<1>4. ObjectOk(k1, o)
  BY <1>2, <1>3, EmptyQueue
<1> QED BY <1>1, <1>2, <1>3, <1>4 DEF AllServed, AllQueued

\* tk_cre_sem, and tk_del_sem when nobody waits any more.
LEMMA NewSem ==
    ASSUME NEW k, AllServed(k), NEW s \in SEM, k.que[s] = <<>>,
           NEW id \in BOOLEAN, NEW atr \in SUBSET SemAtr, NEW m \in 0..SemCntMax, NEW n \in 0..m,
           NEW k1, k1 = [k EXCEPT !.semid[s] = id, !.sematr[s] = atr,
                                  !.semcnt[s] = n, !.maxsem[s] = m]
    PROVE  AllServed(k1)
<1>1. SyncTypes(k) /\ s \in SyncObject
  BY DEF AllServed, SyncState, SyncObject
<1>2. /\ Only(k1, k, {"semid", "sematr", "semcnt", "maxsem"}) /\ SyncField \subseteq DOMAIN k1
      /\ k1.semid = [k.semid EXCEPT ![s] = id] /\ k1.sematr = [k.sematr EXCEPT ![s] = atr]
      /\ k1.semcnt = [k.semcnt EXCEPT ![s] = n] /\ k1.maxsem = [k.maxsem EXCEPT ![s] = m]
      /\ k1.flgid = k.flgid /\ k1.flgatr = k.flgatr /\ k1.flgptn = k.flgptn
      /\ k1.mbxid = k.mbxid /\ k1.mbxatr = k.mbxatr /\ k1.mqhead = k.mqhead
      /\ k1.mqtail = k.mqtail /\ k1.nextmsg = k.nextmsg /\ k1.msgs = k.msgs
  BY <1>1 DEF SyncTypes, SyncField, Only
<1>3. SemTypes(k) /\ FlgTypes(k) /\ MbxTypes(k)
  BY <1>1 DEF SyncTypes
<1>4. n \in Nat
  OBVIOUS
<1>5. SemTypes(k1)
  BY ONLY <1>2, <1>3, <1>4, s \in SEM, id \in BOOLEAN, atr \in SUBSET SemAtr, m \in 0..SemCntMax, n \in 0..m
  DEF SemTypes
<1>6. SyncTypes(k1)
  BY <1>2, <1>3, <1>5 DEF SyncTypes, FlgTypes, MbxTypes
<1>7. ASSUME NEW h \in SyncObject \ {s} PROVE SameKind(k1, k, h) /\ SameObject(k1, k, h)
  BY <1>2, <1>3 DEF SameKind, SameObject, SemTypes
<1>8. Only(k1, k, SyncField)
  BY <1>2 DEF Only, SyncField
<1>9. \A h \in SyncObject \ {s} : SameKind(k1, k, h) /\ SameObject(k1, k, h)
  BY ONLY <1>7
<1>10. k.que[s] = <<>> \/ (SameKind(k1, k, s) /\ ObjectOk(k1, s))
  OBVIOUS
<1> QED BY ONLY AllServed(k), <1>1, <1>6, <1>8, <1>9, <1>10, FieldServed

\* tk_cre_flg, and tk_del_flg when nobody waits any more.
LEMMA NewFlg ==
    ASSUME NEW k, AllServed(k), NEW f \in FLG, k.que[f] = <<>>,
           NEW id \in BOOLEAN, NEW atr \in SUBSET FlgAtr, NEW ptn \in Pattern,
           NEW k1, k1 = [k EXCEPT !.flgid[f] = id, !.flgatr[f] = atr, !.flgptn[f] = ptn]
    PROVE  AllServed(k1)
<1>1. SyncTypes(k) /\ f \in SyncObject
  BY DEF AllServed, SyncState, SyncObject
<1>2. /\ Only(k1, k, {"flgid", "flgatr", "flgptn"}) /\ SyncField \subseteq DOMAIN k1
      /\ k1.flgid = [k.flgid EXCEPT ![f] = id] /\ k1.flgatr = [k.flgatr EXCEPT ![f] = atr]
      /\ k1.flgptn = [k.flgptn EXCEPT ![f] = ptn]
      /\ k1.semid = k.semid /\ k1.sematr = k.sematr /\ k1.maxsem = k.maxsem /\ k1.semcnt = k.semcnt
      /\ k1.mbxid = k.mbxid /\ k1.mbxatr = k.mbxatr /\ k1.mqhead = k.mqhead
      /\ k1.mqtail = k.mqtail /\ k1.nextmsg = k.nextmsg /\ k1.msgs = k.msgs
  BY <1>1 DEF SyncTypes, SyncField, Only
<1>3. SemTypes(k) /\ FlgTypes(k) /\ MbxTypes(k)
  BY <1>1 DEF SyncTypes
<1>4. SyncTypes(k1)
  BY <1>2, <1>3 DEF SyncTypes, SemTypes, FlgTypes, MbxTypes
<1>5. ASSUME NEW h \in SyncObject \ {f} PROVE SameKind(k1, k, h) /\ SameObject(k1, k, h)
  BY <1>2, <1>3 DEF SameKind, SameObject, FlgTypes
<1>6. Only(k1, k, SyncField)
  BY <1>2 DEF Only, SyncField
<1>7. \A h \in SyncObject \ {f} : SameKind(k1, k, h) /\ SameObject(k1, k, h)
  BY ONLY <1>5
<1>8. k.que[f] = <<>> \/ (SameKind(k1, k, f) /\ ObjectOk(k1, f))
  OBVIOUS
<1> QED BY ONLY AllServed(k), <1>1, <1>4, <1>6, <1>7, <1>8, FieldServed

\* Mailbox x and the messages have changed.
MbxChange(k1, k, x, id, atr) ==
    /\ Only(k1, k, {"mbxid", "mbxatr", "mqhead", "mqtail", "nextmsg", "msgs"})
    /\ k1.mbxid = [k.mbxid EXCEPT ![x] = id] /\ k1.mbxatr = [k.mbxatr EXCEPT ![x] = atr]
    /\ DOMAIN k1.mqhead = DOMAIN k.mqhead
    /\ \A y \in MBX \ {x} : k1.mqhead[y] = k.mqhead[y]
    /\ MsgState(k1.mbxid, k1.mbxatr, k1.mqhead, k1.mqtail, k1.nextmsg, k1.msgs)

\* tk_cre_mbx, and tk_del_mbx when nobody waits any more.
LEMMA NewMbx ==
    ASSUME NEW k, AllServed(k), NEW x \in MBX, k.que[x] = <<>>,
           NEW id \in BOOLEAN, NEW atr \in SUBSET MbxAtr, NEW k1, MbxChange(k1, k, x, id, atr)
    PROVE  AllServed(k1)
<1>1. SyncTypes(k) /\ x \in SyncObject
  BY DEF AllServed, SyncState, SyncObject
<1>2. /\ SyncField \subseteq DOMAIN k1
      /\ k1.semid = k.semid /\ k1.sematr = k.sematr /\ k1.maxsem = k.maxsem /\ k1.semcnt = k.semcnt
      /\ k1.flgid = k.flgid /\ k1.flgatr = k.flgatr /\ k1.flgptn = k.flgptn
  BY <1>1 DEF SyncTypes, SyncField, Only, MbxChange
<1>3. SemTypes(k) /\ FlgTypes(k) /\ MbxTypes(k)
  BY <1>1 DEF SyncTypes
<1>4. SyncTypes(k1)
  BY <1>2, <1>3 DEF SyncTypes, SemTypes, FlgTypes, MbxTypes, MbxChange
<1>5. ASSUME NEW h \in SyncObject \ {x} PROVE SameKind(k1, k, h) /\ SameObject(k1, k, h)
  BY <1>2, <1>3 DEF SameKind, SameObject, MbxTypes, MbxChange
<1>6. Only(k1, k, SyncField)
  BY DEF Only, SyncField, MbxChange
<1>7. \A h \in SyncObject \ {x} : SameKind(k1, k, h) /\ SameObject(k1, k, h)
  BY ONLY <1>5
<1>8. k.que[x] = <<>> \/ (SameKind(k1, k, x) /\ ObjectOk(k1, x))
  OBVIOUS
<1> QED BY ONLY AllServed(k), <1>1, <1>4, <1>6, <1>7, <1>8, FieldServed

\* The count of a semaphore or the pattern of an event flag o has changed.
Changed(k1, k, o) ==
    /\ SyncState(k1)
    /\ \A f \in TaskField : k1[f] = k[f]
    /\ \A h \in SyncObject : SameKind(k1, k, h)
    /\ \A h \in SyncObject \ {o} : ObjectOk(k, h) => ObjectOk(k1, h)

LEMMA CountState ==
    ASSUME NEW k, SyncState(k), NEW s \in SEM, NEW n \in 0..k.maxsem[s],
           NEW k1, k1 = [k EXCEPT !.semcnt[s] = n]
    PROVE  Changed(k1, k, s) /\ k1.semcnt[s] = n
<1>1. SyncTypes(k) /\ s \in SyncObject
  BY DEF SyncState, SyncObject
<1>2. /\ Only(k1, k, {"semcnt"}) /\ SyncField \subseteq DOMAIN k1
      /\ k1.semcnt = [k.semcnt EXCEPT ![s] = n]
      /\ k1.semid = k.semid /\ k1.sematr = k.sematr /\ k1.maxsem = k.maxsem
      /\ k1.flgid = k.flgid /\ k1.flgatr = k.flgatr /\ k1.flgptn = k.flgptn
      /\ k1.mbxid = k.mbxid /\ k1.mbxatr = k.mbxatr /\ k1.mqhead = k.mqhead
      /\ k1.mqtail = k.mqtail /\ k1.nextmsg = k.nextmsg /\ k1.msgs = k.msgs
  BY <1>1 DEF SyncTypes, SyncField, Only
<1>3. SemTypes(k) /\ FlgTypes(k) /\ MbxTypes(k)
  BY <1>1 DEF SyncTypes
<1>4. /\ k1.semcnt \in [SEM -> Nat] /\ \A h \in SEM : k1.semcnt[h] \in 0..k.maxsem[h]
      /\ k1.semcnt[s] = n
  <2>1. /\ k.semcnt \in [SEM -> Nat] /\ k.maxsem \in [SEM -> 0..SemCntMax]
        /\ \A h \in SEM : k.semcnt[h] \in 0..k.maxsem[h]
    BY <1>3 DEF SemTypes
  <2> QED BY ONLY <1>2, <2>1, s \in SEM, n \in 0..k.maxsem[s], CountsKept
<1>5. SyncTypes(k1)
  BY <1>2, <1>3, <1>4 DEF SyncTypes, SemTypes, FlgTypes, MbxTypes
<1>6. \A h \in SyncObject : SameKind(k1, k, h)
  BY <1>2 DEF SameKind
<1>7. Only(k1, k, SyncField)
  BY <1>2 DEF Only, SyncField
<1>8. \A h \in SyncObject \ {s} : SameObject(k1, k, h)
  BY <1>2, <1>3 DEF SameObject, SemTypes
<1>9. /\ SyncState(k1) /\ \A f \in TaskField : k1[f] = k[f]
      /\ \A h \in SyncObject : SameObject(k1, k, h) /\ ObjectOk(k, h) => ObjectOk(k1, h)
  BY <1>5, <1>6, <1>7, ObjectState
<1> QED BY <1>4, <1>6, <1>8, <1>9 DEF Changed

LEMMA PatternState ==
    ASSUME NEW k, SyncState(k), NEW f \in FLG, NEW ptn \in Pattern,
           NEW k1, k1 = [k EXCEPT !.flgptn[f] = ptn]
    PROVE  Changed(k1, k, f) /\ k1.flgptn[f] = ptn
<1>1. SyncTypes(k) /\ f \in SyncObject
  BY DEF SyncState, SyncObject
<1>2. /\ Only(k1, k, {"flgptn"}) /\ SyncField \subseteq DOMAIN k1
      /\ k1.flgptn = [k.flgptn EXCEPT ![f] = ptn]
      /\ k1.semid = k.semid /\ k1.sematr = k.sematr /\ k1.maxsem = k.maxsem /\ k1.semcnt = k.semcnt
      /\ k1.flgid = k.flgid /\ k1.flgatr = k.flgatr
      /\ k1.mbxid = k.mbxid /\ k1.mbxatr = k.mbxatr /\ k1.mqhead = k.mqhead
      /\ k1.mqtail = k.mqtail /\ k1.nextmsg = k.nextmsg /\ k1.msgs = k.msgs
  BY <1>1 DEF SyncTypes, SyncField, Only
<1>3. SemTypes(k) /\ FlgTypes(k) /\ MbxTypes(k)
  BY <1>1 DEF SyncTypes
<1>4. SyncTypes(k1) /\ k1.flgptn[f] = ptn
  BY <1>2, <1>3 DEF SyncTypes, SemTypes, FlgTypes, MbxTypes
<1>5. \A h \in SyncObject : SameKind(k1, k, h)
  BY <1>2 DEF SameKind
<1>6. Only(k1, k, SyncField)
  BY <1>2 DEF Only, SyncField
<1>7. \A h \in SyncObject \ {f} : SameObject(k1, k, h)
  BY <1>2, <1>3 DEF SameObject, FlgTypes
<1>8. /\ SyncState(k1) /\ \A g \in TaskField : k1[g] = k[g]
      /\ \A h \in SyncObject : SameObject(k1, k, h) /\ ObjectOk(k, h) => ObjectOk(k1, h)
  BY <1>4, <1>5, <1>6, ObjectState
<1> QED BY <1>4, <1>5, <1>7, <1>8 DEF Changed

(***************************************************************************)
(* The inductive invariant.                                                *)
(***************************************************************************)
ServedInv == TaskControl /\ AllServed(kn)

LEMMA CallServed ==
    ASSUME ServedInv, NEW c, NEW k, AllServed(k), SystemCall(c, k)
    PROVE  ServedInv'
<1>1. KState(k)
  BY DEF AllServed, SyncState
<1>2. TaskControl' /\ kn' = k
  BY <1>1, CallControl DEF ServedInv
<1>3. AllServed(kn')
  BY <1>2
<1> QED BY <1>2, <1>3 DEF ServedInv

\* The task in execution does not wait.
LEMMA CallerReady ==
    ASSUME ServedInv, InTask
    PROVE  ctxtsk \in Task /\ kn.state[ctxtsk] = "READY"
BY DEF ServedInv, TaskControl, InTask

\* Nobody waits for an object that does not exist.
LEMMA FreeObject ==
    ASSUME NEW k, SyncState(k), NEW o \in SyncObject,
           \/ o \in SEM /\ ~k.semid[o]
           \/ o \in FLG /\ ~k.flgid[o]
           \/ o \in MBX /\ ~k.mbxid[o]
    PROVE  k.que[o] = <<>>
<1>1. ASSUME NEW t \in Task, k.wid[t] = o PROVE FALSE
  <2>1. WaitOf(k, t)
    BY DEF SyncState
  <2> QED BY <1>1, <2>1, SyncObjectKinds DEF WaitOf
<1>2. KState(k)
  BY DEF SyncState
<1> QED BY <1>1, <1>2, EmptyQueue

LEMMA DeletedServed ==
    ASSUME NEW k, AllServed(k), NEW o \in SyncObject, NEW k1, k1 = WaitDelete(k, o)
    PROVE  AllServed(k1) /\ k1.que[o] = <<>>
<1>1. SyncState(k) /\ AllQueued(k) /\ KState(k) /\ \A h \in SyncObject : ObjectOk(k, h)
  BY DEF AllServed, SyncState
<1>2. SyncState(k1) /\ Releases(k1, k, o) /\ k1.que[o] = <<>>
  BY <1>1, WaitDeleteState
<1>3. KState(k1)
  BY <1>2 DEF SyncState
<1>4. ObjectOk(k1, o)
  BY <1>2, <1>3, EmptyQueue
<1>5. \A h \in SyncObject \ {o} : ObjectOk(k1, h)
  BY <1>1, <1>2, ReleasesOk
<1>6. AllQueued(k1)
  BY <1>1, <1>2, ReleasesOk DEF AllQueued
<1> QED BY <1>2, <1>4, <1>5, <1>6 DEF AllServed

(***************************************************************************)
(* The calls on semaphores.                                                *)
(***************************************************************************)
LEMMA CreSemServed ==
    ASSUME ServedInv, NEW s \in SEM, NEW atr \in SUBSET SemAtr, NEW isemcnt \in 0..SemCntMax,
           NEW maxsem \in Count, CreSem(s, atr, isemcnt, maxsem)
    PROVE  ServedInv'
<1> PICK yes : yes = TRUE
  OBVIOUS
<1> DEFINE k1 == [kn EXCEPT !.semid[s] = yes, !.sematr[s] = atr,
                            !.semcnt[s] = isemcnt, !.maxsem[s] = maxsem]
<1>1. AllServed(kn) /\ SyncState(kn) /\ s \in SyncObject
  BY DEF ServedInv, AllServed, SyncObject
<1>2. SystemCall("task", k1) /\ ~kn.semid[s] /\ isemcnt <= maxsem
  BY DEF CreSem
<1>3. kn.que[s] = <<>>
  BY <1>1, <1>2, FreeObject
<1>4. SemCntMax \in Nat /\ maxsem \in 0..SemCntMax /\ isemcnt \in 0..maxsem /\ yes \in BOOLEAN
  BY <1>2, SemaphoreAssumption DEF Count
<1>5. AllServed(k1)
  <2> SUFFICES ASSUME NEW k2, k2 = k1 PROVE AllServed(k2)
    OBVIOUS
  <2> QED BY <1>1, <1>3, <1>4, NewSem
<1> HIDE DEF k1
<1> QED BY <1>2, <1>5, CallServed

LEMMA DelSemServed ==
    ASSUME ServedInv, NEW s \in SEM, DelSem(s)
    PROVE  ServedInv'
<1> PICK no : no = FALSE
  OBVIOUS
<1> DEFINE kd == WaitDelete(kn, s)
           k1 == [kd EXCEPT !.semid[s] = no, !.sematr[s] = {}, !.semcnt[s] = 0, !.maxsem[s] = 0]
<1>1. AllServed(kn) /\ s \in SyncObject
  BY DEF ServedInv, SyncObject
<1>2. SystemCall("task", k1)
  BY DEF DelSem
<1>3. AllServed(kd) /\ kd.que[s] = <<>>
  BY <1>1, DeletedServed
<1>4. 0 \in 0..SemCntMax /\ 0 \in 0..0
  BY SemaphoreAssumption
<1>5. no \in BOOLEAN
  OBVIOUS
<1>6. {} \in SUBSET SemAtr
  OBVIOUS
<1> HIDE DEF kd
<1>7. AllServed(k1)
  <2> SUFFICES ASSUME NEW k2, k2 = k1 PROVE AllServed(k2)
    OBVIOUS
  <2> QED BY <1>3, <1>4, <1>5, <1>6, NewSem
<1> HIDE DEF k1
<1> QED BY <1>2, <1>7, CallServed

LEMMA SigSemServed ==
    ASSUME ServedInv, NEW c, NEW s \in SEM, NEW cnt \in Count, SigSem(c, s, cnt)
    PROVE  ServedInv'
<1> PICK n : n = kn.semcnt[s] + cnt
  OBVIOUS
<1> DEFINE k1 == [kn EXCEPT !.semcnt[s] = n]
           k2 == Serve(k1, s)
<1>1. AllServed(kn) /\ SyncState(kn) /\ s \in SyncObject /\ SyncTypes(kn)
      /\ \A h \in SyncObject : ObjectOk(kn, h)
  BY DEF ServedInv, AllServed, SyncObject, SyncState
<1>2. SystemCall(c, k2) /\ cnt <= kn.maxsem[s] - kn.semcnt[s]
  BY DEF SigSem
<1>3. n \in 0..kn.maxsem[s]
  <2>1. kn.maxsem[s] \in Nat /\ kn.semcnt[s] \in 0..kn.maxsem[s] /\ cnt \in Nat
    BY <1>1, SemaphoreAssumption DEF SyncTypes, SemTypes, Count
  <2> QED BY <1>2, <2>1
<1>4. /\ SyncState(k1) /\ \A f \in TaskField : k1[f] = kn[f]
      /\ \A h \in SyncObject \ {s} : ObjectOk(k1, h)
  <2> SUFFICES ASSUME NEW k, k = k1
               PROVE  /\ SyncState(k) /\ \A f \in TaskField : k[f] = kn[f]
                      /\ \A h \in SyncObject \ {s} : ObjectOk(k, h)
    OBVIOUS
  <2>1. /\ SyncState(k) /\ \A f \in TaskField : k[f] = kn[f]
        /\ \A h \in SyncObject \ {s} : ObjectOk(kn, h) => ObjectOk(k, h)
    <3>1. Changed(k, kn, s)
      BY ONLY <1>1, <1>3, s \in SEM, k = [kn EXCEPT !.semcnt[s] = n], CountState
    <3> QED BY <3>1 DEF Changed
  <2> QED BY <1>1, <2>1
<1> HIDE DEF k1
<1>5. SyncState(k2) /\ Releases(k2, k1, s) /\ SemOk(k2, s) /\ KState(k1)
  BY <1>4, ServeState DEF Searched, SyncState
<1> HIDE DEF k2
<1>6. \A o \in SyncObject : ObjectOk(k2, o)
  BY <1>4, <1>5, SemServed
<1>7. \A u \in Task : k1.state[u] \in WaitBit => k1.wid[u] # NoObj
  BY <1>1, <1>4 DEF AllServed, AllQueued, TaskField, KernelField, WaitField
<1>8. AllQueued(k2)
  BY <1>1, <1>5, <1>7, ReleasesOk DEF AllQueued
<1>9. AllServed(k2)
  BY <1>5, <1>6, <1>8 DEF AllServed
<1> QED BY <1>2, <1>9, CallServed

\* A task that does not wait takes units, and nobody else is concerned.
LEMMA TakenServed ==
    ASSUME NEW k, AllServed(k), NEW s \in SEM, NEW n \in 0..k.semcnt[s],
           NEW k1, k1 = [k EXCEPT !.semcnt[s] = n]
    PROVE  AllServed(k1)
<1>1. SyncState(k) /\ AllQueued(k) /\ s \in SyncObject /\ KState(k) /\ SyncTypes(k)
      /\ \A h \in SyncObject : ObjectOk(k, h)
  BY DEF AllServed, SyncObject, SyncState
<1>2. k.semcnt[s] \in Nat /\ k.maxsem[s] \in Nat /\ k.semcnt[s] <= k.maxsem[s]
  BY <1>1, SemaphoreAssumption DEF SyncTypes, SemTypes
<1>3. n \in 0..k.maxsem[s] /\ n <= k.semcnt[s] /\ n \in Nat
  BY <1>2
<1>4. /\ SyncState(k1) /\ k1.semcnt[s] = n
      /\ \A f \in TaskField : k1[f] = k[f]
      /\ \A h \in SyncObject : SameKind(k1, k, h)
      /\ \A h \in SyncObject \ {s} : ObjectOk(k, h) => ObjectOk(k1, h)
  <2>1. Changed(k1, k, s)
    BY ONLY <1>1, <1>3, s \in SEM, k1 = [k EXCEPT !.semcnt[s] = n], CountState
  <2>2. k1.semcnt[s] = n
    BY <1>1 DEF SyncTypes, SemTypes, SyncField
  <2> QED BY <2>1, <2>2 DEF Changed
<1>5. /\ k1.que = k.que /\ k1.winfo = k.winfo /\ k1.state = k.state /\ k1.wid = k.wid
      /\ k1.sematr[s] = k.sematr[s]
  BY <1>1, <1>4 DEF TaskField, KernelField, WaitField, SameKind
<1>6. ObjectOk(k1, s)
  <2>1. SemOk(k, s)
    BY <1>1 DEF ObjectOk
  <2>2. ASSUME NEW i \in DOMAIN k1.que[s], i = 1 \/ "CNT" \in k1.sematr[s]
        PROVE  k1.winfo[k1.que[s][i]] > k1.semcnt[s]
    <3>1. k.winfo[k.que[s][i]] > k.semcnt[s] /\ k.que[s][i] \in Task /\ k.wid[k.que[s][i]] = s
      BY <1>1, <1>5, <2>1, <2>2, QueueEntries DEF SemOk
    <3>2. k.winfo[k.que[s][i]] \in 1..k.maxsem[s]
      <4>1. PICK u \in Task : u = k.que[s][i] /\ k.wid[u] = s
        BY <3>1
      <4>2. WaitOf(k, u) /\ s # NoObj /\ s \notin FLG /\ s \notin MBX
        BY <1>1, SyncObjectKinds DEF SyncState
      <4>3. k.winfo[u] \in 1..k.maxsem[s]
        BY <4>1, <4>2 DEF WaitOf
      <4> QED BY <4>1, <4>3
    <3> QED BY <1>2, <1>3, <1>4, <1>5, <3>1, <3>2
  <2>3. SemOk(k1, s)
    BY <2>2 DEF SemOk
  <2> QED BY <1>1, <2>3, SyncObjectKinds DEF ObjectOk
<1>7. AllQueued(k1)
  BY <1>1, <1>5 DEF AllQueued
<1> QED BY <1>1, <1>4, <1>6, <1>7 DEF AllServed

\* tk_wai_sem, when the task begins to wait.
LEMMA SemWaitServed ==
    ASSUME NEW k, AllServed(k), NEW t \in Task, k.state[t] = "READY", NEW s \in SEM, k.semid[s],
           NEW cnt \in 1..k.maxsem[s], NEW tmout,
           "CNT" \in k.sematr[s] \/ IsTop(k, t, s, "TPRI" \in k.sematr[s]) => k.semcnt[s] < cnt
    PROVE  AllServed(WaitForSem(k, t, s, cnt, tmout))
<1> PICK tpri : tpri = ("TPRI" \in k.sematr[s])
  OBVIOUS
<1> PICK w : w = (IF "TPRI" \in k.sematr[s] THEN "sem_tpri" ELSE "sem_tfifo")
  OBVIOUS
<1> DEFINE k1 == GcbMakeWait(k, t, s, s, tpri, w, cnt, tmout)
<1>1. k1 = WaitForSem(k, t, s, cnt, tmout)
  BY DEF WaitForSem
<1>2. s \in SyncObject /\ SyncTypes(k)
  BY DEF SyncObject, AllServed, SyncState
<1>3. tpri <=> ByPriority(k, s)
  BY <1>2, SyncObjectKinds DEF ByPriority
<1>4. Joins(k, s, w, cnt)
  BY <1>3 DEF Joins
<1>5. "CNT" \in k.sematr[s] \/ IsTop(k, t, s, tpri) => k.semcnt[s] < cnt
  BY DEF IsTop
<1>6. cnt \in Nat
  BY <1>2, SemaphoreAssumption DEF SyncTypes, SemTypes
<1> HIDE DEF k1
<1>7. Joined(k1, k, t, s, cnt) /\ QueueJoined(k1, k, t, s, tpri)
  BY <1>2, <1>3, <1>4, BegunState DEF k1
<1>8. AllServed(k1)
  BY <1>3, <1>5, <1>6, <1>7, SemJoinedServed
<1> QED BY <1>1, <1>8

LEMMA WaiSemServed ==
    ASSUME ServedInv, NEW s \in SEM, NEW cnt \in Count, NEW tmout, WaiSem(s, cnt, tmout)
    PROVE  ServedInv'
<1>1. AllServed(kn) /\ SyncTypes(kn)
  BY DEF ServedInv, AllServed, SyncState
<1>2. ctxtsk \in Task /\ kn.state[ctxtsk] = "READY" /\ kn.semid[s] /\ cnt <= kn.maxsem[s]
  BY CallerReady DEF WaiSem, CanWait
<1>3. kn.semcnt[s] \in Nat /\ kn.maxsem[s] \in Nat /\ cnt \in Nat \ {0}
  BY <1>1, SemaphoreAssumption DEF SyncTypes, SemTypes, Count
<1> DEFINE there == /\ "CNT" \in kn.sematr[s] \/ IsTop(kn, ctxtsk, s, "TPRI" \in kn.sematr[s])
                    /\ kn.semcnt[s] >= cnt
<1>4. CASE there
  <2> PICK n : n = kn.semcnt[s] - cnt
    OBVIOUS
  <2> DEFINE k1 == [kn EXCEPT !.semcnt[s] = n]
  <2>1. SystemCall("task", k1)
    BY <1>4 DEF WaiSem
  <2>2. n \in 0..kn.semcnt[s]
    BY <1>3, <1>4
  <2>3. AllServed(k1)
    <3> SUFFICES ASSUME NEW k2, k2 = k1 PROVE AllServed(k2)
      OBVIOUS
    <3> QED BY <1>1, <2>2, TakenServed
  <2> HIDE DEF k1
  <2> QED BY <2>1, <2>3, CallServed
<1>5. CASE ~there
  <2>1. SystemCall("task", WaitForSem(kn, ctxtsk, s, cnt, tmout))
    BY <1>5 DEF WaiSem
  <2>2. "CNT" \in kn.sematr[s] \/ IsTop(kn, ctxtsk, s, "TPRI" \in kn.sematr[s]) => kn.semcnt[s] < cnt
    <3>1. ~(kn.semcnt[s] >= cnt) <=> kn.semcnt[s] < cnt
      BY <1>3
    <3> QED BY <1>5, <3>1
  <2>3. cnt \in 1..kn.maxsem[s]
    BY <1>2, <1>3
  <2>4. AllServed(WaitForSem(kn, ctxtsk, s, cnt, tmout))
    BY <1>1, <1>2, <2>2, <2>3, SemWaitServed
  <2> QED BY <2>1, <2>4, CallServed
<1> QED BY <1>4, <1>5

(***************************************************************************)
(* The calls on event flags.                                               *)
(***************************************************************************)
LEMMA CreFlgServed ==
    ASSUME ServedInv, NEW f \in FLG, NEW atr \in SUBSET FlgAtr, NEW iflgptn \in Pattern,
           CreFlg(f, atr, iflgptn)
    PROVE  ServedInv'
<1> PICK yes : yes = TRUE
  OBVIOUS
<1> DEFINE k1 == [kn EXCEPT !.flgid[f] = yes, !.flgatr[f] = atr, !.flgptn[f] = iflgptn]
<1>1. AllServed(kn) /\ SyncState(kn) /\ f \in SyncObject
  BY DEF ServedInv, AllServed, SyncObject
<1>2. SystemCall("task", k1) /\ ~kn.flgid[f]
  BY DEF CreFlg
<1>3. kn.que[f] = <<>>
  BY <1>1, <1>2, FreeObject
<1>4. yes \in BOOLEAN
  OBVIOUS
<1>5. AllServed(k1)
  <2> SUFFICES ASSUME NEW k2, k2 = k1 PROVE AllServed(k2)
    OBVIOUS
  <2> QED BY <1>1, <1>3, <1>4, NewFlg
<1> HIDE DEF k1
<1> QED BY <1>2, <1>5, CallServed

LEMMA DelFlgServed ==
    ASSUME ServedInv, NEW f \in FLG, DelFlg(f)
    PROVE  ServedInv'
<1> PICK no : no = FALSE
  OBVIOUS
<1> DEFINE kd == WaitDelete(kn, f)
           k1 == [kd EXCEPT !.flgid[f] = no, !.flgatr[f] = {}, !.flgptn[f] = {}]
<1>1. AllServed(kn) /\ f \in SyncObject
  BY DEF ServedInv, SyncObject
<1>2. SystemCall("task", k1)
  BY DEF DelFlg
<1>3. AllServed(kd) /\ kd.que[f] = <<>>
  BY <1>1, DeletedServed
<1>4. no \in BOOLEAN
  OBVIOUS
<1>5. {} \in SUBSET FlgAtr /\ {} \in Pattern
  BY DEF Pattern
<1> HIDE DEF kd
<1>6. AllServed(k1)
  <2> SUFFICES ASSUME NEW k2, k2 = k1 PROVE AllServed(k2)
    OBVIOUS
  <2> QED BY <1>3, <1>4, <1>5, NewFlg
<1> HIDE DEF k1
<1> QED BY <1>2, <1>6, CallServed

LEMMA SetFlgServed ==
    ASSUME ServedInv, NEW c, NEW f \in FLG, NEW setptn \in Pattern, SetFlg(c, f, setptn)
    PROVE  ServedInv'
<1> PICK p : p = kn.flgptn[f] \cup setptn
  OBVIOUS
<1> DEFINE k1 == [kn EXCEPT !.flgptn[f] = p]
           k2 == ServeFlg(k1, f)
<1>1. AllServed(kn) /\ SyncState(kn) /\ f \in SyncObject /\ SyncTypes(kn)
      /\ \A h \in SyncObject : ObjectOk(kn, h)
  BY DEF ServedInv, AllServed, SyncObject, SyncState
<1>2. SystemCall(c, k2)
  BY DEF SetFlg
<1>3. p \in Pattern
  BY <1>1 DEF SyncTypes, FlgTypes, Pattern
<1>4. /\ SyncState(k1) /\ \A g \in TaskField : k1[g] = kn[g]
      /\ \A h \in SyncObject \ {f} : ObjectOk(k1, h)
  <2> SUFFICES ASSUME NEW k, k = k1
               PROVE  /\ SyncState(k) /\ \A g \in TaskField : k[g] = kn[g]
                      /\ \A h \in SyncObject \ {f} : ObjectOk(k, h)
    OBVIOUS
  <2>1. /\ SyncState(k) /\ \A g \in TaskField : k[g] = kn[g]
        /\ \A h \in SyncObject \ {f} : ObjectOk(kn, h) => ObjectOk(k, h)
    <3>1. Changed(k, kn, f)
      BY ONLY <1>1, <1>3, f \in FLG, k = [kn EXCEPT !.flgptn[f] = p], PatternState
    <3> QED BY <3>1 DEF Changed
  <2> QED BY <1>1, <2>1
<1> HIDE DEF k1
<1>5. SyncState(k2) /\ Releases(k2, k1, f) /\ FlgOk(k2, f) /\ KState(k1)
  BY <1>4, ServeFlgState DEF FlgSearched, SyncState
<1> HIDE DEF k2
<1>6. ASSUME NEW o \in SyncObject PROVE ObjectOk(k2, o)
  <2>1. CASE o = f
    BY <1>5, <2>1, SyncObjectKinds DEF ObjectOk
  <2>2. CASE o # f
    BY <1>1, <1>4, <1>5, <2>2, ReleasesOk
  <2> QED BY <2>1, <2>2
<1>7. \A u \in Task : k1.state[u] \in WaitBit => k1.wid[u] # NoObj
  BY <1>1, <1>4 DEF AllServed, AllQueued, TaskField, KernelField, WaitField
<1>8. AllQueued(k2)
  BY <1>1, <1>5, <1>7, ReleasesOk DEF AllQueued
<1>9. AllServed(k2)
  BY <1>5, <1>6, <1>8 DEF AllServed
<1> QED BY <1>2, <1>9, CallServed

\* Bits of the pattern are cleared.
LEMMA ClearedServed ==
    ASSUME NEW k, AllServed(k), NEW f \in FLG, NEW p, p \subseteq k.flgptn[f],
           NEW k1, k1 = [k EXCEPT !.flgptn[f] = p]
    PROVE  AllServed(k1)
<1>1. SyncState(k) /\ AllQueued(k) /\ f \in SyncObject /\ SyncTypes(k)
      /\ \A h \in SyncObject : ObjectOk(k, h)
  BY DEF AllServed, SyncObject, SyncState
<1>2. p \in Pattern
  BY <1>1 DEF SyncTypes, FlgTypes, Pattern
<1>3. /\ SyncState(k1) /\ k1.flgptn[f] = p
      /\ \A g \in TaskField : k1[g] = k[g]
      /\ \A h \in SyncObject \ {f} : ObjectOk(k, h) => ObjectOk(k1, h)
  <2>1. Changed(k1, k, f)
    BY ONLY <1>1, <1>2, f \in FLG, k1 = [k EXCEPT !.flgptn[f] = p], PatternState
  <2>2. k1.flgptn[f] = p
    BY <1>1 DEF SyncTypes, FlgTypes, SyncField
  <2> QED BY <2>1, <2>2 DEF Changed
<1>4. k1.que = k.que /\ k1.winfo = k.winfo /\ k1.state = k.state /\ k1.wid = k.wid
  BY <1>3 DEF TaskField, KernelField, WaitField
<1>5. ObjectOk(k1, f)
  <2>1. FlgOk(k, f)
    BY <1>1 DEF ObjectOk
  <2>2. FlgOk(k1, f)
    BY <1>3, <1>4, <2>1, CondParts DEF FlgOk
  <2> QED BY <1>1, <2>2, SyncObjectKinds DEF ObjectOk
<1>6. AllQueued(k1)
  BY <1>1, <1>4 DEF AllQueued
<1> QED BY <1>1, <1>3, <1>5, <1>6 DEF AllServed

LEMMA ClrFlgServed ==
    ASSUME ServedInv, NEW c, NEW f \in FLG, NEW clrptn, ClrFlg(c, f, clrptn)
    PROVE  ServedInv'
<1> PICK p : p = kn.flgptn[f] \cap clrptn
  OBVIOUS
<1> DEFINE k1 == [kn EXCEPT !.flgptn[f] = p]
<1>1. SystemCall(c, k1) /\ p \subseteq kn.flgptn[f] /\ AllServed(kn)
  BY DEF ClrFlg, ServedInv
<1>2. AllServed(k1)
  <2> SUFFICES ASSUME NEW k2, k2 = k1 PROVE AllServed(k2)
    OBVIOUS
  <2> QED BY <1>1, ClearedServed
<1> HIDE DEF k1
<1> QED BY <1>1, <1>2, CallServed

\* tk_wai_flg, when the task begins to wait.
LEMMA FlgWaitServed ==
    ASSUME NEW k, AllServed(k), NEW t \in Task, k.state[t] = "READY", NEW f \in FLG, k.flgid[f],
           "WMUL" \in k.flgatr[f] \/ k.que[f] = <<>>,
           NEW w \in FlgWait, ~Cond(k.flgptn[f], w), NEW tmout,
           NEW tpri, tpri = ("TPRI" \in k.flgatr[f]),
           NEW wspec, wspec = (IF tpri THEN "flg_tpri" ELSE "flg_tfifo"),
           NEW k1, k1 = GcbMakeWait(k, t, f, f, tpri, wspec, w, tmout)
    PROVE  AllServed(k1)
<1>1. f \in SyncObject /\ \A h \in SyncObject : ObjectOk(k, h)
  BY DEF SyncObject, AllServed
<1>2. tpri <=> ByPriority(k, f)
  BY <1>1, SyncObjectKinds DEF ByPriority
<1>3. Joins(k, f, wspec, w)
  BY <1>2 DEF Joins
<1>4. Joined(k1, k, t, f, w)
  BY <1>1, <1>2, <1>3, BegunState
<1>5. FlgOk(k, f) /\ KState(k) /\ KState(k1) /\ k1.flgptn[f] = k.flgptn[f]
  BY <1>1, <1>4 DEF ObjectOk, AllServed, SyncState, Joined, SameObject
<1>6. ASSUME NEW i \in DOMAIN k1.que[f] PROVE ~Cond(k1.flgptn[f], k1.winfo[k1.que[f][i]])
  <2>1. k1.que[f][i] \in Task /\ k1.wid[k1.que[f][i]] = f
    BY <1>1, <1>5, QueueEntries
  <2>2. CASE k1.que[f][i] = t
    BY <1>4, <1>5, <2>2 DEF Joined
  <2>3. CASE k1.que[f][i] # t
    <3>1. k.wid[k1.que[f][i]] = f /\ k1.winfo[k1.que[f][i]] = k.winfo[k1.que[f][i]]
      BY <1>4, <2>1, <2>3 DEF Joined
    <3>2. PICK j \in DOMAIN k.que[f] : k.que[f][j] = k1.que[f][i]
      <4>1. \A u \in Task : k.wid[u] = f => \E j \in DOMAIN k.que[f] : k.que[f][j] = u
        BY <1>1, <1>5, QueueEntries
      <4> QED BY <2>1, <3>1, <4>1
    <3> QED BY <1>5, <3>1, <3>2 DEF FlgOk
  <2> QED BY <2>2, <2>3
<1>7. ObjectOk(k1, f)
  <2>1. FlgOk(k1, f)
    BY <1>6 DEF FlgOk
  <2> QED BY <1>1, <2>1, SyncObjectKinds DEF ObjectOk
<1> QED BY <1>1, <1>4, <1>7, JoinedServed

LEMMA WaiFlgServed ==
    ASSUME ServedInv, NEW f \in FLG, NEW w \in FlgWaits, NEW tmout, WaiFlg(f, w, tmout)
    PROVE  ServedInv'
<1>1. AllServed(kn) /\ SyncTypes(kn) /\ w \in FlgWait
  BY FlgWaitsAssumption DEF ServedInv, AllServed, SyncState
<1>2. /\ ctxtsk \in Task /\ kn.state[ctxtsk] = "READY" /\ kn.flgid[f]
      /\ "WMUL" \in kn.flgatr[f] \/ kn.que[f] = <<>>
  BY CallerReady DEF WaiFlg, CanWait
<1>3. CASE Cond(kn.flgptn[f], w)
  <2> PICK p : p = Cleared(kn.flgptn[f], w)
    OBVIOUS
  <2> DEFINE k1 == [kn EXCEPT !.flgptn[f] = p]
  <2>1. SystemCall("task", k1)
    BY <1>3 DEF WaiFlg
  <2>2. p \subseteq kn.flgptn[f]
    BY DEF Cleared
  <2>3. AllServed(k1)
    <3> SUFFICES ASSUME NEW k2, k2 = k1 PROVE AllServed(k2)
      OBVIOUS
    <3> QED BY <1>1, <2>2, ClearedServed
  <2> HIDE DEF k1
  <2> QED BY <2>1, <2>3, CallServed
<1>4. CASE ~Cond(kn.flgptn[f], w)
  <2> PICK tpri : tpri = ("TPRI" \in kn.flgatr[f])
    OBVIOUS
  <2> PICK wspec : wspec = (IF tpri THEN "flg_tpri" ELSE "flg_tfifo")
    OBVIOUS
  <2> DEFINE k1 == GcbMakeWait(kn, ctxtsk, f, f, tpri, wspec, w, tmout)
  <2>1. SystemCall("task", k1)
    BY <1>4 DEF WaiFlg
  <2>2. AllServed(k1)
    <3> SUFFICES ASSUME NEW k2, k2 = k1 PROVE AllServed(k2)
      OBVIOUS
    <3> HIDE DEF k1
    <3> QED BY <1>1, <1>2, <1>4, FlgWaitServed DEF k1
  <2> HIDE DEF k1
  <2> QED BY <2>1, <2>2, CallServed
<1> QED BY <1>3, <1>4

(***************************************************************************)
(* The calls on mailboxes.                                                 *)
(***************************************************************************)
MsgField == {"mqhead", "mqtail", "nextmsg", "msgs"}

\* The messages of a mailbox that no task waits for change.
MsgsChange(k1, k, x) ==
    /\ Only(k1, k, MsgField)
    /\ DOMAIN k1.mqhead = DOMAIN k.mqhead
    /\ \A y \in MBX \ {x} : k1.mqhead[y] = k.mqhead[y]
    /\ MsgState(k1.mbxid, k1.mbxatr, k1.mqhead, k1.mqtail, k1.nextmsg, k1.msgs)

LEMMA MsgsServed ==
    ASSUME NEW k, AllServed(k), NEW x \in MBX, k.que[x] = <<>>, NEW k1, MsgsChange(k1, k, x)
    PROVE  AllServed(k1)
<1>1. SyncTypes(k) /\ MbxTypes(k)
  BY DEF AllServed, SyncState, SyncTypes
<1>2. Only(k1, k, {"mbxid", "mbxatr", "mqhead", "mqtail", "nextmsg", "msgs"})
      /\ k1.mbxid = k.mbxid /\ k1.mbxatr = k.mbxatr
  BY <1>1 DEF MsgsChange, Only, MsgField, SyncTypes, SyncField
<1>3. PICK id : id = k.mbxid[x]
  OBVIOUS
<1>4. PICK atr : atr = k.mbxatr[x]
  OBVIOUS
<1>5. id \in BOOLEAN /\ atr \in SUBSET MbxAtr
  BY <1>1, <1>3, <1>4 DEF MbxTypes
<1>6. k1.mbxid = [k.mbxid EXCEPT ![x] = id] /\ k1.mbxatr = [k.mbxatr EXCEPT ![x] = atr]
  BY <1>1, <1>2, <1>3, <1>4 DEF MbxTypes
<1>7. MbxChange(k1, k, x, id, atr)
  BY <1>2, <1>6 DEF MbxChange, MsgsChange
<1> QED BY ONLY AllServed(k), x \in MBX, k.que[x] = <<>>, <1>5, <1>7, NewMbx

LEMMA CreMbxServed ==
    ASSUME ServedInv, NEW x \in MBX, NEW atr \in SUBSET MbxAtr, CreMbx(x, atr)
    PROVE  ServedInv'
<1> PICK yes : yes = TRUE
  OBVIOUS
<1> DEFINE k1 == [kn EXCEPT !.mbxid[x] = yes, !.mbxatr[x] = atr, !.mqhead[x] = NoMsg]
<1>1. AllServed(kn) /\ SyncState(kn) /\ x \in SyncObject /\ SyncTypes(kn)
  BY DEF ServedInv, AllServed, SyncObject, SyncState
<1>2. SystemCall("task", k1) /\ ~kn.mbxid[x]
  BY DEF CreMbx
<1>3. kn.que[x] = <<>>
  BY <1>1, <1>2, FreeObject
<1>4. yes \in BOOLEAN
  OBVIOUS
<1>5. /\ Only(k1, kn, {"mbxid", "mbxatr", "mqhead", "mqtail", "nextmsg", "msgs"})
      /\ k1.mbxid = [kn.mbxid EXCEPT ![x] = yes] /\ k1.mbxatr = [kn.mbxatr EXCEPT ![x] = atr]
      /\ k1.mqhead = [kn.mqhead EXCEPT ![x] = NoMsg]
      /\ k1.mqtail = kn.mqtail /\ k1.nextmsg = kn.nextmsg /\ k1.msgs = kn.msgs
  BY <1>1 DEF Only, SyncTypes, SyncField
<1> HIDE DEF k1
<1>8. MsgState(k1.mbxid, k1.mbxatr, k1.mqhead, k1.mqtail, k1.nextmsg, k1.msgs)
  <2>1. /\ kn.mbxid \in [MBX -> BOOLEAN] /\ kn.mbxatr \in [MBX -> SUBSET MbxAtr]
        /\ MsgState(kn.mbxid, kn.mbxatr, kn.mqhead, kn.mqtail, kn.nextmsg, kn.msgs)
    BY <1>1 DEF SyncTypes, MbxTypes
  <2>2. PICK id1, atr1, head1 : /\ id1 = [kn.mbxid EXCEPT ![x] = TRUE]
                                /\ atr1 = [kn.mbxatr EXCEPT ![x] = atr]
                                /\ head1 = [kn.mqhead EXCEPT ![x] = NoMsg]
    OBVIOUS
  <2>3. MsgState(id1, atr1, head1, kn.mqtail, kn.nextmsg, kn.msgs)
    BY ONLY <1>2, <2>1, <2>2, x \in MBX, MsgCreated
  <2>4. k1.mbxid = id1
    BY <1>5, <2>2, yes = TRUE, Zenon
  <2>5. k1.mbxatr = atr1 /\ k1.mqhead = head1
    BY <1>5, <2>2
  <2> QED BY <1>5, <2>3, <2>4, <2>5
<1>6. MbxChange(k1, kn, x, yes, atr)
  BY <1>1, <1>5, <1>8 DEF MbxChange, SyncTypes, MbxTypes
<1>7. AllServed(k1)
  BY ONLY <1>1, <1>3, <1>4, <1>6, x \in MBX, atr \in SUBSET MbxAtr, NewMbx
<1> QED BY <1>2, <1>7, CallServed

LEMMA DelMbxServed ==
    ASSUME ServedInv, NEW x \in MBX, DelMbx(x)
    PROVE  ServedInv'
<1> PICK no : no = FALSE
  OBVIOUS
<1> DEFINE kd == WaitDelete(kn, x)
           k1 == [kd EXCEPT !.mbxid[x] = no, !.mbxatr[x] = {},
                            !.mqhead[x] = NoMsg, !.mqtail[x] = NoMsg,
                            !.nextmsg = [m \in Msg |-> IF m \in ToSet(kn.msgs[x]) THEN NoMsg
                                                       ELSE @[m]],
                            !.msgs[x] = <<>>]
<1>1. AllServed(kn) /\ x \in SyncObject /\ KState(kn) /\ SyncTypes(kn)
  BY DEF ServedInv, SyncObject, AllServed, SyncState
<1>2. SystemCall("task", k1)
  BY DEF DelMbx
<1>3. AllServed(kd) /\ kd.que[x] = <<>>
  BY <1>1, DeletedServed
<1>4. no \in BOOLEAN
  OBVIOUS
<1>5. {} \in SUBSET MbxAtr
  OBVIOUS
<1>6. SyncTypes(kd) /\ kd.msgs = kn.msgs
  <2>1. Releases(kd, kn, x) /\ SyncState(kn)
    BY <1>1, WaitDeleteState DEF AllServed
  <2>2. Only(kd, kn, TaskField \cup {"semcnt", "flgptn"}) /\ SyncField \subseteq DOMAIN kn
    BY <1>1, <2>1 DEF Releases, SyncTypes
  <2>3. kd.msgs = kn.msgs
    <3> HIDE DEF kd
    <3>1. "msgs" \in SyncField /\ "msgs" \notin TaskField \cup {"semcnt", "flgptn"}
      BY FieldsApart DEF SyncField
    <3> QED BY <2>2, <3>1 DEF Only
  <2>4. SyncTypes(kd)
    BY <1>3 DEF AllServed, SyncState
  <2> QED BY <2>3, <2>4
<1> HIDE DEF kd
<1> PICK nm : nm = [m \in Msg |-> IF m \in ToSet(kn.msgs[x]) THEN NoMsg ELSE kd.nextmsg[m]]
  OBVIOUS
<1>11. k1 = [kd EXCEPT !.mbxid[x] = no, !.mbxatr[x] = {}, !.mqhead[x] = NoMsg,
                       !.mqtail[x] = NoMsg, !.nextmsg = nm, !.msgs[x] = <<>>]
  OBVIOUS
<1> HIDE DEF k1
<1>7. /\ Only(k1, kd, {"mbxid", "mbxatr", "mqhead", "mqtail", "nextmsg", "msgs"})
      /\ k1.mbxid = [kd.mbxid EXCEPT ![x] = no] /\ k1.mbxatr = [kd.mbxatr EXCEPT ![x] = {}]
      /\ k1.mqhead = [kd.mqhead EXCEPT ![x] = NoMsg]
      /\ k1.mqtail = [kd.mqtail EXCEPT ![x] = NoMsg]
      /\ k1.nextmsg = [m \in Msg |-> IF m \in ToSet(kd.msgs[x]) THEN NoMsg ELSE kd.nextmsg[m]]
      /\ k1.msgs = [kd.msgs EXCEPT ![x] = <<>>]
  <2>1. nm = [m \in Msg |-> IF m \in ToSet(kd.msgs[x]) THEN NoMsg ELSE kd.nextmsg[m]]
    BY <1>6
  <2>2. k1.nextmsg = nm
    BY <1>6, <1>11 DEF SyncTypes, SyncField
  <2>3. SyncField \subseteq DOMAIN kd
    BY <1>6 DEF SyncTypes
  <2>4. Only(k1, kd, {"mbxid", "mbxatr", "mqhead", "mqtail", "nextmsg", "msgs"})
    BY ONLY <1>11, <2>3 DEF Only, SyncField
  <2>5. /\ k1.mbxid = [kd.mbxid EXCEPT ![x] = no] /\ k1.mbxatr = [kd.mbxatr EXCEPT ![x] = {}]
        /\ k1.mqhead = [kd.mqhead EXCEPT ![x] = NoMsg]
        /\ k1.mqtail = [kd.mqtail EXCEPT ![x] = NoMsg]
        /\ k1.msgs = [kd.msgs EXCEPT ![x] = <<>>]
    BY ONLY <1>11, <2>3 DEF SyncField
  <2> QED BY <2>1, <2>2, <2>4, <2>5
<1>10. MsgState(k1.mbxid, k1.mbxatr, k1.mqhead, k1.mqtail, k1.nextmsg, k1.msgs)
  <2>1. /\ kd.mbxid \in [MBX -> BOOLEAN] /\ kd.mbxatr \in [MBX -> SUBSET MbxAtr]
        /\ MsgState(kd.mbxid, kd.mbxatr, kd.mqhead, kd.mqtail, kd.nextmsg, kd.msgs)
    BY <1>6 DEF SyncTypes, MbxTypes
  <2>2. PICK id1, atr1, head1, tail1, next1, msgs1 :
           /\ id1 = [kd.mbxid EXCEPT ![x] = FALSE] /\ atr1 = [kd.mbxatr EXCEPT ![x] = {}]
           /\ head1 = [kd.mqhead EXCEPT ![x] = NoMsg] /\ tail1 = [kd.mqtail EXCEPT ![x] = NoMsg]
           /\ next1 = NoLinks(kd.nextmsg, kd.msgs[x]) /\ msgs1 = [kd.msgs EXCEPT ![x] = <<>>]
    OBVIOUS
  <2>3. MsgState(id1, atr1, head1, tail1, next1, msgs1)
    <3>1. PICK a, id, atr, head, tail, next, msgs :
             /\ a = {} /\ id = kd.mbxid /\ atr = kd.mbxatr /\ head = kd.mqhead
             /\ tail = kd.mqtail /\ next = kd.nextmsg /\ msgs = kd.msgs
      OBVIOUS
    <3>2. /\ id \in [MBX -> BOOLEAN] /\ atr \in [MBX -> SUBSET MbxAtr]
          /\ MsgState(id, atr, head, tail, next, msgs)
      BY ONLY <2>1, <3>1
    <3>3. /\ id1 = [id EXCEPT ![x] = FALSE] /\ atr1 = [atr EXCEPT ![x] = a]
          /\ head1 = [head EXCEPT ![x] = NoMsg] /\ tail1 = [tail EXCEPT ![x] = NoMsg]
          /\ next1 = NoLinks(next, msgs[x]) /\ msgs1 = [msgs EXCEPT ![x] = <<>>]
      BY ONLY <2>2, <3>1
    <3> QED BY ONLY <3>2, <3>3, x \in MBX, MsgDeleted
  <2>4. k1.mbxid = id1
    BY <1>7, <2>2, no = FALSE, Zenon
  <2>5. /\ k1.mbxatr = atr1 /\ k1.mqhead = head1 /\ k1.mqtail = tail1 /\ k1.msgs = msgs1
        /\ k1.nextmsg = next1
    BY <1>7, <2>2 DEF NoLinks
  <2> QED BY <2>3, <2>4, <2>5
<1>8. MbxChange(k1, kd, x, no, {})
  BY <1>6, <1>7, <1>10 DEF MbxChange, SyncTypes, MbxTypes
<1>9. AllServed(k1)
  BY ONLY <1>3, <1>4, <1>5, <1>8, x \in MBX, NewMbx
<1> QED BY <1>2, <1>9, CallServed

\* Message m is not in mailbox x, and x has the chain c.
Sends(k, x, m, c) ==
    /\ k.mbxid \in [MBX -> BOOLEAN] /\ k.mbxatr \in [MBX -> SUBSET MbxAtr]
    /\ MsgState(k.mbxid, k.mbxatr, k.mqhead, k.mqtail, k.nextmsg, k.msgs)
    /\ \A y \in MBX : ~Contains(k.msgs[y], m)
    /\ MsgChain(k.mbxatr[x], k.mqhead[x], k.mqtail[x], k.nextmsg, k.msgs[x], c)
    /\ c \in Seq(Msg) /\ Len(c) \in Nat /\ DOMAIN c = 1..Len(c)
    /\ Chain(k, k.mqhead[x]) = c
    /\ k.mqhead[x] = NoMsg <=> Len(c) = 0
    /\ ~Contains(c, m)

LEMMA SendsChain ==
    ASSUME NEW k, SyncTypes(k), NEW x \in MBX, NEW m, ~InMailbox(k, m)
    PROVE  \E c : Sends(k, x, m, c)
<1>1. /\ k.mbxid \in [MBX -> BOOLEAN] /\ k.mbxatr \in [MBX -> SUBSET MbxAtr]
      /\ MsgState(k.mbxid, k.mbxatr, k.mqhead, k.mqtail, k.nextmsg, k.msgs)
  BY DEF SyncTypes, MbxTypes
<1>2. PICK c : MsgChain(k.mbxatr[x], k.mqhead[x], k.mqtail[x], k.nextmsg, k.msgs[x], c)
  BY <1>1 DEF MsgState
<1>3. /\ c \in Seq(Msg) /\ IsInjective(c) /\ LinksTo(k.nextmsg, k.mqhead[x], c)
      /\ \A e : Contains(c, e) <=> Contains(k.msgs[x], e)
  BY <1>2 DEF MsgChain
<1>4. \A y \in MBX : ~Contains(k.msgs[y], m)
  <2> SUFFICES ASSUME NEW y \in MBX, Contains(k.msgs[y], m) PROVE FALSE
    OBVIOUS
  <2>1. k.msgs[y] \in Seq(Msg)
    BY <1>1 DEF MsgState, MsgTypes
  <2>2. m \in ToSet(k.msgs[y])
    BY <2>1 DEF Contains, ToSet
  <2> QED BY <2>2 DEF InMailbox
<1>5. Chain(k, k.mqhead[x]) = c
  BY <1>3, ChainIs
<1>6. Len(c) \in Nat /\ DOMAIN c = 1..Len(c) /\ (c = <<>> <=> Len(c) = 0)
  BY <1>3
<1>7. k.mqhead[x] = NoMsg <=> c = <<>>
  <2>1. CASE c = <<>>
    BY <1>3, <2>1 DEF LinksTo
  <2>2. CASE c # <<>>
    <3>1. k.mqhead[x] = c[1] /\ c[1] \in Msg
      BY <1>3, <1>6, <2>2 DEF LinksTo
    <3> QED BY <2>2, <3>1, MailboxAssumption
  <2> QED BY <2>1, <2>2
<1> QED BY <1>1, <1>2, <1>3, <1>4, <1>5, <1>6, <1>7 DEF Sends

\* Message m goes to the end of a FIFO mailbox.
LEMMA ConnectMsgs ==
    ASSUME NEW k, SyncTypes(k), NEW x \in MBX, k.mbxid[x], "MPRI" \notin k.mbxatr[x],
           NEW m \in Msg, ~InMailbox(k, m),
           NEW k1, k1 = [Connect(k, x, m) EXCEPT !.msgs[x] = Append(@, m)]
    PROVE  MsgsChange(k1, k, x)
<1>1. PICK c : Sends(k, x, m, c)
  BY SendsChain
<1>2. /\ k.mqhead \in [MBX -> Msg \cup {NoMsg}] /\ k.mqtail \in [MBX -> Msg \cup {NoMsg}]
      /\ k.nextmsg \in [Msg -> Msg \cup {NoMsg}] /\ SyncField \subseteq DOMAIN k
  BY DEF SyncTypes, MbxTypes, MsgState, MsgTypes
<1>3. PICK n \in Nat : n = Len(c) /\ DOMAIN c = 1..n
  BY <1>1 DEF Sends
<1>4. \A j \in 1..n : c[j] \in Msg /\ c[j] # m
  BY <1>1, <1>3 DEF Sends, Contains
<1>5. n # 0 => k.mqtail[x] = c[n]
  <2>1. c # <<>> => k.mqtail[x] = c[Len(c)]
    BY <1>1 DEF Sends, MsgChain
  <2> QED BY <1>1, <1>3, <2>1 DEF Sends
<1>6. k.mqhead[x] = NoMsg <=> n = 0
  BY <1>1, <1>3 DEF Sends
<1>7. PICK head1, tail1, next1, msgs1 :
         /\ head1 = [k.mqhead EXCEPT ![x] = IF n = 0 THEN m ELSE @]
         /\ tail1 = [k.mqtail EXCEPT ![x] = m]
         /\ next1 = IF n = 0 THEN [k.nextmsg EXCEPT ![m] = NoMsg]
                    ELSE [[k.nextmsg EXCEPT ![m] = NoMsg] EXCEPT ![k.mqtail[x]] = m]
         /\ msgs1 = [k.msgs EXCEPT ![x] = Append(@, m)]
  OBVIOUS
<1>8. /\ Only(k1, k, MsgField)
      /\ k1.mbxid = k.mbxid /\ k1.mbxatr = k.mbxatr
      /\ k1.mqhead = head1 /\ k1.mqtail = tail1 /\ k1.nextmsg = next1 /\ k1.msgs = msgs1
  <2>1. CASE n = 0
    <3>1. k1 = [[[k EXCEPT !.nextmsg[m] = NoMsg, !.mqtail[x] = m] EXCEPT !.mqhead[x] = m]
                  EXCEPT !.msgs[x] = Append(@, m)]
      BY <1>6, <2>1 DEF Connect
    <3> QED BY <1>2, <1>7, <2>1, <3>1 DEF Only, MsgField, SyncField
  <2>2. CASE n # 0
    <3>1. k1 = [[[k EXCEPT !.nextmsg[m] = NoMsg, !.mqtail[x] = m] EXCEPT !.nextmsg[k.mqtail[x]] = m]
                  EXCEPT !.msgs[x] = Append(@, m)]
      BY <1>6, <2>2 DEF Connect
    <3>2. head1 = k.mqhead
      BY <1>2, <1>7, <2>2
    <3> QED BY <1>2, <1>7, <2>2, <3>1, <3>2 DEF Only, MsgField, SyncField
  <2> QED BY <2>1, <2>2
<1>9. /\ head1 \in [MBX -> Msg \cup {NoMsg}] /\ head1[x] = IF n = 0 THEN m ELSE k.mqhead[x]
      /\ tail1 \in [MBX -> Msg \cup {NoMsg}] /\ tail1[x] = m
      /\ \A y \in MBX \ {x} : head1[y] = k.mqhead[y] /\ tail1[y] = k.mqtail[y]
  BY <1>2, <1>7
<1>10. /\ next1 \in [Msg -> Msg \cup {NoMsg}] /\ next1[m] = NoMsg
       /\ n # 0 => next1[c[n]] = m
       /\ \A e \in Msg : e # m /\ (n # 0 => e # c[n]) => next1[e] = k.nextmsg[e]
  <2>1. CASE n = 0
    BY <1>2, <1>7, <2>1
  <2>2. CASE n # 0
    <3>1. n \in 1..n /\ k.mqtail[x] = c[n]
      BY <1>5, <2>2
    <3>2. c[n] \in Msg /\ c[n] # m
      BY <1>4, <3>1
    <3> QED BY <1>2, <1>7, <2>2, <3>1, <3>2
  <2> QED BY <2>1, <2>2
<1>11. PICK i, d : i = n+1 /\ d = InsertAt(c, i, m)
  OBVIOUS
<1>12. /\ i \in 1..Len(c)+1 /\ next1[m] = (IF i = Len(c)+1 THEN NoMsg ELSE c[i])
       /\ i > 1 => next1[c[i-1]] = m
       /\ \A e \in Msg : e # m /\ (i > 1 => e # c[i-1]) => next1[e] = k.nextmsg[e]
       /\ head1[x] = IF i = 1 THEN m ELSE k.mqhead[x]
       /\ i = Len(c)+1
  <2>1. i-1 = n /\ (i > 1 <=> n # 0) /\ (i = 1 <=> n = 0) /\ i \in 1..n+1
    BY <1>11
  <2> QED BY ONLY <1>3, <1>9, <1>10, <1>11, <2>1
<1>13. MsgState(k.mbxid, k.mbxatr, head1, tail1, next1, msgs1)
  <2>1. /\ k.mbxid \in [MBX -> BOOLEAN] /\ k.mbxatr \in [MBX -> SUBSET MbxAtr]
        /\ MsgState(k.mbxid, k.mbxatr, k.mqhead, k.mqtail, k.nextmsg, k.msgs)
        /\ \A y \in MBX : ~Contains(k.msgs[y], m)
        /\ MsgChain(k.mbxatr[x], k.mqhead[x], k.mqtail[x], k.nextmsg, k.msgs[x], c)
    BY <1>1 DEF Sends
  <2>2. IF "MPRI" \in k.mbxatr[x] THEN ByMsgPri(d, msgs1[x]) ELSE i = Len(c)+1 /\ tail1[x] = m
    BY <1>9, <1>12
  <2>3. d = InsertAt(c, i, m) /\ msgs1 = [k.msgs EXCEPT ![x] = Append(@, m)]
    BY <1>7, <1>11
  <2>4. MsgLink(k.mbxid, k.mbxatr, k.mqhead, k.mqtail, k.nextmsg, k.msgs, x, m, c, i, d,
                head1, tail1, next1, msgs1)
    BY ONLY <1>9, <1>10, <1>12, <2>1, <2>2, <2>3, x \in MBX, k.mbxid[x], m \in Msg DEF MsgLink
  <2> QED BY <2>4, MsgLinked
<1>14. DOMAIN k1.mqhead = DOMAIN k.mqhead
  BY <1>2, <1>8, <1>9
<1>15. \A y \in MBX \ {x} : k1.mqhead[y] = k.mqhead[y]
  BY <1>8, <1>9
<1> QED BY <1>8, <1>13, <1>14, <1>15 DEF MsgsChange

\* The place of a message among those of its priority or more.
LEMMA MpriPlace ==
    ASSUME NEW c \in Seq(Msg), NEW s, ByMsgPri(c, s), NEW m \in Msg, NEW i, i = MpriPos(c, m)
    PROVE  /\ i \in 1..Len(c)+1
           /\ \A j \in 1..i-1 : MsgPri[c[j]] <= MsgPri[m]
           /\ \A j \in i..Len(c) : MsgPri[c[j]] > MsgPri[m]
<1> DEFINE lower == {j \in DOMAIN c : MsgPri[c[j]] > MsgPri[m]}
<1>0. i = IF lower = {} THEN Len(c) + 1 ELSE CHOOSE j \in lower : \A l \in lower : j <= l
  BY DEF MpriPos
<1>1. PICK n \in Nat : n = Len(c) /\ DOMAIN c = 1..n
  OBVIOUS
<1>2. MsgPri[m] \in Int /\ \A j \in 1..n : MsgPri[c[j]] \in Int
  BY <1>1, MailboxAssumption
<1>3. CASE lower = {}
  <2>1. i = n+1
    BY <1>0, <1>1, <1>3
  <2>2. \A j \in 1..n : MsgPri[c[j]] <= MsgPri[m]
    BY <1>1, <1>2, <1>3
  <2>3. i \in 1..n+1 /\ i-1 = n /\ i..n = {}
    BY ONLY <2>1, n \in Nat
  <2> QED BY ONLY <1>1, <2>2, <2>3
<1>4. CASE lower # {}
  <2>1. \E j \in lower : \A l \in lower : j <= l
    <3>1. lower \in SUBSET Nat
      BY <1>1
    <3> QED BY ONLY <1>4, <3>1, LeastElement
  <2>2. i \in lower /\ \A l \in lower : i <= l
    BY <1>0, <1>4, <2>1
  <2>3. i \in 1..n /\ MsgPri[c[i]] > MsgPri[m]
    BY <1>1, <2>2
  <2>4. ASSUME NEW j \in 1..i-1 PROVE MsgPri[c[j]] <= MsgPri[m]
    <3>1. j \in 1..n /\ ~(i <= j)
      BY ONLY <2>3, j \in 1..i-1, n \in Nat
    <3>2. j \notin lower
      BY <2>2, <3>1
    <3> QED BY <1>1, <1>2, <3>1, <3>2
  <2>5. ASSUME NEW j \in i..n PROVE MsgPri[c[j]] > MsgPri[m]
    <3>1. j \in 1..n /\ (i < j \/ i = j)
      BY ONLY <2>3, j \in i..n, n \in Nat
    <3>2. i < j => MsgPri[c[i]] < MsgPri[c[j]] \/ MsgPri[c[i]] = MsgPri[c[j]]
      BY <1>1, <2>3, <3>1 DEF ByMsgPri
    <3>3. MsgPri[c[i]] \in Int /\ MsgPri[c[j]] \in Int
      BY <1>2, <2>3, <3>1
    <3> QED BY ONLY <1>2, <2>3, <3>1, <3>2, <3>3
  <2>6. i \in 1..n+1
    BY <2>3
  <2> QED BY <1>1, <2>4, <2>5, <2>6
<1> QED BY <1>3, <1>4

\* Message m goes before the first message of lower priority.
LEMMA InsertedMsgs ==
    ASSUME NEW k, SyncTypes(k), NEW x \in MBX, k.mbxid[x], "MPRI" \in k.mbxatr[x],
           NEW m \in Msg, ~InMailbox(k, m),
           NEW k1, k1 = [QueueInsertMpri(k, x, m) EXCEPT !.msgs[x] = Append(@, m)]
    PROVE  MsgsChange(k1, k, x)
<1>1. PICK c : Sends(k, x, m, c)
  BY SendsChain
<1>2. /\ k.mqhead \in [MBX -> Msg \cup {NoMsg}] /\ k.mqtail \in [MBX -> Msg \cup {NoMsg}]
      /\ k.nextmsg \in [Msg -> Msg \cup {NoMsg}] /\ SyncField \subseteq DOMAIN k
      /\ k.msgs \in [MBX -> Seq(Msg)]
  BY DEF SyncTypes, MbxTypes, MsgState, MsgTypes
<1>3. c \in Seq(Msg) /\ Chain(k, k.mqhead[x]) = c
  BY <1>1 DEF Sends
<1>4. PICK n \in Nat : n = Len(c) /\ DOMAIN c = 1..n
  BY <1>3
<1>5. \A j \in 1..n : c[j] \in Msg /\ c[j] # m
  BY <1>1, <1>3, <1>4 DEF Sends, Contains
<1>7. PICK i : i = MpriPos(c, m)
  OBVIOUS
<1>8. ByMsgPri(c, k.msgs[x]) /\ \A e : Contains(c, e) <=> Contains(k.msgs[x], e)
  BY <1>1 DEF Sends, MsgChain
<1>9. /\ i \in 1..Len(c)+1
      /\ \A j \in 1..i-1 : MsgPri[c[j]] <= MsgPri[m]
      /\ \A j \in i..Len(c) : MsgPri[c[j]] > MsgPri[m]
  BY <1>3, <1>7, <1>8, MpriPlace
<1>10. i \in 1..n+1 /\ (i = n+1 \/ i \in 1..n) /\ (i > 1 => i-1 \in 1..n)
  BY <1>4, <1>9
<1>11. PICK nx : nx = IF i = n+1 THEN NoMsg ELSE c[i]
  OBVIOUS
<1>12. PICK head1, next1, msgs1 :
         /\ head1 = [k.mqhead EXCEPT ![x] = IF i = 1 THEN m ELSE @]
         /\ next1 = IF i = 1 THEN [k.nextmsg EXCEPT ![m] = nx]
                    ELSE [k.nextmsg EXCEPT ![m] = nx, ![c[i-1]] = m]
         /\ msgs1 = [k.msgs EXCEPT ![x] = Append(@, m)]
  OBVIOUS
<1>13. QueueInsertMpri(k, x, m) = IF i = 1 THEN [k EXCEPT !.nextmsg[m] = nx, !.mqhead[x] = m]
                                  ELSE [k EXCEPT !.nextmsg[m] = nx, !.nextmsg[c[i-1]] = m]
  <2>1. i > Len(c) <=> i = n+1
    BY <1>4, <1>10
  <2> QED BY <1>3, <1>7, <1>11, <2>1 DEF QueueInsertMpri
<1>14. /\ Only(k1, k, MsgField)
       /\ k1.mbxid = k.mbxid /\ k1.mbxatr = k.mbxatr /\ k1.mqtail = k.mqtail
       /\ k1.mqhead = head1 /\ k1.nextmsg = next1 /\ k1.msgs = msgs1
  <2>1. CASE i = 1
    <3>1. k1 = [[k EXCEPT !.nextmsg[m] = nx, !.mqhead[x] = m] EXCEPT !.msgs[x] = Append(@, m)]
      BY <1>13, <2>1
    <3> QED BY <1>2, <1>12, <2>1, <3>1 DEF Only, MsgField, SyncField
  <2>2. CASE i # 1
    <3>1. k1 = [[k EXCEPT !.nextmsg[m] = nx, !.nextmsg[c[i-1]] = m] EXCEPT !.msgs[x] = Append(@, m)]
      BY <1>13, <2>2
    <3>2. head1 = k.mqhead
      BY <1>2, <1>12, <2>2
    <3> QED BY <1>2, <1>12, <2>2, <3>1, <3>2 DEF Only, MsgField, SyncField
  <2> QED BY <2>1, <2>2
<1>15. /\ head1 \in [MBX -> Msg \cup {NoMsg}] /\ head1[x] = IF i = 1 THEN m ELSE k.mqhead[x]
       /\ k.mqtail \in [MBX -> Msg \cup {NoMsg}]
       /\ \A y \in MBX \ {x} : head1[y] = k.mqhead[y] /\ k.mqtail[y] = k.mqtail[y]
  BY <1>2, <1>12
<1>16. /\ next1 \in [Msg -> Msg \cup {NoMsg}] /\ next1[m] = nx
       /\ i > 1 => next1[c[i-1]] = m
       /\ \A e \in Msg : e # m /\ (i > 1 => e # c[i-1]) => next1[e] = k.nextmsg[e]
  <2>0. nx \in Msg \cup {NoMsg}
    BY <1>5, <1>10, <1>11
  <2>1. CASE i = 1
    BY <1>2, <1>12, <2>0, <2>1
  <2>2. CASE i # 1
    <3>1. i > 1 /\ i-1 \in 1..n
      BY <1>10, <2>2
    <3>2. c[i-1] \in Msg /\ c[i-1] # m
      BY <1>5, <3>1
    <3> QED BY <1>2, <1>12, <2>0, <2>2, <3>1, <3>2
  <2> QED BY <2>1, <2>2
<1>17. PICK d : d = InsertAt(c, i, m)
  OBVIOUS
<1>18. d \in Seq(Msg) /\ Inserted(c, i, m, d)
  BY <1>3, <1>9, <1>17, InsertAtIndex
<1>19. ByMsgPri(d, msgs1[x])
  <2>1. k.msgs[x] \in Seq(Msg) /\ msgs1[x] = Append(k.msgs[x], m)
    BY <1>2, <1>12
  <2>2. ByMsgPri(d, Append(k.msgs[x], m))
    BY ONLY <1>3, <1>8, <1>9, <1>18, <2>1, m \in Msg, PriInserted
  <2> QED BY <2>1, <2>2
<1>20. MsgState(k.mbxid, k.mbxatr, head1, k.mqtail, next1, msgs1)
  <2>1. /\ k.mbxid \in [MBX -> BOOLEAN] /\ k.mbxatr \in [MBX -> SUBSET MbxAtr]
        /\ MsgState(k.mbxid, k.mbxatr, k.mqhead, k.mqtail, k.nextmsg, k.msgs)
        /\ \A y \in MBX : ~Contains(k.msgs[y], m)
        /\ MsgChain(k.mbxatr[x], k.mqhead[x], k.mqtail[x], k.nextmsg, k.msgs[x], c)
    BY <1>1 DEF Sends
  <2>2. IF "MPRI" \in k.mbxatr[x] THEN ByMsgPri(d, msgs1[x])
        ELSE i = Len(c)+1 /\ k.mqtail[x] = m
    BY <1>19
  <2>3. d = InsertAt(c, i, m) /\ msgs1 = [k.msgs EXCEPT ![x] = Append(@, m)]
    BY <1>12, <1>17
  <2>4. next1[m] = IF i = Len(c)+1 THEN NoMsg ELSE c[i]
    BY <1>4, <1>11, <1>16
  <2>5. MsgLink(k.mbxid, k.mbxatr, k.mqhead, k.mqtail, k.nextmsg, k.msgs, x, m, c, i, d,
                head1, k.mqtail, next1, msgs1)
    BY ONLY <1>9, <1>15, <1>16, <2>1, <2>2, <2>3, <2>4, x \in MBX, k.mbxid[x], m \in Msg
       DEF MsgLink
  <2> QED BY <2>5, MsgLinked
<1>21. DOMAIN k1.mqhead = DOMAIN k.mqhead
  BY <1>2, <1>14, <1>15
<1>22. \A y \in MBX \ {x} : k1.mqhead[y] = k.mqhead[y]
  BY <1>14, <1>15
<1> QED BY <1>14, <1>20, <1>21, <1>22 DEF MsgsChange

LEMMA SndMbxServed ==
    ASSUME ServedInv, NEW c, NEW x \in MBX, NEW m \in Msg, SndMbx(c, x, m)
    PROVE  ServedInv'
<1>1. /\ AllServed(kn) /\ SyncState(kn) /\ AllQueued(kn) /\ x \in SyncObject /\ SyncTypes(kn)
      /\ KState(kn) /\ \A h \in SyncObject : ObjectOk(kn, h)
  BY DEF ServedInv, AllServed, SyncObject, SyncState
<1>2. CASE kn.que[x] # <<>>
  <2> DEFINE t == Head(kn.que[x])
             k1 == EndWait(kn, t, "E_OK")
  <2>1. SystemCall(c, k1)
    BY <1>2 DEF SndMbx
  <2>2. t \in Task /\ kn.wid[t] = x
    <3>1. kn.que[x] \in Seq(Task) /\ 1 \in DOMAIN kn.que[x]
      BY <1>1, <1>2, QueueEntries
    <3>2. t = kn.que[x][1]
      BY <1>2, <3>1
    <3> QED BY <1>1, <3>1, <3>2, QueueEntries
  <2> HIDE DEF t
  <2>3. Served(k1, kn, t, x)
    BY <1>1, <2>2, EndWaitServed
  <2> HIDE DEF k1
  <2>4. SyncState(k1) /\ Releases(k1, kn, x)
    BY <2>3 DEF Served
  <2>5. k1.mqhead = kn.mqhead
    BY <1>1, <2>4, FieldsApart DEF Releases, Only, SyncTypes, SyncField, TaskField, KernelField, WaitField
  <2>6. ObjectOk(k1, x)
    <3>1. MbxOk(kn, x)
      BY <1>1 DEF ObjectOk
    <3>2. MbxOk(k1, x)
      BY <1>2, <2>5, <3>1 DEF MbxOk
    <3> QED BY <1>1, <3>2, SyncObjectKinds DEF ObjectOk
  <2>7. \A h \in SyncObject \ {x} : ObjectOk(k1, h)
    BY <1>1, <2>4, ReleasesOk
  <2>8. AllQueued(k1)
    BY <1>1, <2>4, ReleasesOk DEF AllQueued
  <2>9. AllServed(k1)
    BY <2>4, <2>6, <2>7, <2>8 DEF AllServed
  <2> QED BY <2>1, <2>9, CallServed
<1>3. CASE kn.que[x] = <<>>
  <2>1. kn.mbxid[x] /\ ~InMailbox(kn, m)
    BY DEF SndMbx
  <2> DEFINE ka == IF "MPRI" \in kn.mbxatr[x] THEN QueueInsertMpri(kn, x, m)
                   ELSE Connect(kn, x, m)
             k1 == [ka EXCEPT !.msgs[x] = Append(@, m)]
  <2>2. SystemCall(c, k1)
    BY <1>3 DEF SndMbx
  <2>3. MsgsChange(k1, kn, x)
    <3>1. CASE "MPRI" \in kn.mbxatr[x]
      <4>1. k1 = [QueueInsertMpri(kn, x, m) EXCEPT !.msgs[x] = Append(@, m)]
        BY <3>1
      <4> HIDE DEF k1
      <4> QED BY <1>1, <2>1, <3>1, <4>1, InsertedMsgs
    <3>2. CASE "MPRI" \notin kn.mbxatr[x]
      <4>1. k1 = [Connect(kn, x, m) EXCEPT !.msgs[x] = Append(@, m)]
        BY <3>2
      <4> HIDE DEF k1
      <4> QED BY <1>1, <2>1, <3>2, <4>1, ConnectMsgs
    <3> QED BY <3>1, <3>2
  <2> HIDE DEF k1
  <2>4. AllServed(k1)
    BY <1>1, <1>3, <2>3, MsgsServed
  <2> QED BY <2>2, <2>4, CallServed
<1> QED BY <1>2, <1>3

\* tk_rcv_mbx, when the task begins to wait.
LEMMA MbxWaitServed ==
    ASSUME NEW k, AllServed(k), NEW t \in Task, k.state[t] = "READY", NEW x \in MBX, k.mbxid[x],
           k.mqhead[x] = NoMsg, NEW tmout, NEW info,
           NEW tpri, tpri = ("TPRI" \in k.mbxatr[x]),
           NEW wspec, wspec = (IF tpri THEN "mbx_tpri" ELSE "mbx_tfifo"),
           NEW k1, k1 = GcbMakeWait(k, t, x, x, tpri, wspec, info, tmout)
    PROVE  AllServed(k1)
<1>1. x \in SyncObject
  BY DEF SyncObject
<1>2. tpri <=> ByPriority(k, x)
  BY <1>1, SyncObjectKinds DEF ByPriority
<1>3. Joins(k, x, wspec, info)
  BY <1>2 DEF Joins
<1>4. Joined(k1, k, t, x, info)
  BY <1>1, <1>2, <1>3, BegunState
<1>5. MbxOk(k1, x)
  BY <1>4 DEF Joined, SameObject, MbxOk
<1>6. ObjectOk(k1, x)
  BY <1>1, <1>5, SyncObjectKinds DEF ObjectOk
<1> QED BY <1>1, <1>4, <1>6, JoinedServed

LEMMA RcvMbxServed ==
    ASSUME ServedInv, NEW x \in MBX, NEW tmout, RcvMbx(x, tmout)
    PROVE  ServedInv'
<1>1. AllServed(kn) /\ SyncTypes(kn) /\ x \in SyncObject
  BY DEF ServedInv, AllServed, SyncState, SyncObject
<1>2. ctxtsk \in Task /\ kn.state[ctxtsk] = "READY" /\ kn.mbxid[x]
  BY CallerReady DEF RcvMbx, CanWait
<1>3. CASE kn.mqhead[x] # NoMsg
  <2> PICK m, n, q : m = kn.mqhead[x] /\ n = kn.nextmsg[m] /\ q = Unlink(kn.msgs[x], m)
    OBVIOUS
  <2> DEFINE k1 == [kn EXCEPT !.mqhead[x] = n, !.nextmsg[m] = NoMsg, !.msgs[x] = q]
  <2>1. SystemCall("task", k1)
    BY <1>3 DEF RcvMbx
  <2>2. /\ Only(k1, kn, MsgField) /\ k1.mqhead = [kn.mqhead EXCEPT ![x] = n]
        /\ k1.nextmsg = [kn.nextmsg EXCEPT ![m] = NoMsg] /\ k1.msgs = [kn.msgs EXCEPT ![x] = q]
        /\ k1.mbxid = kn.mbxid /\ k1.mbxatr = kn.mbxatr /\ k1.mqtail = kn.mqtail
    BY <1>1 DEF Only, MsgField, SyncTypes, SyncField
  <2> HIDE DEF k1
  <2>6. MsgState(k1.mbxid, k1.mbxatr, k1.mqhead, k1.mqtail, k1.nextmsg, k1.msgs)
    <3>1. /\ kn.mbxid \in [MBX -> BOOLEAN] /\ kn.mbxatr \in [MBX -> SUBSET MbxAtr]
          /\ MsgState(kn.mbxid, kn.mbxatr, kn.mqhead, kn.mqtail, kn.nextmsg, kn.msgs)
      BY <1>1 DEF SyncTypes, MbxTypes
    <3>2. PICK head1, next1, msgs1 :
             /\ head1 = [kn.mqhead EXCEPT ![x] = kn.nextmsg[m]]
             /\ next1 = [kn.nextmsg EXCEPT ![m] = NoMsg]
             /\ msgs1 = [kn.msgs EXCEPT ![x] = Unlink(@, m)]
      OBVIOUS
    <3>3. MsgState(kn.mbxid, kn.mbxatr, head1, kn.mqtail, next1, msgs1)
      BY ONLY <1>2, <1>3, <3>1, <3>2, x \in MBX, m = kn.mqhead[x], MsgReceived
    <3>4. k1.mqhead = head1 /\ k1.nextmsg = next1 /\ k1.msgs = msgs1
      BY <2>2, <3>2
    <3> QED BY <2>2, <3>3, <3>4
  <2>3. MsgsChange(k1, kn, x)
    BY <1>1, <2>2, <2>6 DEF MsgsChange, SyncTypes, MbxTypes
  <2>4. kn.que[x] = <<>>
    BY <1>1, <1>3 DEF AllServed, ObjectOk, MbxOk
  <2>5. AllServed(k1)
    BY <1>1, <2>3, <2>4, MsgsServed
  <2> QED BY <2>1, <2>5, CallServed
<1>4. CASE kn.mqhead[x] = NoMsg
  <2> PICK tpri : tpri = ("TPRI" \in kn.mbxatr[x])
    OBVIOUS
  <2> PICK wspec : wspec = (IF tpri THEN "mbx_tpri" ELSE "mbx_tfifo")
    OBVIOUS
  <2> DEFINE k1 == GcbMakeWait(kn, ctxtsk, x, x, tpri, wspec, NoInfo, tmout)
  <2>1. SystemCall("task", k1)
    BY <1>4 DEF RcvMbx
  <2>2. AllServed(k1)
    <3> HIDE DEF k1
    <3> QED BY <1>1, <1>2, <1>4, MbxWaitServed DEF k1
  <2> HIDE DEF k1
  <2> QED BY <2>1, <2>2, CallServed
<1> QED BY <1>3, <1>4

(***************************************************************************)
(* The calls on tasks, and the dispatcher.                                 *)
(***************************************************************************)
LEMMA AsideServed ==
    ASSUME NEW k, AllServed(k), NEW k1, Undisturbed(k1, k), Aside(k1, k)
    PROVE  AllServed(k1)
<1>1. SyncState(k1) /\ \A o \in SyncObject : ObjectOk(k, o) => ObjectOk(k1, o)
  BY AsideState DEF AllServed
<1>2. \A u \in Task : Kept(k1, k, u)
  BY DEF Undisturbed
<1>3. AllQueued(k1)
  BY <1>2 DEF AllServed, AllQueued, Kept
<1> QED BY <1>1, <1>3 DEF AllServed

\* What a finished wait has left in ercd makes no difference.
LEMMA ErcdServed ==
    ASSUME NEW k, AllServed(k), NEW k1, KState(k1), Only(k1, k, {"wercd"})
    PROVE  AllServed(k1)
<1>1. /\ SyncState(k) /\ AllQueued(k) /\ KState(k) /\ SyncTypes(k) /\ QueueOrder(k) /\ OneWaiter(k)
      /\ \A o \in SyncObject : ObjectOk(k, o)
  BY DEF AllServed, SyncState
<1>2. /\ k1.state = k.state /\ k1.wid = k.wid /\ k1.winfo = k.winfo /\ k1.wspec = k.wspec
      /\ k1.que = k.que /\ k1.priority = k.priority
  BY <1>1, StateFacts DEF Only, KernelField, WaitField
<1>3. Only(k1, k, TaskField)
  BY DEF Only, TaskField, KernelField
<1>4. /\ SyncTypes(k1) /\ \A o : ByPriority(k1, o) <=> ByPriority(k, o)
      /\ \A o : SameObject(k1, k, o) /\ k1.flgatr = k.flgatr
  BY <1>1, <1>3, TypesKept
<1>5. ASSUME NEW t \in Task PROVE WaitOf(k1, t)
  BY <1>1, <1>2, <1>3, WaitKept
<1>6. QueueOrder(k1) /\ OneWaiter(k1)
  BY <1>1, <1>2, <1>4 DEF QueueOrder, OneWaiter
<1>7. ASSUME NEW o \in SyncObject PROVE ObjectOk(k1, o)
  <2>1. SameQueue(k1, k, o)
    BY <1>2 DEF SameQueue
  <2> QED BY <1>1, <1>4, <2>1, OkSame
<1>8. AllQueued(k1)
  BY <1>1, <1>2 DEF AllQueued
<1> QED BY <1>4, <1>5, <1>6, <1>7, <1>8 DEF AllServed, SyncState

LEMMA TaskStepServed ==
    ASSUME ServedInv, TaskStep
    PROVE  ServedInv'
<1>1. TaskControl /\ AllServed(kn) /\ KState(kn)
  BY DEF ServedInv, AllServed, SyncState
<1>2. TaskControl' /\ Undisturbed(kn', kn) /\ Aside(kn', kn)
  BY <1>1, TaskStepKeeps
<1>3. AllServed(kn')
  BY <1>1, <1>2, AsideServed
<1> QED BY <1>2, <1>3 DEF ServedInv

LEMMA DispatchServed ==
    ASSUME ServedInv, DispatchSwitch
    PROVE  ServedInv'
<1>1. TaskControl /\ AllServed(kn) /\ KState(kn)
  BY DEF ServedInv, AllServed, SyncState
<1>2. TaskControl' /\ KState(kn') /\ Only(kn', kn, {"wercd"})
  BY <1>1, DispatchSwitchKeeps
<1>3. AllServed(kn')
  BY <1>1, <1>2, ErcdServed
<1> QED BY <1>2, <1>3 DEF ServedInv

LEMMA ReleasedServed ==
    ASSUME SyncHooks, ServedInv, NEW t \in Task, (\E c : RelWaiWait(c, t)) \/ TimerEventWait(t)
    PROVE  ServedInv'
<1>1. AllServed(kn) /\ KState(kn)
  BY DEF ServedInv, AllServed, SyncState
<1>2. PICK c, ercd : SystemCall(c, ReleaseFailed(kn, t, ercd))
  BY DEF RelWaiWait, TimerEventWait
<1>3. kn.state[t] \in WaitBit
  BY <1>1 DEF RelWaiWait, TimerEventWait, KState, WaitsOnly
<1>4. AllServed(ReleaseFailed(kn, t, ercd))
  BY <1>1, <1>3, FailedState
<1> QED BY <1>2, <1>4, CallServed

LEMMA TerTskServed ==
    ASSUME SyncHooks, ServedInv, NEW t \in Task, TerTskWait(t)
    PROVE  ServedInv'
<1>1. PICK k0 : k0 = Withdrawn(kn, t)
  OBVIOUS
<1>2. PICK k1 : k1 = IF kn.state[t] \in WaitBit THEN RelWaiHook(k0, kn.wid[t], kn.wspec[t]) ELSE k0
  OBVIOUS
<1>3. PICK k2 : k2 = MakeDormant(k1, t)
  OBVIOUS
<1>4. SystemCall("task", k2) /\ kn.state[t] \in Alive
  BY <1>1, <1>2, <1>3 DEF TerTskWait, Withdrawn
<1>5. AllServed(kn)
  BY DEF ServedInv
<1>6. AllServed(k2)
  BY ONLY SyncHooks, t \in Task, <1>1, <1>2, <1>3, <1>4, <1>5, EndedState
<1> QED BY <1>4, <1>6, CallServed

LEMMA ChgPriServed ==
    ASSUME SyncHooks, ServedInv, NEW c, NEW t \in Task, NEW p \in Pri, ChgPriWait(c, t, p)
    PROVE  ServedInv'
<1>1. TaskControl /\ AllServed(kn) /\ KState(kn)
  BY DEF ServedInv, AllServed, SyncState
<1>2. CASE TaskControl' /\ Undisturbed(kn', kn) /\ Aside(kn', kn)
  BY <1>1, <1>2, AsideServed DEF ServedInv
<1>3. ASSUME kn.state[t] \in WaitBit, NEW k, Undisturbed(k, kn), Only(k, kn, {"bpriority"}),
             SystemCall(c, ChgPriHook([k EXCEPT !.priority[t] = p], t))
      PROVE  ServedInv'
  <2>1. Aside(k, kn)
    BY <1>1, <1>3, AsideFields
  <2>2. AllServed(k)
    BY <1>1, <1>3, <2>1, AsideServed
  <2>3. k.state[t] \in WaitBit
    BY <1>3 DEF Undisturbed, Kept
  <2> DEFINE k1 == ChgPriHook([k EXCEPT !.priority[t] = p], t)
  <2>4. k1 = SyncChgPri([k EXCEPT !.priority[t] = p], t)
    BY DEF SyncHooks
  <2>5. AllServed(k1)
    BY <2>2, <2>3, <2>4, ChgPriState
  <2>6. SystemCall(c, k1)
    BY <1>3
  <2> HIDE DEF k1
  <2> QED BY <2>5, <2>6, CallServed
<1> QED BY <1>1, <1>2, <1>3, ChgPriWaitKeeps

(***************************************************************************)
(* The specification.                                                      *)
(***************************************************************************)
LEMMA FreeSyncObjects ==
    ASSUME NEW k0, FirstState(k0), DOMAIN k0 = TaskField,
           NEW k, k = WithFreeMailboxes(WithFreeEventFlags(WithFreeSemaphores(k0)))
    PROVE  FirstState(k) /\ SyncTypes(k)
<1> DEFINE r1 == [semid |-> [s \in SEM |-> FALSE], sematr |-> [s \in SEM |-> {}],
                  semcnt |-> [s \in SEM |-> 0], maxsem |-> [s \in SEM |-> 0]]
           r2 == [flgid |-> [f \in FLG |-> FALSE], flgatr |-> [f \in FLG |-> {}],
                  flgptn |-> [f \in FLG |-> {}]]
           r3 == [mbxid |-> [x \in MBX |-> FALSE], mbxatr |-> [x \in MBX |-> {}],
                  mqhead |-> [x \in MBX |-> NoMsg], mqtail |-> [x \in MBX |-> NoMsg],
                  nextmsg |-> [m \in Msg |-> NoMsg], msgs |-> [x \in MBX |-> <<>>]]
           k1 == WithFields(k0, r1)
           k2 == WithFields(k1, r2)
           F1 == {"semid", "sematr", "semcnt", "maxsem"}
           F2 == {"flgid", "flgatr", "flgptn"}
           F3 == {"mbxid", "mbxatr", "mqhead", "mqtail", "nextmsg", "msgs"}
<1>1. k = WithFields(k2, r3)
  BY DEF WithFreeMailboxes, WithFreeEventFlags, WithFreeSemaphores
<1>2. DOMAIN r1 = F1 /\ DOMAIN r2 = F2 /\ DOMAIN r3 = F3
  OBVIOUS
<1>3. /\ r1.semid \in [SEM -> BOOLEAN] /\ r1.sematr \in [SEM -> SUBSET SemAtr]
      /\ r1.maxsem \in [SEM -> 0..SemCntMax] /\ r1.semcnt \in [SEM -> Nat]
      /\ \A s \in SEM : r1.semcnt[s] \in 0..r1.maxsem[s]
  BY SemaphoreAssumption
<1>4. /\ r2.flgid \in [FLG -> BOOLEAN] /\ r2.flgatr \in [FLG -> SUBSET FlgAtr]
      /\ r2.flgptn \in [FLG -> Pattern]
  BY DEF Pattern
<1>5. /\ r3.mbxid \in [MBX -> BOOLEAN] /\ r3.mbxatr \in [MBX -> SUBSET MbxAtr]
      /\ DOMAIN r3.mqhead = MBX
      /\ MsgState(r3.mbxid, r3.mbxatr, r3.mqhead, r3.mqtail, r3.nextmsg, r3.msgs)
  BY MsgFirst
<1>6. /\ SyncField = F1 \cup F2 \cup F3
      /\ F1 \cap TaskField = {} /\ F2 \cap TaskField = {} /\ F3 \cap TaskField = {}
      /\ F1 \cap F2 = {} /\ F1 \cap F3 = {} /\ F2 \cap F3 = {}
  BY FieldsApart DEF SyncField
<1> HIDE DEF r1, r2, r3, k1, k2, F1, F2, F3
<1>7. /\ DOMAIN k1 = TaskField \cup F1 /\ \A f \in TaskField : k1[f] = k0[f]
      /\ \A f \in F1 : k1[f] = r1[f]
  BY <1>2, <1>6 DEF WithFields, k1
<1>8. /\ DOMAIN k2 = TaskField \cup F1 \cup F2 /\ \A f \in TaskField : k2[f] = k0[f]
      /\ \A f \in F1 : k2[f] = r1[f]
      /\ \A f \in F2 : k2[f] = r2[f]
  BY <1>2, <1>6, <1>7 DEF WithFields, k2
<1>9. /\ DOMAIN k = TaskField \cup F1 \cup F2 \cup F3 /\ \A f \in TaskField : k[f] = k0[f]
      /\ \A f \in F1 : k[f] = r1[f]
      /\ \A f \in F2 : k[f] = r2[f]
      /\ \A f \in F3 : k[f] = r3[f]
  BY <1>1, <1>2, <1>6, <1>8 DEF WithFields
<1>10. FirstState(k)
  BY <1>9, FirstStateKept
<1>11. SemTypes(k)
  <2>1. k.semid = r1.semid /\ k.sematr = r1.sematr /\ k.semcnt = r1.semcnt /\ k.maxsem = r1.maxsem
    BY <1>9 DEF F1
  <2> QED BY <1>3, <2>1 DEF SemTypes
<1>12. FlgTypes(k)
  <2>1. k.flgid = r2.flgid /\ k.flgatr = r2.flgatr /\ k.flgptn = r2.flgptn
    BY <1>9 DEF F2
  <2> QED BY <1>4, <2>1 DEF FlgTypes
<1>13. MbxTypes(k)
  <2>1. /\ k.mbxid = r3.mbxid /\ k.mbxatr = r3.mbxatr /\ k.mqhead = r3.mqhead
        /\ k.mqtail = r3.mqtail /\ k.nextmsg = r3.nextmsg /\ k.msgs = r3.msgs
    BY <1>9 DEF F3
  <2> QED BY <1>5, <2>1 DEF MbxTypes
<1> QED BY <1>6, <1>9, <1>10, <1>11, <1>12, <1>13 DEF SyncTypes

LEMMA FirstServed ==
    ASSUME NEW k, FirstState(k), SyncTypes(k)
    PROVE  AllServed(k)
<1>1. KState(k) /\ \A t \in Task : k.wid[t] = NoObj /\ k.state[t] \notin WaitBit
  BY ATaskWaits DEF FirstState
<1>2. \A o \in SyncObject : k.que[o] = <<>>
  BY <1>1, EmptyQueue, SyncObjectKinds
<1>3. \A o \in SyncObject : ObjectOk(k, o) /\ Ordered(k.que[o], k.priority)
  BY <1>1, <1>2, EmptyQueue
<1>4. (\A t \in Task : WaitOf(k, t)) /\ QueueOrder(k)
  BY <1>1, <1>3 DEF WaitOf, QueueOrder
<1>5. OneWaiter(k)
  <2>1. \A f \in FLG : f # NoObj
    BY SyncObjectKinds DEF SyncObject
  <2> QED BY <1>1, <2>1 DEF OneWaiter
<1> QED BY <1>1, <1>3, <1>4, <1>5 DEF AllServed, SyncState, AllQueued

LEMMA SyncFirst == SyncInit => ServedInv
<1> SUFFICES ASSUME SyncInit PROVE ServedInv
  OBVIOUS
<1> DEFINE k0 == MakeReady(CreateTcb(InitKernel, 0), 1)
           k1 == WithNoWait(k0)
<1>1. kn = WithFreeMailboxes(WithFreeEventFlags(WithFreeSemaphores(k1)))
  BY DEF SyncInit, WithFreeSyncObjects
<1>2. FirstState(k1) /\ DOMAIN k1 = TaskField
  <2>1. PICK r : FirstTask(k0, r)
    BY FirstTaskReady
  <2> HIDE DEF k0
  <2> QED BY <2>1, NoWaitState
<1> HIDE DEF k1
<1>3. FirstState(kn) /\ SyncTypes(kn)
  BY <1>1, <1>2, FreeSyncObjects
<1>4. TaskControl
  BY DEF SyncInit, TaskControl, InTask
<1> QED BY <1>3, <1>4, FirstServed DEF ServedInv

LEMMA SyncStep == SyncHooks /\ ServedInv /\ [SyncNext]_vars => ServedInv'
<1> SUFFICES ASSUME SyncHooks, ServedInv, [SyncNext]_vars PROVE ServedInv'
  OBVIOUS
<1>1. CASE SemCall
  BY <1>1, CreSemServed, DelSemServed, SigSemServed, WaiSemServed DEF SemCall
<1>2. CASE FlgCall
  BY <1>2, CreFlgServed, DelFlgServed, SetFlgServed, ClrFlgServed, WaiFlgServed DEF FlgCall
<1>3. CASE MbxCall
  BY <1>3, CreMbxServed, DelMbxServed, SndMbxServed, RcvMbxServed DEF MbxCall
<1>4. CASE SyncTaskCall
  BY <1>4, TerTskServed, ReleasedServed, ChgPriServed DEF SyncTaskCall
<1>5. CASE OtherTaskCall
  <2>1. TaskStep \/ DispatchSwitch
    BY <1>5 DEF OtherTaskCall, TaskStep
  <2> QED BY <2>1, TaskStepServed, DispatchServed
<1>6. CASE UNCHANGED vars
  BY <1>6 DEF ServedInv, TaskControl, InTask, vars
<1> QED BY <1>1, <1>2, <1>3, <1>4, <1>5, <1>6 DEF SyncNext

LEMMA ServedInvServed == ServedInv => NoSatisfiedWaiter
<1> SUFFICES ASSUME ServedInv PROVE NoSatisfiedWaiter
  OBVIOUS
<1>1. KState(kn) /\ \A o \in SyncObject : ObjectOk(kn, o)
  BY DEF ServedInv, AllServed, SyncState
<1>2. SemNoSatisfiedWaiter
  BY <1>1 DEF SemNoSatisfiedWaiter, SyncObject, ObjectOk, SemOk
<1>3. ASSUME NEW f \in FLG, NEW t \in ToSet(kn.que[f]) PROVE ~Cond(kn.flgptn[f], kn.winfo[t])
  <2>1. f \in SyncObject /\ FlgOk(kn, f)
    BY <1>1 DEF SyncObject, ObjectOk
  <2>2. PICK i \in DOMAIN kn.que[f] : kn.que[f][i] = t
    BY <1>1, <1>3, <2>1, QueueEntries DEF ToSet
  <2> QED BY <2>1, <2>2 DEF FlgOk
<1>4. MbxNoSatisfiedWaiter
  BY <1>1 DEF MbxNoSatisfiedWaiter, SyncObject, ObjectOk, MbxOk
<1> QED BY <1>2, <1>3, <1>4 DEF NoSatisfiedWaiter, FlgNoSatisfiedWaiter

\* semaphore.c, eventflag.c, mailbox.c: no task waits for what is there, for
\* any number of tasks, priorities, objects, units, bits and messages.  The
\* first task of a semaphore needs more units than there are, with TA_CNT
\* every task does; no condition of a task that waits for an event flag holds,
\* whatever the tasks released before it cleared; and nobody waits at a
\* mailbox that has a message: after every call, also when a task times out,
\* is released or terminated, or gets another priority while it waits.
THEOREM SyncSpecNoSatisfiedWaiter ==
    ASSUME SyncHooks
    PROVE  SyncSpec => []NoSatisfiedWaiter
<1>1. SyncInit => ServedInv
  BY SyncFirst
<1>2. ServedInv /\ [SyncNext]_vars => ServedInv'
  BY SyncStep
<1>3. ServedInv => NoSatisfiedWaiter
  BY ServedInvServed
<1> QED BY <1>1, <1>2, <1>3, PTL DEF SyncSpec

\* The queue of object o is exact.
LEMMA ExactQueue ==
    ASSUME NEW k, SyncState(k), AllQueued(k), NEW o \in SyncObject, NEW tpri, tpri => ByPriority(k, o)
    PROVE  QueueExact(k, o, {t \in Task : WaitsFor(k, t, o)}, tpri)
<1> DEFINE s == k.que[o]
<1>1. /\ KState(k) /\ QueueOrder(k)
  BY DEF SyncState
<1>2. /\ o # NoObj /\ s \in Seq(Task) /\ IsInjective(s) /\ DOMAIN s = 1..Len(s)
      /\ \A i \in DOMAIN s : s[i] \in Task /\ k.wid[s[i]] = o
      /\ \A u \in Task : k.wid[u] = o => \E i \in DOMAIN s : s[i] = u
  BY <1>1, QueueEntries
<1>3. \A u \in Task : k.wid[u] = o => k.state[u] \in WaitBit
  BY <1>1, <1>2 DEF KState, WaitsOnly
<1>4. tpri => \A i, j \in DOMAIN s : i < j => k.priority[s[i]] <= k.priority[s[j]]
  BY <1>1 DEF QueueOrder, Ordered
<1> HIDE DEF s
<1>5. ToSet(s) = {t \in Task : WaitsFor(k, t, o)}
  BY <1>2, <1>3 DEF ToSet, WaitsFor
<1> QED BY <1>2, <1>4, <1>5 DEF QueueExact, s

LEMMA ServedInvQueues == ServedInv => SyncQueuesExact
<1> SUFFICES ASSUME ServedInv PROVE SyncQueuesExact
  OBVIOUS
<1>1. /\ SyncState(kn) /\ AllQueued(kn) /\ KState(kn) /\ OneWaiter(kn)
      /\ SemTypes(kn) /\ FlgTypes(kn) /\ MbxTypes(kn)
  BY DEF ServedInv, AllServed, SyncState, SyncTypes
<1>2. SemTypeOK /\ FlgTypeOK
  BY <1>1 DEF SemTypeOK, FlgTypeOK, SemTypes, FlgTypes
<1>3. MbxTypeOK
  BY <1>1 DEF MbxTypeOK, MbxTypes, MsgState, MsgTypes
<1>4. ASSUME NEW o \in SyncObject, NEW tpri, tpri => ByPriority(kn, o)
      PROVE  QueueExact(kn, o, {t \in Task : WaitsFor(kn, t, o)}, tpri)
  BY ONLY <1>1, <1>4, ExactQueue
<1>5. SemQueueExact
  <2> SUFFICES ASSUME NEW s \in SEM
               PROVE  QueueExact(kn, s, {t \in Task : WaitsFor(kn, t, s)}, "TPRI" \in kn.sematr[s])
    BY DEF SemQueueExact
  <2>1. s \in SyncObject /\ ("TPRI" \in kn.sematr[s] => ByPriority(kn, s))
    BY DEF SyncObject, ByPriority
  <2> QED BY <1>4, <2>1
<1>6. MbxQueueExact
  <2> SUFFICES ASSUME NEW s \in MBX
               PROVE  QueueExact(kn, s, {t \in Task : WaitsFor(kn, t, s)}, "TPRI" \in kn.mbxatr[s])
    BY DEF MbxQueueExact
  <2>1. s \in SyncObject /\ ("TPRI" \in kn.mbxatr[s] => ByPriority(kn, s))
    BY DEF SyncObject, ByPriority
  <2> QED BY <1>4, <2>1
<1>7. FlgQueueExact
  <2> SUFFICES ASSUME NEW f \in FLG
               PROVE  /\ QueueExact(kn, f, {t \in Task : WaitsFor(kn, t, f)}, "TPRI" \in kn.flgatr[f])
                      /\ "WMUL" \notin kn.flgatr[f] => Len(kn.que[f]) <= 1
    BY DEF FlgQueueExact
  <2>1. f \in SyncObject /\ ("TPRI" \in kn.flgatr[f] => ByPriority(kn, f))
    BY DEF SyncObject, ByPriority
  <2>2. ASSUME "WMUL" \notin kn.flgatr[f] PROVE Len(kn.que[f]) <= 1
    <3>1. PICK n \in Nat : n = Len(kn.que[f])
      BY <1>1, <2>1, QueueEntries
    <3>2. /\ IsInjective(kn.que[f]) /\ DOMAIN kn.que[f] = 1..n
          /\ \A i \in 1..n : kn.que[f][i] \in Task /\ kn.wid[kn.que[f][i]] = f
      BY <1>1, <2>1, <3>1, QueueEntries
    <3>3. ASSUME n >= 2 PROVE FALSE
      <4>1. 1 \in 1..n /\ 2 \in 1..n /\ 1 # 2
        BY <3>3
      <4>2. kn.que[f][1] = kn.que[f][2]
        BY <1>1, <2>2, <3>2, <4>1 DEF OneWaiter
      <4> QED BY <3>2, <4>1, <4>2 DEF IsInjective
    <3> QED BY <3>1, <3>3
  <2> QED BY <1>4, <2>1, <2>2
<1>8. \A t \in Task : kn.state[t] \in WaitBit <=> kn.wid[t] # NoObj
  BY <1>1 DEF AllQueued, KState, WaitsOnly
<1> QED BY <1>2, <1>3, <1>5, <1>6, <1>7, <1>8 DEF SyncQueuesExact

LEMMA ServedInvMessages == ServedInv => MessagesInOrder
<1> SUFFICES ASSUME ServedInv, NEW x \in MBX, NEW chain, chain = Chain(kn, kn.mqhead[x])
             PROVE  IF "MPRI" \in kn.mbxatr[x]
                    THEN /\ ToSet(chain) = ToSet(kn.msgs[x]) /\ IsInjective(chain)
                         /\ ByMsgPri(chain, kn.msgs[x])
                    ELSE /\ chain = kn.msgs[x]
                         /\ chain # <<>> => kn.mqtail[x] = Last(chain)
  BY DEF MessagesInOrder, ByMsgPri
<1>1. MsgState(kn.mbxid, kn.mbxatr, kn.mqhead, kn.mqtail, kn.nextmsg, kn.msgs)
  BY DEF ServedInv, AllServed, SyncState, SyncTypes, MbxTypes
<1>2. PICK c : MsgChain(kn.mbxatr[x], kn.mqhead[x], kn.mqtail[x], kn.nextmsg, kn.msgs[x], c)
  BY <1>1 DEF MsgState
<1>3. /\ c \in Seq(Msg) /\ IsInjective(c) /\ LinksTo(kn.nextmsg, kn.mqhead[x], c)
      /\ \A e : Contains(c, e) <=> Contains(kn.msgs[x], e)
  BY <1>2 DEF MsgChain
<1>4. chain = c
  BY <1>3, ChainIs
<1>5. kn.msgs[x] \in Seq(Msg)
  BY <1>1 DEF MsgState, MsgTypes
<1>6. DOMAIN c = 1..Len(c) /\ DOMAIN kn.msgs[x] = 1..Len(kn.msgs[x])
  BY <1>3, <1>5
<1>7. ToSet(c) = ToSet(kn.msgs[x])
  <2>1. \A e : (e \in ToSet(c) <=> Contains(c, e))
               /\ (e \in ToSet(kn.msgs[x]) <=> Contains(kn.msgs[x], e))
    BY <1>6 DEF ToSet, Contains
  <2> QED BY <1>3, <2>1
<1>8. IF "MPRI" \in kn.mbxatr[x] THEN ByMsgPri(c, kn.msgs[x])
      ELSE c = kn.msgs[x] /\ (c # <<>> => kn.mqtail[x] = c[Len(c)])
  BY <1>2 DEF MsgChain
<1> QED BY <1>3, <1>4, <1>7, <1>8 DEF Last

\* semaphore.c, eventflag.c, mailbox.c: the wait queue of an object holds
\* exactly the tasks that wait for it, in the order of their priorities if it
\* is to, for any number of tasks, priorities and objects: whatever calls make
\* tasks wait, release them, end them or give them another priority.  An event
\* flag without TA_WMUL has one waiting task at most, a semaphore never more
\* units than its maximum, and a task that waits does so for an object.
THEOREM SyncSpecQueuesExact ==
    ASSUME SyncHooks
    PROVE  SyncSpec => []SyncQueuesExact
<1>1. SyncInit => ServedInv
  BY SyncFirst
<1>2. ServedInv /\ [SyncNext]_vars => ServedInv'
  BY SyncStep
<1>3. ServedInv => SyncQueuesExact
  BY ServedInvQueues
<1> QED BY <1>1, <1>2, <1>3, PTL DEF SyncSpec

\* mailbox.c: the links that start at mq_head are those of exactly the
\* messages that were sent to the mailbox and not received, for any number of
\* messages and of mailboxes: in the order they were sent, or with TA_MPRI in
\* that of their priorities and among equals in the order they were sent.
\* The head, the tail and the links agree after every call: also when the
\* mailbox became empty in between, where mq_tail is stale, when a message
\* is put before, between or behind others, and when a mailbox with messages
\* is deleted.
THEOREM SyncSpecMessagesInOrder ==
    ASSUME SyncHooks
    PROVE  SyncSpec => []MessagesInOrder
<1>1. SyncInit => ServedInv
  BY SyncFirst
<1>2. ServedInv /\ [SyncNext]_vars => ServedInv'
  BY SyncStep
<1>3. ServedInv => MessagesInOrder
  BY ServedInvMessages
<1> QED BY <1>1, <1>2, <1>3, PTL DEF SyncSpec

=============================================================================
