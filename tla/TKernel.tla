------------------------------ MODULE TKernel ------------------------------
(***************************************************************************)
(* The core of the micro T-Kernel: task control blocks, the ready queue,   *)
(* the wait queues and the selection of the task to execute, as operators  *)
(* from kernel state to kernel state.  The components of the kernel        *)
(* (Task, Mutex, Semaphore, ...) are state machines whose handlers         *)
(* compose these operators in the order the C functions call each other.   *)
(*                                                                         *)
(* A kernel state k is a record.  A TCB is spread over its fields: the     *)
(* state of task t is k.state[t], its current priority k.priority[t].      *)
(* A TCB has one link field, tskque, which puts it in at most one ring:    *)
(* k.que[h] is the ring whose head is h, from que->next to que->prev.      *)
(*                                                                         *)
(* Operators marked "Fault" are deliberately wrong variants of the one     *)
(* below them; with one of them in its place a property must fail.         *)
(***************************************************************************)
EXTENDS Integers, SequencesExt

CONSTANTS NumTask,   \* NUM_TSKID, the number of TCBs
          NumPri,    \* NUM_TSKPRI, the number of task priorities
          FreeTcb,   \* the head knl_free_tcb
          WaitQ      \* the heads of the wait queues of the kernel's objects

ASSUME NumTaskAssumption == NumTask \in Nat \ {0}
ASSUME NumPriAssumption == NumPri \in Nat \ {0}
ASSUME QueueHeadAssumption ==
    /\ FreeTcb \notin 0..NumPri
    /\ FreeTcb \notin WaitQ
    /\ WaitQ \cap 0..NumPri = {}

Task == 1..NumTask
NoTask == 0                       \* a NULL TCB pointer; also task ID 0
Pri == 0..NumPri-1                \* internal priorities, 0 is the highest
QueHead == Pri \cup {FreeTcb} \cup WaitQ

TSTAT == {"NONEXIST", "READY", "WAIT", "SUSPEND", "WAITSUS", "DORMANT"}
WaitBit == {"WAIT", "WAITSUS"}                        \* state & TS_WAIT
Alive == {"READY", "WAIT", "SUSPEND", "WAITSUS"}      \* knl_task_alive

\* The timeout of a wait: TMO_POL, TMO_FEVR or a finite time.
TMO == {"POL", "FEVR", "TIME"}

\* What a wait leaves in the caller's ercd; "none" is a NULL tcb->wercd or a
\* value its task has already returned.
Ercd == {"none", "E_OK", "E_TMOUT", "E_RLWAI", "E_DLT", "E_DISWAI"}

\* What a task waits for: the WSPEC of its wait, with "none" for no wait.
NoSpec == "none"
WSpec == {NoSpec, "slp", "dly", "mtx_tfifo", "mtx_tpri", "mtx_inherit",
          "mpf_tfifo", "mpf_tpri", "sem_tfifo", "sem_tpri",
          "flg_tfifo", "flg_tpri", "mbx_tfifo", "mbx_tpri",
          "smbf_tfifo", "smbf_tpri", "rmbf", "mpl_tfifo", "mpl_tpri",
          "cal_tfifo", "cal_tpri", "acp", "rdv"}

(***************************************************************************)
(* Rings (include/sys/queue.h).                                            *)
(***************************************************************************)
InRing(s, t) == \E i \in DOMAIN s : s[i] = t

Unlink(s, t) ==
    IF InRing(s, t) THEN RemoveAt(s, CHOOSE i \in DOMAIN s : s[i] = t) ELSE s

\* QueRemove: t leaves the ring it is linked in, whichever that is.
QueRemove(que, t) == [h \in DOMAIN que |-> Unlink(que[h], t)]

\* QueInsert before the head of the ring: t becomes the last entry.
QueInsert(que, t, h) == [que EXCEPT ![h] = Append(@, t)]

\* knl_queue_insert_tpri: before the first entry of lower priority.
QueInsertTpri(k, t, h) ==
    LET s == k.que[h]
        lower == {i \in DOMAIN s : k.priority[s[i]] > k.priority[t]}
        pos == IF lower = {} THEN Len(s) + 1
               ELSE CHOOSE i \in lower : \A j \in lower : i <= j
    IN  [k.que EXCEPT ![h] = InsertAt(@, pos, t)]

(***************************************************************************)
(* The ready queue (ready_queue.h).                                        *)
(***************************************************************************)
ReadyQueueTop(k) ==
    IF k.klocktsk # NoTask THEN k.klocktsk
    ELSE IF k.top_priority \in Pri THEN Head(k.que[k.top_priority])
    ELSE NoTask

ReadyQueueInsert(k, t) ==
    LET p == k.priority[t]
    IN  [k EXCEPT !.que = QueInsert(@, t, p),
                  !.bitmap = @ \cup {p},
                  !.klocktsk = IF k.klocked[t] THEN t ELSE @,
                  !.top_priority = IF p < @ THEN p ELSE @]

ReadyQueueInsertTop(k, t) ==
    LET p == k.priority[t]
    IN  [k EXCEPT !.que[p] = <<t>> \o @,
                  !.bitmap = @ \cup {p},
                  !.klocktsk = IF k.klocked[t] THEN t ELSE @,
                  !.top_priority = IF p < @ THEN p ELSE @]

\* The first set bit at or after pos, NumPri if there is none.
CalcTopPriority(bitmap, pos) ==
    LET S == {i \in bitmap : i >= pos} \cup {NumPri}
    IN  CHOOSE i \in S : \A j \in S : i <= j

ReadyQueueDelete(k, t) ==
    LET p == k.priority[t]
        q == QueRemove(k.que, t)
        k1 == [k EXCEPT !.que = q, !.klocktsk = IF @ = t THEN NoTask ELSE @]
        bits == k.bitmap \ {p}
    IN  IF k.klockwait[t] THEN [k1 EXCEPT !.klockwait[t] = FALSE]
        ELSE IF q[p] # <<>> THEN k1
        ELSE [k1 EXCEPT !.bitmap = bits,
                        !.top_priority = IF p = @ THEN CalcTopPriority(bits, p) ELSE @]

ReadyQueueRotate(k, p) ==
    IF k.que[p] = <<>> THEN k
    ELSE [k EXCEPT !.que[p] = Append(Tail(@), Head(@))]

(***************************************************************************)
(* Scheduling (task.c, task.h).                                            *)
(***************************************************************************)
Reschedule(k) == [k EXCEPT !.schedtsk = ReadyQueueTop(k)]

\* Fault: a task of the same priority preempts.
MakeReadyPreempts(k, t) ==
    [ReadyQueueInsert(k, t) EXCEPT
        !.state[t] = "READY",
        !.schedtsk = IF k.priority[t] <= k.top_priority THEN t ELSE @]

MakeReady(k, t) ==
    [ReadyQueueInsert(k, t) EXCEPT
        !.state[t] = "READY",
        !.schedtsk = IF k.priority[t] < k.top_priority THEN t ELSE @]

MakeNonReady(k, t) ==
    LET k1 == ReadyQueueDelete(k, t)
    IN  IF k1.schedtsk = t THEN Reschedule(k1) ELSE k1

\* wspec and wid are dead once the task does not wait: they are cleared here.
MakeDormant(k, t) ==
    [k EXCEPT !.state[t] = "DORMANT",
              !.priority[t] = k.ipriority[t],
              !.bpriority[t] = k.ipriority[t],
              !.wupcnt[t] = 0,
              !.suscnt[t] = 0,
              !.klockwait[t] = FALSE,
              !.klocked[t] = FALSE,
              !.wspec[t] = NoSpec,
              !.wercd[t] = "none"]

\* Fault: the task moves to the head of its new priority.
MoveReadyToTop(k, t, p) ==
    Reschedule(ReadyQueueInsertTop([ReadyQueueDelete(k, t) EXCEPT !.priority[t] = p], t))

\* A READY task moves to the tail of its new priority.
MoveReady(k, t, p) ==
    Reschedule(ReadyQueueInsert([ReadyQueueDelete(k, t) EXCEPT !.priority[t] = p], t))

RotateReadyQueue(k, p) == Reschedule(ReadyQueueRotate(k, p))

RotateReadyQueueRun(k) ==
    IF k.schedtsk = NoTask THEN k ELSE RotateReadyQueue(k, k.top_priority)

(***************************************************************************)
(* Waiting (wait.c, wait.h).  wtmeb[t] tells whether the timer event of t  *)
(* is in the timer queue.                                                  *)
(***************************************************************************)
MakeWait(k, t, tmout) ==
    [(IF k.state[t] = "READY" THEN MakeNonReady(k, t) ELSE k) EXCEPT
        !.state[t] = CASE k.state[t] = "READY" -> "WAIT"
                       [] k.state[t] = "SUSPEND" -> "WAITSUS"
                       [] OTHER -> @,
        !.wtmeb[t] = (tmout = "TIME")]

MakeNonWait(k, t) ==
    IF k.state[t] = "WAIT" THEN MakeReady(k, t)
    ELSE [k EXCEPT !.state[t] = "SUSPEND"]

\* Fault: the timer event stays in the timer queue.
WaitCancelKeepsTimer(k, t) == [k EXCEPT !.que = QueRemove(@, t)]

WaitCancel(k, t) ==
    [k EXCEPT !.wtmeb[t] = FALSE, !.que = QueRemove(@, t)]

\* knl_wait_release, and what knl_wait_release_ok/_ok_ercd/_ng/_tmout then
\* leave in the caller's ercd.
WaitRelease(k, t, ercd) ==
    [MakeNonWait(WaitCancel(k, t), t) EXCEPT !.wspec[t] = NoSpec, !.wercd[t] = ercd]

(***************************************************************************)
(* Ending a task, apart from the mutexes it holds and the release hook of  *)
(* what it waits for (task_manage.c, knl_ter_tsk; task_sync.c).            *)
(***************************************************************************)
\* Fault: a READY task stays in the ready queue.
DetachWaitOnly(k, t) == IF k.state[t] \in WaitBit THEN WaitCancel(k, t) ELSE k

Detach(k, t) ==
    IF k.state[t] = "READY" THEN MakeNonReady(k, t)
    ELSE IF k.state[t] \in WaitBit THEN WaitCancel(k, t)
    ELSE k

Suspend(k, t) ==
    LET k1 == [k EXCEPT !.suscnt[t] = @ + 1]
    IN  CASE k.state[t] = "READY" -> [MakeNonReady(k1, t) EXCEPT !.state[t] = "SUSPEND"]
          [] k.state[t] = "WAIT" -> [k1 EXCEPT !.state[t] = "WAITSUS"]
          [] OTHER -> k1

Resume(k, t, count) ==
    LET k1 == [k EXCEPT !.suscnt[t] = count]
    IN  IF count > 0 THEN k1
        ELSE IF k.state[t] = "SUSPEND" THEN MakeReady(k1, t)
        ELSE [k1 EXCEPT !.state[t] = "WAIT"]

KernelState ==
    [state : [Task -> TSTAT],
     priority : [Task -> Pri],  bpriority : [Task -> Pri],  ipriority : [Task -> Pri],
     wupcnt : [Task -> Nat],    suscnt : [Task -> Nat],
     klocked : [Task -> BOOLEAN],  klockwait : [Task -> BOOLEAN],
     wspec : [Task -> WSpec],  wercd : [Task -> Ercd],  wtmeb : [Task -> BOOLEAN],
     que : [QueHead -> Seq(Task)],
     bitmap : SUBSET Pri,
     top_priority : 0..NumPri,
     klocktsk : Task \cup {NoTask},
     schedtsk : Task \cup {NoTask}]

\* A kernel state with the fields r of a component.
WithFields(k, r) ==
    [f \in DOMAIN k \cup DOMAIN r |-> IF f \in DOMAIN k THEN k[f] ELSE r[f]]

=============================================================================
