------------------------------- MODULE Timer -------------------------------
(***************************************************************************)
(* The timer event queue (kernel/tkernel/timer.c) and what is driven by it *)
(* (time_calls.c): timeouts of waiting tasks, cyclic handlers and alarm    *)
(* handlers.  Event times are words that wrap around (ABSTIM); the queue   *)
(* is sorted, and an event is due, by differences of words.                *)
(*                                                                         *)
(* Task leaves open when a timeout fires; this module is about when, and   *)
(* knows of a waiting task its timer event only.  due is an auxiliary      *)
(* variable: how far away, in integers, the promised time of an event is.  *)
(***************************************************************************)
EXTENDS Integers, SequencesExt

CONSTANTS Modulus,      \* 2^32: the number of values of an ABSTIM
          TIMER_PERIOD,
          TSK, CYC, ALM,        \* the timer event blocks of tasks and handlers
          Tmo,          \* timeouts of waits
          Cyctim, Cycphs, Almtim    \* intervals and first times of handlers

ABSTIM_DIFF_MIN == Modulus \div 2 - 1           \* 0x7FFFFFFF

ASSUME TimerAssumption ==
    /\ TIMER_PERIOD \in Nat \ {0} /\ Modulus \in Nat /\ Modulus % 2 = 0
    /\ ABSTIM_DIFF_MIN > TIMER_PERIOD
    /\ TSK \cap CYC = {} /\ TSK \cap ALM = {} /\ CYC \cap ALM = {}
    /\ Tmo \subseteq 1..ABSTIM_DIFF_MIN         \* CHECK_TMOUT
    /\ Cyctim \subseteq 1..ABSTIM_DIFF_MIN      \* CHECK_RELTIM
    /\ Almtim \subseteq 0..ABSTIM_DIFF_MIN      \* CHECK_RELTIM
    /\ Cycphs \subseteq Nat

TMEB == TSK \cup CYC \cup ALM

VARIABLES current_time, \* lltoul(knl_current_time)
          timer_queue,
          time,         \* [TMEB -> ABSTIM]
          cyc,          \* [CYC -> hdr, phs, sta: cychdr # NULL, TA_PHS, TCYC_STA; tim]
          alm,          \* [ALM -> hdr, sta: almhdr # NULL, TALM_STA]
          at,           \* where knl_timer_handler is
          due

tvars == <<current_time, timer_queue, time, cyc, alm, at, due>>

\* "none": not executing; "loop": at the head of its loop, with interrupts
\* disabled; "wait": ending a wait that timed out, interrupts disabled still;
\* "handler": in a cyclic or alarm handler, interrupts enabled.
At == {"none", "loop", "wait", "handler"}
CanCall == at \in {"none", "handler"}

Word(n) == n % Modulus

\* Fault: the words are compared as they are.
AbstimReachedPlain(curtim, evttim) == curtim >= evttim

\* knl_abstim_reached
AbstimReached(curtim, evttim) == Word(curtim - evttim) <= ABSTIM_DIFF_MIN

(***************************************************************************)
(* The queue.                                                              *)
(***************************************************************************)
\* Fault: the words are compared as they are.
EnqueuePlain(q, tm, e) ==
    LET i == SelectInSeq(q, LAMBDA f : tm[e] < tm[f])
    IN  IF i = 0 THEN Append(q, e) ELSE InsertAt(q, i, e)

\* knl_enqueue_tmeb: before the first event that is later than e.
Enqueue(q, tm, e) ==
    LET ofs == current_time - ABSTIM_DIFF_MIN
        i == SelectInSeq(q, LAMBDA f : Word(tm[e] - ofs) < Word(tm[f] - ofs))
    IN  IF i = 0 THEN Append(q, e) ELSE InsertAt(q, i, e)

\* Event e is put into queue q for the time tm; d is when it is promised.
InsertAbs(q, e, tm, d) ==
    /\ time' = [time EXCEPT ![e] = Word(tm)]
    /\ timer_queue' = Enqueue(q, time', e)
    /\ due' = [due EXCEPT ![e] = d]

\* knl_timer_delete
Delete(e) == RemoveAt(timer_queue, CHOOSE i \in DOMAIN timer_queue : timer_queue[i] = e)

(***************************************************************************)
(* Waits: knl_timer_insert in knl_make_wait, knl_timer_delete when a wait  *)
(* is released or cancelled, which the hook of a wait that timed out may   *)
(* do to other tasks.                                                      *)
(***************************************************************************)
TimerInsert(t, tmout) ==
    /\ at = "none" /\ ~Contains(timer_queue, t)
    /\ InsertAbs(timer_queue, t, current_time + tmout + TIMER_PERIOD, tmout + TIMER_PERIOD)
    /\ UNCHANGED <<current_time, cyc, alm, at>>

TimerDelete(t) ==
    /\ at # "loop" /\ Contains(timer_queue, t)
    /\ timer_queue' = Delete(t)
    /\ UNCHANGED <<current_time, time, cyc, alm, at, due>>

(***************************************************************************)
(* Cyclic handlers.                                                        *)
(***************************************************************************)
\* Fault: the interval begins anew after a delay.
CycNextTimeDrift(base, tim) ==
    IF AbstimReached(current_time, Word(base + tim)) THEN Word(current_time + tim)
    ELSE Word(base + tim)

\* knl_cyc_next_time of a handler with interval tim, last started at base
CycNextTime(base, tim) ==
    IF AbstimReached(current_time, Word(base + tim))
    THEN Word((Word(current_time - base) \div tim + 1) * tim + base)
    ELSE Word(base + tim)

\* The first time after now, and after d, that is a multiple of tim from d.
NextDue(d, tim) ==
    LET from == IF d > 0 THEN d ELSE 0
    IN  CHOOSE x \in from+1..from+tim : (x - d) % tim = 0

CreCyc(c, phs, sta, tim, cycphs) ==
    LET tm == current_time + cycphs + TIMER_PERIOD
        d == cycphs + TIMER_PERIOD
    IN  /\ CanCall /\ ~cyc[c].hdr
        /\ cyc' = [cyc EXCEPT ![c] = [hdr |-> TRUE, phs |-> phs, sta |-> sta, tim |-> tim]]
        /\ \/ /\ sta /\ cycphs = 0              \* knl_immediate_call_cychdr
              /\ InsertAbs(timer_queue, c, CycNextTime(Word(tm), tim), NextDue(d, tim))
           \/ sta /\ cycphs > 0 /\ InsertAbs(timer_queue, c, tm, d)
           \/ /\ ~sta
              /\ time' = [time EXCEPT ![c] = Word(tm)]
              /\ due' = [due EXCEPT ![c] = d]
              /\ UNCHANGED timer_queue
        /\ UNCHANGED <<current_time, alm, at>>

DelCyc(c) ==
    /\ CanCall /\ cyc[c].hdr
    /\ timer_queue' = IF cyc[c].sta THEN Delete(c) ELSE timer_queue
    /\ cyc' = [cyc EXCEPT ![c].hdr = FALSE, ![c].sta = FALSE]
    /\ UNCHANGED <<current_time, time, alm, at, due>>

\* With TA_PHS the phase continues (and a started handler is left alone),
\* without it a new interval begins.
StaCyc(c) ==
    /\ CanCall /\ cyc[c].hdr
    /\ \/ /\ cyc[c].phs /\ ~cyc[c].sta
          /\ IF AbstimReached(current_time, time[c])
             THEN InsertAbs(timer_queue, c, CycNextTime(time[c], cyc[c].tim),
                            NextDue(due[c], cyc[c].tim))
             ELSE InsertAbs(timer_queue, c, time[c],
                            IF due[c] > 0 THEN due[c] ELSE NextDue(due[c], cyc[c].tim))
       \/ /\ ~cyc[c].phs
          /\ InsertAbs(IF cyc[c].sta THEN Delete(c) ELSE timer_queue, c,
                       current_time + cyc[c].tim + TIMER_PERIOD, cyc[c].tim + TIMER_PERIOD)
    /\ cyc' = [cyc EXCEPT ![c].sta = TRUE]
    /\ UNCHANGED <<current_time, alm, at>>

StpCyc(c) ==
    /\ CanCall /\ cyc[c].hdr /\ cyc[c].sta
    /\ timer_queue' = Delete(c)
    /\ cyc' = [cyc EXCEPT ![c].sta = FALSE]
    /\ UNCHANGED <<current_time, time, alm, at, due>>

(***************************************************************************)
(* Alarm handlers.                                                         *)
(***************************************************************************)
CreAlm(a) ==
    /\ CanCall /\ ~alm[a].hdr
    /\ alm' = [alm EXCEPT ![a] = [hdr |-> TRUE, sta |-> FALSE]]
    /\ UNCHANGED <<current_time, timer_queue, time, cyc, at, due>>

DelAlm(a) ==
    /\ CanCall /\ alm[a].hdr
    /\ timer_queue' = IF alm[a].sta THEN Delete(a) ELSE timer_queue
    /\ alm' = [alm EXCEPT ![a] = [hdr |-> FALSE, sta |-> FALSE]]
    /\ UNCHANGED <<current_time, time, cyc, at, due>>

\* An alarm of 0 is knl_immediate_call_almhdr.
StaAlm(a, almtim) ==
    /\ CanCall /\ alm[a].hdr
    /\ LET q == IF alm[a].sta THEN Delete(a) ELSE timer_queue
       IN  \/ /\ almtim > 0
              /\ InsertAbs(q, a, current_time + almtim + TIMER_PERIOD, almtim + TIMER_PERIOD)
           \/ almtim = 0 /\ timer_queue' = q /\ UNCHANGED <<time, due>>
    /\ alm' = [alm EXCEPT ![a].sta = almtim > 0]
    /\ UNCHANGED <<current_time, cyc, at>>

StpAlm(a) ==
    /\ CanCall /\ alm[a].hdr /\ alm[a].sta
    /\ timer_queue' = Delete(a)
    /\ alm' = [alm EXCEPT ![a].sta = FALSE]
    /\ UNCHANGED <<current_time, time, cyc, at, due>>

(***************************************************************************)
(* knl_timer_handler.                                                      *)
(***************************************************************************)
\* The events whose time still matters: those in the queue and, with TA_PHS,
\* those of stopped handlers.
Live(e) == Contains(timer_queue, e) \/ (e \in CYC /\ cyc[e].hdr /\ cyc[e].phs)

Tick ==
    /\ at = "none"
    /\ at' = "loop"
    /\ current_time' = Word(current_time + TIMER_PERIOD)
    /\ due' = [e \in TMEB |-> IF Live(e) THEN due[e] - TIMER_PERIOD ELSE due[e]]
    /\ UNCHANGED <<timer_queue, time, cyc, alm>>

HeadReached == timer_queue # <<>> /\ AbstimReached(current_time, time[Head(timer_queue)])

\* A timeout: knl_wait_release_tmout, with the hook of the wait.
FireWait(t) ==
    /\ timer_queue' = Tail(timer_queue)
    /\ at' = "wait"
    /\ UNCHANGED <<time, cyc, alm, due>>

\* knl_call_cychdr
FireCyc(c) ==
    /\ InsertAbs(Tail(timer_queue), c, CycNextTime(time[c], cyc[c].tim),
                 NextDue(due[c], cyc[c].tim))
    /\ at' = "handler"
    /\ UNCHANGED <<cyc, alm>>

\* Fault: an alarm that went off still counts as set.
FireAlmSet(a) ==
    /\ timer_queue' = Tail(timer_queue)
    /\ at' = "handler"
    /\ UNCHANGED <<time, cyc, alm, due>>

\* knl_call_almhdr
FireAlm(a) ==
    /\ timer_queue' = Tail(timer_queue)
    /\ alm' = [alm EXCEPT ![a].sta = FALSE]
    /\ at' = "handler"
    /\ UNCHANGED <<time, cyc, due>>

Fire ==
    /\ at = "loop" /\ HeadReached
    /\ LET e == Head(timer_queue)
       IN  \/ e \in TSK /\ FireWait(e)
           \/ e \in CYC /\ FireCyc(e)
           \/ e \in ALM /\ FireAlm(e)
    /\ UNCHANGED current_time

HandlerReturn ==
    /\ at \in {"wait", "handler"}
    /\ at' = "loop"
    /\ UNCHANGED <<current_time, timer_queue, time, cyc, alm, due>>

TickEnd ==
    /\ at = "loop" /\ ~HeadReached
    /\ at' = "none"
    /\ UNCHANGED <<current_time, timer_queue, time, cyc, alm, due>>

(***************************************************************************)
(* Start-up and the next-state relation.                                   *)
(***************************************************************************)
TimerInit ==
    /\ current_time = 0
    /\ timer_queue = <<>>
    /\ time = [e \in TMEB |-> 0]
    /\ \E tim \in Cyctim :          \* the fields of a free block are dead
          cyc = [c \in CYC |-> [hdr |-> FALSE, phs |-> FALSE, sta |-> FALSE, tim |-> tim]]
    /\ alm = [a \in ALM |-> [hdr |-> FALSE, sta |-> FALSE]]
    /\ at = "none"
    /\ due = [e \in TMEB |-> 0]

TimeCall ==
    \/ \E t \in TSK : TimerDelete(t) \/ \E tmout \in Tmo : TimerInsert(t, tmout)
    \/ \E c \in CYC :
          \/ DelCyc(c) \/ StaCyc(c) \/ StpCyc(c)
          \/ \E phs, sta \in BOOLEAN, tim \in Cyctim, cycphs \in Cycphs :
                CreCyc(c, phs, sta, tim, cycphs)
    \/ \E a \in ALM :
          \/ CreAlm(a) \/ DelAlm(a) \/ StpAlm(a)
          \/ \E almtim \in Almtim : StaAlm(a, almtim)

TimerNext == TimeCall \/ Tick \/ Fire \/ HandlerReturn \/ TickEnd

TimerSpec == TimerInit /\ [][TimerNext]_tvars

-----------------------------------------------------------------------------
(***************************************************************************)
(* What the properties need: the words tell the order of two times only    *)
(* when they are within half of the words of each other.                   *)
(***************************************************************************)
\* Every timeout and interval ends within half of the words, counted from
\* the next tick on (CHECK_TMOUT and CHECK_RELTIM allow a tick more).
ShortIntervals ==
    \A n \in Tmo \cup Cyctim \cup Cycphs \cup Almtim :
        n + TIMER_PERIOD <= ABSTIM_DIFF_MIN + 1

\* A stopped handler with TA_PHS is started again within half of the words.
RestartedInTime == \A c \in CYC : Live(c) => due[c] >= -ABSTIM_DIFF_MIN

(***************************************************************************)
(* Properties.                                                             *)
(***************************************************************************)

\* The queue holds the events of waits, of started cyclic handlers and of
\* set alarms, each once, in the order of their true times, however the
\* words have wrapped around: deleting by state never meets an event that is
\* not linked, and the loop may stop at the first event that is not due.
TimerQueueExact ==
    /\ IsInjective(timer_queue)
    /\ \A c \in CYC : Contains(timer_queue, c) <=> cyc[c].sta
    /\ \A a \in ALM : Contains(timer_queue, a) <=> alm[a].sta
    /\ \A i, j \in DOMAIN timer_queue : i < j => due[timer_queue[i]] <= due[timer_queue[j]]

\* timer.c: "To guarantee longer wait time specified by 'tmout'".  No event is
\* started before its time, counted from the next tick on.
NoEarlyEvent == [][at = "loop" /\ at' # "none" => due[Head(timer_queue)] <= 0]_tvars

\* timer.c: "start the timer event upon arriving at start time".  When the
\* timer handler is done no event is left whose time has come.
NoOverdueEvent ==
    at = "none" => \A i \in DOMAIN timer_queue : due[timer_queue[i]] > 0

\* A cyclic handler keeps its phase: the word of its next start is that of
\* the first start plus a multiple of the interval, after late ticks,
\* intervals shorter than a tick, and stops and starts with TA_PHS.
PhaseKept ==
    \A c \in CYC : Live(c) => time[c] = Word(current_time + due[c])

=============================================================================
