----------------------------- MODULE EventFlag -----------------------------
(***************************************************************************)
(* Event flags (kernel/tkernel/eventflag.c).  A pattern is the set of its  *)
(* one bits.  One tk_set_flg may release several tasks, and each of them   *)
(* may clear the bits the next one in the queue looks at.                  *)
(*                                                                         *)
(* winfo[t] is what t waits for: the pattern waiptn and the mode wfmode.   *)
(* The wait queue of event flag f has the head f.                          *)
(***************************************************************************)
EXTENDS WaitObject

CONSTANTS FLG,          \* the event flag control blocks
          FlgBit,       \* the bits of a pattern
          FlgWaits      \* what the tasks wait for

ASSUME EventFlagAssumption == FLG \subseteq WaitQ /\ NoObj \notin FLG

Pattern == SUBSET FlgBit
FlgAtr == {"TPRI", "WMUL"}                  \* TA_TPRI, TA_WMUL
Mode == SUBSET {"ORW", "CLR", "BITCLR"}     \* TWF_ORW, TWF_CLR, TWF_BITCLR
FlgWait == [waiptn : Pattern \ {{}}, wfmode : Mode]

ASSUME FlgWaitsAssumption == FlgWaits \subseteq FlgWait

FlgWSpec == {"flg_tfifo", "flg_tpri"}

WithFreeEventFlags(k) ==
    WithFields(k, [flgid |-> [f \in FLG |-> FALSE],
                   flgatr |-> [f \in FLG |-> {}],
                   flgptn |-> [f \in FLG |-> {}]])

\* knl_eventflag_cond
Cond(flgptn, w) ==
    IF "ORW" \in w.wfmode THEN flgptn \cap w.waiptn # {} ELSE w.waiptn \subseteq flgptn

\* Fault: TWF_CLR clears the bits that were waited for only.
ClearedBits(flgptn, w) ==
    IF w.wfmode \cap {"CLR", "BITCLR"} # {} THEN flgptn \ w.waiptn ELSE flgptn

\* What is left of the pattern when w has been satisfied.
Cleared(flgptn, w) ==
    CASE "CLR" \in w.wfmode -> {}
      [] "BITCLR" \in w.wfmode /\ "CLR" \notin w.wfmode -> flgptn \ w.waiptn
      [] OTHER -> flgptn

(***************************************************************************)
(* The calls on event flags.                                               *)
(***************************************************************************)
CreFlg(f, atr, iflgptn) ==
    /\ InTask
    /\ ~kn.flgid[f]
    /\ SystemCall("task", [kn EXCEPT !.flgid[f] = TRUE, !.flgatr[f] = atr,
                                     !.flgptn[f] = iflgptn])

DelFlg(f) ==
    /\ InTask
    /\ kn.flgid[f]
    /\ SystemCall("task", [WaitDelete(kn, f) EXCEPT
                             !.flgid[f] = FALSE, !.flgatr[f] = {}, !.flgptn[f] = {}])

\* Task t of the queue is released if its condition is met; the search ends
\* when the pattern has been cleared.
ServeFlgNext(a, f, t) ==
    IF a.stop \/ ~Cond(a.k.flgptn[f], a.k.winfo[t]) THEN a
    ELSE LET left == Cleared(a.k.flgptn[f], a.k.winfo[t])
         IN  [k |-> [EndWait(a.k, t, "E_OK") EXCEPT !.flgptn[f] = left], stop |-> left = {}]

\* The tasks of the queue are looked at from the first one on.
ServeFlg(k0, f) ==
    LET q == k0.que[f]
        after[n \in 0..Len(q)] ==
          IF n = 0 THEN [k |-> k0, stop |-> FALSE] ELSE ServeFlgNext(after[n-1], f, q[n])
    IN  after[Len(q)].k

SetFlg(c, f, setptn) ==
    /\ CanCall(c)
    /\ kn.flgid[f]
    /\ SystemCall(c, ServeFlg([kn EXCEPT !.flgptn[f] = @ \cup setptn], f))

ClrFlg(c, f, clrptn) ==
    /\ CanCall(c)
    /\ kn.flgid[f]
    /\ SystemCall(c, [kn EXCEPT !.flgptn[f] = @ \cap clrptn])

WaiFlg(f, w, tmout) ==
    /\ CanWait
    /\ kn.flgid[f]
    /\ "WMUL" \in kn.flgatr[f] \/ kn.que[f] = <<>>
    /\ IF Cond(kn.flgptn[f], w)
       THEN SystemCall("task", [kn EXCEPT !.flgptn[f] = Cleared(@, w)])
       ELSE /\ tmout # "POL"
            /\ LET tpri == "TPRI" \in kn.flgatr[f]
               IN  SystemCall("task", GcbMakeWait(kn, ctxtsk, f, f, tpri,
                                                  IF tpri THEN "flg_tpri" ELSE "flg_tfifo",
                                                  w, tmout))

\* flg_chg_pri
FlgChgPri(k, t) == GcbChangePri(k, t, k.wid[t])

-----------------------------------------------------------------------------
(***************************************************************************)
(* Properties.                                                             *)
(***************************************************************************)

FlgTypeOK ==
    /\ kn.flgid \in [FLG -> BOOLEAN]
    /\ kn.flgatr \in [FLG -> SUBSET FlgAtr]
    /\ kn.flgptn \in [FLG -> Pattern]

\* No task waits for a condition that holds: whatever the tasks before it
\* cleared when they were released, and whatever is set, by one call or
\* another.
FlgNoSatisfiedWaiter ==
    \A f \in FLG : \A t \in ToSet(kn.que[f]) : ~Cond(kn.flgptn[f], kn.winfo[t])

\* The queue of f holds the tasks that wait for f, in their order, and no
\* more than one without TA_WMUL.
FlgQueueExact ==
    \A f \in FLG :
        /\ QueueExact(kn, f, {t \in Task : WaitsFor(kn, t, f)}, "TPRI" \in kn.flgatr[f])
        /\ "WMUL" \notin kn.flgatr[f] => Len(kn.que[f]) <= 1

\* A step releases t because its condition holds.
FlgReleased(t, f) ==
    WaitsFor(kn, t, f) /\ ~(kn'.state[t] \in WaitBit) /\ kn'.wercd[t] = "E_OK"

\* An event that clears is had once: of two tasks a tk_set_flg releases, the
\* later one did not need a bit the earlier one cleared, and a bit cleared by
\* a released task is no longer set.
EventHadOnce ==
    [][\A f \in FLG, t, u \in Task :
          LET w == kn.winfo[t]
          IN  FlgReleased(t, f) =>
                /\ "CLR" \in w.wfmode => kn'.flgptn[f] = {}
                /\ "BITCLR" \in w.wfmode => kn'.flgptn[f] \cap w.waiptn = {}
                /\ FlgReleased(u, f) /\ Before(kn.que[f], t, u)
                   => /\ "CLR" \notin w.wfmode
                      /\ "BITCLR" \in w.wfmode /\ "ORW" \notin kn.winfo[u].wfmode
                         => kn.winfo[u].waiptn \cap w.waiptn = {}]_vars
=============================================================================
