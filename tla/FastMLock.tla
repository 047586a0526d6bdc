----------------------------- MODULE FastMLock -----------------------------
(***************************************************************************)
(* The fast multi-lock of the library (lib/libtk/fastmlock.c): up to 32    *)
(* locks in the bits of one word, and one event flag for all the tasks     *)
(* that find theirs taken.  An unlock clears the bit first and wakes one   *)
(* task afterwards, which then has to win the bit like everybody else:     *)
(* another task may have locked it in between.                             *)
(*                                                                         *)
(* lock->flg and lock->wai are changed with interrupts disabled, one at a  *)
(* time; lock->wai is read without.  The lock numbers are the bits of the  *)
(* event flag.  A task holds at most one of the locks at a time, and gives *)
(* it back before it ends.                                                 *)
(***************************************************************************)
EXTENDS LockTasks

CONSTANTS mid,          \* lock->id, the event flag of the lock
          NoLock        \* no lock number

ASSUME MLockAssumption == mid \in FLG /\ NoLock \notin FlgBit

VARIABLES flg,          \* lock->flg, the locks that are taken
          wai,          \* lock->wai, tasks in MLockTmo
          no            \* the lock number a task in the library is called with

mvars == <<flg, wai, no>>

\* "bts": to test the bit; "flg": it was set, tk_wai_flg is next; "wai": in
\* tk_wai_flg; "got", "fail": the loop is left, DEC is next; "in": it holds
\* the lock; "unl": the bit has been reset; "set": lock->wai was not zero.
MPC == {"out", "bts", "flg", "wai", "got", "fail", "in", "unl", "set"}

MHolds(t, n) == pc[t] \in {"got", "in"} /\ no[t] = n
MWaits(t, n) == pc[t] = "wai" /\ no[t] = n /\ kn.state[t] \in WaitBit

CreateMLock(k) ==
    [k EXCEPT !.flgid[mid] = TRUE, !.flgatr[mid] = {"TPRI", "WMUL"}, !.flgptn[mid] = {}]

(***************************************************************************)
(* MLockTmo                                                                *)
(***************************************************************************)
MInc(n) ==
    /\ At("out")
    /\ wai' = wai + 1
    /\ no' = [no EXCEPT ![ctxtsk] = n]
    /\ Goto("bts")
    /\ UNCHANGED <<vars, flg>>

\* Fault: the task has the lock when tk_wai_flg ends, without another test.
MBtsOnce ==
    /\ At("bts")
    /\ flg' = flg \cup {no[ctxtsk]}
    /\ Goto(IF no[ctxtsk] \in flg /\ kn.flgptn[mid] = {} THEN "flg" ELSE "got")
    /\ UNCHANGED <<vars, wai, no>>

MBts ==
    /\ At("bts")
    /\ flg' = flg \cup {no[ctxtsk]}
    /\ Goto(IF no[ctxtsk] \in flg THEN "flg" ELSE "got")
    /\ UNCHANGED <<vars, wai, no>>

\* With TMO_POL a wait that would be one fails at once.
MWaiFlg(tmout) ==
    /\ At("flg")
    /\ LET w == [waiptn |-> {no[ctxtsk]}, wfmode |-> {"ORW", "BITCLR"}]
           met == Cond(kn.flgptn[mid], w)
       IN  \/ /\ WaiFlg(mid, w, tmout)
              /\ Goto(IF met THEN "bts" ELSE "wai")
           \/ /\ tmout = "POL" /\ ~met
              /\ Goto("fail")
              /\ UNCHANGED vars
    /\ UNCHANGED mvars

\* A task that is dispatched in tk_wai_flg returns from it.
MDispatch ==
    /\ DispatchSwitch
    /\ pc' = [pc EXCEPT ![kn.schedtsk] =
                IF @ # "wai" THEN @
                ELSE IF kn.wercd[kn.schedtsk] = "E_OK" THEN "bts" ELSE "fail"]
    /\ UNCHANGED mvars

\* Fault: a failed wait leaves the task counted.
MDecGot ==
    /\ InTask /\ pc[ctxtsk] \in {"got", "fail"}
    /\ wai' = IF pc[ctxtsk] = "got" THEN wai - 2 ELSE wai
    /\ Goto(IF pc[ctxtsk] = "got" THEN "in" ELSE "out")
    /\ no' = IF pc[ctxtsk] = "got" THEN no ELSE [no EXCEPT ![ctxtsk] = NoLock]
    /\ UNCHANGED <<vars, flg>>

MDec ==
    /\ InTask /\ pc[ctxtsk] \in {"got", "fail"}
    /\ wai' = wai - 1
    /\ Goto(IF pc[ctxtsk] = "got" THEN "in" ELSE "out")
    /\ no' = IF pc[ctxtsk] = "got" THEN no ELSE [no EXCEPT ![ctxtsk] = NoLock]
    /\ UNCHANGED <<vars, flg>>

(***************************************************************************)
(* MUnlock                                                                 *)
(***************************************************************************)
MBr ==
    /\ At("in")
    /\ flg' = flg \ {no[ctxtsk]}
    /\ Goto("unl")
    /\ UNCHANGED <<vars, wai, no>>

MReadWai ==
    /\ At("unl")
    /\ Goto(IF wai = 0 THEN "out" ELSE "set")
    /\ no' = IF wai = 0 THEN [no EXCEPT ![ctxtsk] = NoLock] ELSE no
    /\ UNCHANGED <<vars, flg, wai>>

MSetFlg ==
    /\ At("set")
    /\ SetFlg("task", mid, {no[ctxtsk]})
    /\ Goto("out")
    /\ no' = [no EXCEPT ![ctxtsk] = NoLock]
    /\ UNCHANGED <<flg, wai>>

(***************************************************************************)
(* The tasks meanwhile.                                                    *)
(***************************************************************************)
\* A task that holds no lock terminates one that holds none and has not been
\* woken up to take one.  wai then remains incremented.
MTerminate(t) ==
    /\ At("out")
    /\ pc[t] \in {"out", "flg"} \/ (pc[t] = "wai" /\ kn.state[t] \in WaitBit)
    /\ TerTskWait(t)
    /\ pc' = [pc EXCEPT ![t] = "out"]
    /\ no' = [no EXCEPT ![t] = NoLock]
    /\ UNCHANGED <<flg, wai>>

MMeanwhile ==
    /\ \/ Interrupted \/ OutsideCreate
       \/ \E t \in Task : RelWaiWait("hdr", t) \/ TimerEventWait(t)
    /\ UNCHANGED <<pc, mvars>>

MLockInit ==
    /\ kn = CreateMLock(WithFreeLockObjects(MakeReady(CreateTcb(InitKernel, 0), 1)))
    /\ ctxtsk = NoTask
    /\ dispatch_disabled = "DISABLE_IMPLICIT"
    /\ pendsv = TRUE
    /\ basepri = FALSE
    /\ pc = [t \in Task |-> "out"]
    /\ flg = {} /\ wai = 0 /\ no = [t \in Task |-> NoLock]

MLockNext ==
  /\ kn.flgid[mid]
  /\ \/ \E n \in FlgBit : MInc(n)
     \/ MBts
     \/ \E tmout \in TMO : MWaiFlg(tmout)
     \/ MDispatch
     \/ MDec
     \/ MBr \/ MReadWai \/ MSetFlg
     \/ \E t \in Task : MTerminate(t)
     \/ MMeanwhile

MLockSpec == MLockInit /\ [][MLockNext]_<<vars, pc, mvars>>

-----------------------------------------------------------------------------
(***************************************************************************)
(* Properties.                                                             *)
(***************************************************************************)

MLockTypeOK ==
    kn.flgid[mid] =>
      /\ pc \in [Task -> MPC]
      /\ flg \subseteq FlgBit
      /\ no \in [Task -> FlgBit \cup {NoLock}]
      /\ wai >= Cardinality({t \in Task : pc[t] \in {"bts", "flg", "wai", "got", "fail"}})

\* fastmlock.c: "High-speed exclusive control multi-lock".  A lock whose bit
\* is set has exactly one holder, another one none.
MLockExclusive ==
    kn.flgid[mid] =>
      \A n \in FlgBit :
        Cardinality({t \in Task : MHolds(t, n)}) = IF n \in flg THEN 1 ELSE 0

\* The lock excludes: bits, counter and tasks agree, whatever a wakeup finds.
MLockExact == MLockTypeOK /\ MLockExclusive

\* No unlock is lost between the test of the bit and tk_wai_flg, or to a task
\* that locks in between: while a task waits for a lock there is another that
\* holds it, is unlocking it, or has been woken up to try again, and will.
MNoLostUnlock ==
    kn.flgid[mid] =>
      \A n \in FlgBit, t \in Task : MWaits(t, n) =>
        \E u \in Task :
          /\ no[u] = n
          /\ \/ pc[u] \in {"got", "in", "unl", "set", "bts"}
             \/ pc[u] = "wai" /\ kn.state[u] \notin WaitBit /\ kn.wercd[u] = "E_OK"
=============================================================================
