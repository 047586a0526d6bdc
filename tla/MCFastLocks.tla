---------------------------- MODULE MCFastLocks ----------------------------
(* Instances of FastLock and FastMLock for TLC: one lock or the other. *)
EXTENDS FastLock, FastMLock

CONSTANTS free, none, s1, f1, n0, n1    \* model values
CONSTANTS Initial,                      \* the initial priorities of the tasks
          CntMax,                       \* bound of cnt
          WaiMax                        \* bound of wai

Heads == {s1, f1}
OneSem == {s1}
OneFlg == {f1}
TwoLocks == {n0, n1}
Initial011 == <<0, 1, 1>>

MCInit ==
    \/ LockInit /\ flg = {} /\ wai = 0 /\ no = [t \in Task |-> NoLock]
    \/ MLockInit /\ cnt = -1

MCNext ==
    \/ LockNext /\ UNCHANGED mvars
    \/ MLockNext /\ UNCHANGED cnt

mcvars == <<vars, pc, cnt, mvars>>
MCSpec == MCInit /\ [][MCNext]_mcvars

\* Bounds: how often a task is terminated on its way into the lock; at most
\* one task is suspended or has another priority than its initial one
\* (not with a multi-lock).
Special(t) == kn.suscnt[t] > 0 \/ kn.priority[t] # kn.ipriority[t]
Bounds ==
    /\ \A t \in Task : kn.state[t] # "NONEXIST" => kn.ipriority[t] = Initial[t]
    /\ cnt <= CntMax /\ wai <= WaiMax
    /\ Cardinality({t \in Task : Special(t)}) <= 1
    /\ kn.flgid[mid] => kn.priority = kn.ipriority

\* The two locks of a multi-lock behave alike.
Alike == Permutations(TwoLocks)

\* What a wait has left in ercd counts when a task returns from tk_wai_flg.  A
\* wait that times out continues as one that is released.
View == <<[kn EXCEPT !.wtmeb = <<>>,
                     !.wercd = [t \in Task |-> pc[t] = "wai" /\ @[t] = "E_OK"]],
          ctxtsk, dispatch_disabled, pendsv, basepri, pc, cnt, mvars>>
=============================================================================
