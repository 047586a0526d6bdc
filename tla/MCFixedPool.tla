---------------------------- MODULE MCFixedPool ----------------------------
(* Instances of FixedPool for TLC. *)
EXTENDS FixedPool

CONSTANTS free, p1, p2, l1, l2, none    \* model values

TwoPools == {p1, p2}
TwoQueues == {p1, p2, l1, l2}
TwoLockQ == p1 :> l1 @@ p2 :> l2

\* Bounds: at most one task is suspended or has another priority than its
\* initial one; of the second pool there is little more than its lock: one
\* task at a time makes calls on it, no task waits for a block of it, and the
\* application has none of them.
Special(t) == kn.suscnt[t] > 0 \/ kn.priority[t] # kn.ipriority[t]
Bounds ==
    /\ Cardinality({t \in Task : Special(t)}) <= 1
    /\ Cardinality({t \in Task : kn.call[t].p = p2}) <= 1
    /\ kn.mpfatr[p2] = "TFIFO" /\ kn.que[p2] = <<>> /\ kn.given[p2] = {}

\* What a wait has left in ercd influences no other step.
WithoutErcd == <<[kn EXCEPT !.wercd = <<>>], ctxtsk, dispatch_disabled, pendsv, basepri>>
=============================================================================
