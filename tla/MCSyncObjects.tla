--------------------------- MODULE MCSyncObjects ---------------------------
(* Instances of SyncObjects for TLC. *)
EXTENDS SyncObjects

CONSTANTS free, none, s1, f1, x1, a, b, m1, m2, m3, nil    \* model values
CONSTANT Started                        \* the initial priorities of the tasks

Heads == {s1, f1, x1}
OneSem == {s1}
OneFlg == {f1}
OneMbx == {x1}
TwoBits == {a, b}
ThreeMsgs == {m1, m2, m3}
MsgPris == m1 :> 1 @@ m2 :> 1 @@ m3 :> 2
Started011 == <<0, 1, 1>>

\* Waits for one bit, both, or either of them, that clear the pattern, the
\* bits they waited for, or nothing.
SomeWaits == {[waiptn |-> {a}, wfmode |-> {"CLR"}],
              [waiptn |-> {a, b}, wfmode |-> {"BITCLR"}],
              [waiptn |-> {a, b}, wfmode |-> {"ORW"}]}

AllStarted ==
    FoldLeft(LAMBDA k, p : LET t == Head(k.que[FreeTcb]) IN MakeReady(CreateTcb(k, p), t),
             InitKernel, Started)

MCInit ==
    /\ kn = WithFreeSyncObjects(AllStarted)
    /\ ctxtsk = NoTask
    /\ dispatch_disabled = "DISABLE_IMPLICIT"
    /\ pendsv = TRUE
    /\ basepri = FALSE

MCSpec == MCInit /\ [][SyncNext]_vars

\* Bounds: one object exists at a time; at most one task is suspended, while
\* it waits, or has another priority than its initial one.
OneObject == Cardinality({s \in SEM : kn.semid[s]} \cup {f \in FLG : kn.flgid[f]}
                         \cup {x \in MBX : kn.mbxid[x]}) <= 1
Special(t) == kn.suscnt[t] > 0 \/ kn.priority[t] # kn.ipriority[t]
Bounds ==
    /\ OneObject
    /\ Cardinality({t \in Task : Special(t)}) <= 1
    /\ \A t \in Task : kn.state[t] # "SUSPEND"

\* Bound: a wait for an event flag or a message has a timeout; what happens to
\* a wait without one happens also to one with.
TimedWaits ==
    \A t \in Task : kn.state[t] = "READY" /\ kn'.state[t] = "WAIT" =>
        kn'.wtmeb[t] \/ kn'.wspec[t] \in SemWSpec

\* What a wait has left in ercd influences no other step.
WithoutErcd == <<[kn EXCEPT !.wercd = <<>>], ctxtsk, dispatch_disabled, pendsv, basepri>>
=============================================================================
