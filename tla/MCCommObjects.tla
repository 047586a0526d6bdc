--------------------------- MODULE MCCommObjects ---------------------------
(* Instances of CommObjects for TLC. *)
EXTENDS CommObjects

CONSTANTS free, none, b1, b1r, l1, p1, p1a, p2, p2a, m1, m2    \* model values
CONSTANT Started                        \* the initial priorities of the tasks

Heads == {b1, b1r, l1, p1, p1a, p2, p2a}
OneMbf == {b1}
OneMpl == {l1}
TwoPor == {p1, p2}
SendQs == b1 :> b1
RecvQs == b1 :> b1r
CallQs == p1 :> p1 @@ p2 :> p2
AcceptQs == p1 :> p1a @@ p2 :> p2a
Started011 == <<0, 1, 1>>

\* No buffer, and one for either of the messages or twice the smaller one.
Messages == {m1, m2}
MessageSizes == m1 :> 3 @@ m2 :> 5
BufferSizes == {0, 16}
MbfMaxes == {5}

\* A pool of three of the smaller blocks, or a larger and a smaller one.
PoolSizes == {64}
BlockSizes == {1, 33}

OneSize == {1}
PortOf == p1 :> [poratr |-> {}, maxcmsz |-> 2, maxrmsz |-> 1]
       @@ p2 :> [poratr |-> {"TPRI"}, maxcmsz |-> 1, maxrmsz |-> 2]
Ports == {PortOf[p1], PortOf[p2]}
Patterns == {{"a"}, {"b"}}

AllStarted ==
    FoldLeft(LAMBDA k, p : LET t == Head(k.que[FreeTcb]) IN MakeReady(CreateTcb(k, p), t),
             InitKernel, Started)

MCInit ==
    /\ kn = WithFreeCommObjects(AllStarted)
    /\ ctxtsk = NoTask
    /\ dispatch_disabled = "DISABLE_IMPLICIT"
    /\ pendsv = TRUE
    /\ basepri = FALSE

MCSpec == MCInit /\ [][CommNext]_vars

\* Bounds: objects of one kind at a time, and a rendezvous is of the kind of
\* its port; the ports are of one form each; the first task does not call, the
\* second only with one pattern, as everyone on the second port; at most one
\* number of an earlier rendezvous is known; only the last task's priority is
\* changed, with ports only while it waits for one to be called; no task is
\* suspended.
PortKind ==
    (\E x \in POR : kn.porid[x]) \/ \E t \in Task : kn.known[t] # {} \/ kn.wrdvno[t] # 0
OneKind ==
    Cardinality({x \in MBF : kn.mbfid[x]} \cup {x \in MPL : kn.mplid[x]}
                \cup (IF PortKind THEN {p1} ELSE {})) <= 1
Stale == {<<u, r>> \in UNION {{v} \X kn.known[v] : v \in Task} :
             ~(Answerable(r[1]) /\ kn.winfo[r[1]].rdvno = r)}
OnePattern(t) ==
    /\ kn.wspec[t] \in CalWSpec => kn.winfo[t].calptn = {"a"}
    /\ kn.wspec[t] = "acp" => kn.winfo[t].acpptn = {"a"}
Bounds ==
    /\ OneKind /\ Cardinality(Stale) <= 1
    /\ kn.wspec[1] \notin CalWSpec \cup {"rdv"}
    /\ kn.porid[p1] => kn.porid[p2]
    /\ \A t \in Task : t = 2 \/ kn.wid[t] = p2 => OnePattern(t)
    /\ \A x \in POR : kn.por[x] \in {NoPort, PortOf[x]}
    /\ \A t \in Task : kn.priority[t] # kn.ipriority[t] =>
         t = NumTask /\ (PortKind => kn.wspec[t] \in CalWSpec)
    /\ \A t \in Task : kn.suscnt[t] = 0

\* Bound: a dispatch that is due comes before another call.
DispatchFirst ==
    \/ ~pendsv /\ (ctxtsk # NoTask \/ kn.schedtsk = NoTask)
    \/ pendsv' # pendsv \/ ctxtsk' # ctxtsk

\* Bound: a wait has a timeout, except in a rendezvous; what happens to a wait
\* without one happens also to one with.
TimedWaits ==
    \A t \in Task : kn.state[t] = "READY" /\ kn'.state[t] = "WAIT" =>
        kn'.wtmeb[t] \/ kn'.wspec[t] = "rdv"

\* What a wait has left in ercd influences no other step.
WithoutErcd == <<[kn EXCEPT !.wercd = <<>>], ctxtsk, dispatch_disabled, pendsv, basepri>>
=============================================================================
