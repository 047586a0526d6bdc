--------------------------- MODULE TaskPrecedence ---------------------------
(* Task implements Precedence. *)
EXTENDS Task

\* The tasks in the ready rings.
Line(k) == {t \in Task : \E p \in Pri : InRing(k.que[p], t)}

InOrder(s, t, u) == \E i, j \in DOMAIN s : i < j /\ s[i] = t /\ s[j] = u

\* A task is ahead of those in rings of lower priority and of those behind it
\* in its own ring.
Ahead(k) ==
    {e \in Task \X Task :
        \/ \E p, q \in Pri : p < q /\ InRing(k.que[p], e[1]) /\ InRing(k.que[q], e[2])
        \/ \E p \in Pri : InOrder(k.que[p], e[1], e[2])}

\* The rings, the bitmap, the cached top_priority and the incrementally kept
\* schedtsk implement one line of tasks ordered by precedence: a preempted
\* task keeps its place, nobody is overtaken within a priority except by a
\* rotation or a change of its own priority, and only the first is executed.
Precedence ==
    INSTANCE Precedence WITH
        Tasks <- Task, Priorities <- Pri, None <- NoTask,
        line <- Line(kn), ahead <- Ahead(kn), pri <- kn.priority,
        sched <- kn.schedtsk, running <- ctxtsk

KeepsPrecedence == Precedence!Spec

=============================================================================
