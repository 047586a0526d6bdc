------------------------------- MODULE MCTask -------------------------------
(* Instances of Task for TLC. *)
EXTENDS TaskPrecedence

CONSTANT free           \* a model value for the head of the free ring

NoWaitQ == {}

\* Bound: no task has priority 1, so the bitmap always has a gap where the
\* next lower priority is looked for.
Gap == \A t \in Task : kn.ipriority[t] # 1 /\ kn.priority[t] # 1
=============================================================================
