----------------------------- MODULE Precedence -----------------------------
(***************************************************************************)
(* What the scheduler promises: the tasks that can execute stand in one    *)
(* line, ordered by priority and, within a priority, by the time they      *)
(* joined it.  The first in line is the task that should execute, and      *)
(* whenever a task is put in execution it is the first in line.            *)
(***************************************************************************)
EXTENDS Integers

CONSTANTS Tasks,        \* the tasks
          Priorities,   \* numbers, the smaller the higher
          None          \* no task

VARIABLES
    line,               \* the tasks that can execute
    ahead,              \* the pairs of them of which the first precedes the second
    pri,                \* the priority of each task
    sched,              \* the task that should execute
    running             \* the task in execution

vars == <<line, ahead, pri, sched, running>>

\* The task ahead of all others.
First(s, a) ==
    IF s = {} THEN None
    ELSE CHOOSE t \in s : \A u \in s \ {t} : <<t, u>> \in a

\* t leaves its place: the others keep theirs.
Without(t) == {e \in ahead : e[1] # t /\ e[2] # t}

\* t leaves its place and joins the line behind all tasks of the same or a
\* higher priority than p.
Join(t, p) ==
    Without(t) \cup {<<u, t>> : u \in {v \in line \ {t} : pri[v] <= p}}
               \cup {<<t, u>> : u \in {v \in line \ {t} : pri[v] > p}}

\* One task has entered and none executes yet.
Init ==
    /\ \E t \in Tasks : line = {t} /\ sched = t
    /\ ahead = {}
    /\ pri \in [Tasks -> Priorities]
    /\ running = None

Enter(t) ==
    /\ t \notin line
    /\ line' = line \cup {t}
    /\ ahead' = Join(t, pri[t])
    /\ UNCHANGED <<pri, running>>

\* A task that leaves may end and with it its execution and its priority.
Leave(t) ==
    /\ t \in line
    /\ line' = line \ {t}
    /\ ahead' = Without(t)
    /\ \E p \in Priorities : pri' = [pri EXCEPT ![t] = p]
    /\ running' \in {running, None}
    /\ t = running \/ running' = running

Reposition(t, p) ==
    /\ t \in line
    /\ ahead' = Join(t, p)
    /\ pri' = [pri EXCEPT ![t] = p]
    /\ UNCHANGED <<line, running>>

\* The first of a priority becomes the last of it.
Rotate(t) ==
    /\ t \in line
    /\ \A u \in line \ {t} : pri[u] = pri[t] => <<t, u>> \in ahead
    /\ ahead' = Join(t, pri[t])
    /\ UNCHANGED <<line, pri, running>>

ChangeIdle(t, p) ==
    /\ t \notin line
    /\ pri' = [pri EXCEPT ![t] = p]
    /\ UNCHANGED <<line, ahead, running>>

Stop ==
    /\ running' = None
    /\ UNCHANGED <<line, ahead, pri>>

Start ==
    /\ running = None /\ line # {}
    /\ running' = First(line, ahead)
    /\ UNCHANGED <<line, ahead, pri>>

Change ==
    \/ \E t \in Tasks : Enter(t) \/ Leave(t) \/ Rotate(t)
    \/ \E t \in Tasks, p \in Priorities : Reposition(t, p) \/ ChangeIdle(t, p)
    \/ Stop \/ Start

Next == Change /\ sched' = First(line', ahead')

Spec == Init /\ [][Next]_vars

=============================================================================
