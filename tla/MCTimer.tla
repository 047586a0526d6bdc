------------------------------ MODULE MCTimer ------------------------------
(* Instances of Timer for TLC. *)
EXTENDS Timer

CONSTANTS t1, t2, c1, a1                \* model values

OneTask == {t1}
TwoTasks == {t1, t2}
OneCyc == {c1}
OneAlm == {a1}
Nothing == {}

\* Timeouts and intervals that end within half of the words, counted from the
\* next tick: below, at and above multiples of TIMER_PERIOD.
Tmos == {1, 6}
Cyctims == {1, 5}
Cycphss == {0, 6}
Almtims == {0, 3}

\* All that CHECK_TMOUT accepts.
AllTmos == 1..ABSTIM_DIFF_MIN

\* The run without AllTmos has short intervals.
ASSUME Tmo # AllTmos => ShortIntervals

\* The times of events that are in no queue are dead.
LiveTimes ==
    <<current_time, timer_queue, cyc, alm, at,
      [e \in {f \in TMEB : Live(f)} |-> <<time[e], due[e]>>]>>
=============================================================================
