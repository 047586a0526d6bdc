------------------------------ MODULE MCMutex ------------------------------
(* Instances of Mutex for TLC. *)
EXTENDS Mutex

CONSTANTS free, m1, m2, none            \* model values

TwoMutexes == {m1, m2}
Symmetry == Permutations({m1, m2})

AllKinds == {<<"TFIFO", 0>>, <<"TPRI", 0>>, <<"INHERIT", 0>>, <<"CEILING", 0>>, <<"CEILING", 1>>}
Mixed == {<<"INHERIT", 0>>, <<"CEILING", 1>>}
Distinct3 == <<0, 1, 2>>
Three01 == <<0, 1, 1>>

\* All tasks are created and started and the first dispatch is due: a state
\* that the boot and the calls of the initial task lead to.
AllStarted(priorities) ==
    FoldLeft(LAMBDA k, p : LET t == Head(k.que[FreeTcb]) IN MakeReady(CreateTcb(k, p), t),
             InitKernel, priorities)

CallsInit ==
    /\ kn = WithFreeMutexes(AllStarted(Three01))
    /\ ctxtsk = NoTask
    /\ dispatch_disabled = "DISABLE_IMPLICIT"
    /\ pendsv = TRUE
    /\ basepri = FALSE

\* Chains of inheritance: the mutexes exist, tasks lock them with a timeout,
\* and interrupt handlers change priorities and release waits.
ChainInit ==
    /\ kn = [WithFreeMutexes(AllStarted(Distinct3)) EXCEPT !.mtxatr = [m \in MUTEX |-> "INHERIT"]]
    /\ ctxtsk = NoTask
    /\ dispatch_disabled = "DISABLE_IMPLICIT"
    /\ pendsv = TRUE
    /\ basepri = FALSE

ChainNext ==
    \/ \E m \in MUTEX :
          \/ \E kind \in Mixed : CreMtx(m, kind)
          \/ DelMtx(m) \/ LocMtx(m, "TIME") \/ UnlMtx(m)
    \/ \E t \in Task :
          \/ TerTskMtx(t) \/ StaTsk("hdr", t) \/ TimerEventMtx(t)
          \/ SusTsk("hdr", t) \/ RsmTsk("hdr", t)
          \/ \E p \in Pri : ChgPriMtx("hdr", t, p)
    \/ DispatchEntry \/ DispatchSwitch

\* Every call on one mutex with tasks of two priorities, or the calls that
\* make chains with tasks of three: there task 3 has the lowest priority.
Chains == kn.ipriority[3] = 2
MCInit == CallsInit \/ ChainInit
MCNext == IF Chains THEN ChainNext ELSE MtxNext
MCSpec == MCInit /\ [][MCNext]_vars

\* The calls that meet a deadlock: tasks that wait for each other, priorities
\* that change meanwhile, and a mutex that is deleted or a task that is
\* terminated to break it.
DeadlockNext ==
    \/ \E m \in MUTEX : LocMtx(m, "FEVR")
    \/ \E t \in Task, p \in Pri : ChgPriMtx("hdr", t, p)
    \/ DispatchEntry \/ DispatchSwitch

DeleteSpec == ChainInit /\ [][DeadlockNext \/ \E m \in MUTEX : DelMtx(m)]_vars
TerminateSpec == ChainInit /\ [][DeadlockNext \/ \E t \in Task : TerTskMtx(t)]_vars

\* What a wait leaves in ercd influences no other step.
WithoutErcd == <<[kn EXCEPT !.wercd = <<>>], ctxtsk, dispatch_disabled, pendsv, basepri>>

\* Bound: no task waits, through the owners of the mutexes, for itself.
Owner(t) == IF WaitsForMutex(kn, t) THEN kn.mtxtsk[kn.wid[t]] ELSE NoTask
NoDeadlock ==
    \A t \in Task :
        LET chain[n \in 0..NumTask] ==
              IF n = 0 THEN t ELSE IF chain[n-1] = NoTask THEN NoTask ELSE Owner(chain[n-1])
        IN  chain[NumTask] = NoTask

\* Bounds: without chains there is one mutex and there are two priorities; in
\* chains at most one task is suspended.
Bounds ==
    /\ NoDeadlock
    /\ ~Chains => /\ Cardinality({m \in MUTEX : Exists(kn, m)}) <= 1
                  /\ \A t \in Task : kn.ipriority[t] <= 1 /\ kn.bpriority[t] <= 1
                  /\ \A m \in MUTEX : kn.ceilpri[m] <= 1
    /\ Chains => Cardinality({t \in Task : kn.suscnt[t] > 0}) <= 1
=============================================================================
