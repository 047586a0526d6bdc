---------------------------- MODULE CommObjects ----------------------------
(***************************************************************************)
(* Tasks, interrupt handlers and the timer over one kernel with message    *)
(* buffers, variable-size memory pools and rendezvous ports.               *)
(***************************************************************************)
EXTENDS MessageBuffer, MemoryPool, Rendezvous

\* tcb->wspec->chg_pri_hook
CommChgPri(k, t) ==
    CASE k.wspec[t] = "smbf_tpri" -> MbfChgPri(k, t)
      [] k.wspec[t] = "mpl_tpri" -> MplChgPri(k, t)
      [] k.wspec[t] = "cal_tpri" -> CalChgPri(k, t)
      [] OTHER -> k

\* tcb->wspec->rel_wai_hook
CommRelWai(k, o, wspec) ==
    CASE wspec \in SmbfWSpec -> MbfRelWai(k, o)
      [] wspec \in MplWSpec -> MplRelWai(k, o)
      [] OTHER -> k

WithFreeCommObjects(k) ==
    WithFreePorts(WithFreeMemoryPools(WithFreeMessageBuffers(WithNoWait(k))))

CommInit ==
    /\ kn = WithFreeCommObjects(MakeReady(CreateTcb(InitKernel, 0), 1))
    /\ ctxtsk = NoTask
    /\ dispatch_disabled = "DISABLE_IMPLICIT"
    /\ pendsv = TRUE
    /\ basepri = FALSE

CommTaskCall ==
    \/ \E t \in Task : TerTskWait(t) \/ TimerEventWait(t)
    \/ \E c \in Caller, t \in Task :
          \/ RelWaiWait(c, t)
          \/ \E p \in Pri : ChgPriWait(c, t, p)

CommNext ==
    \/ MbfCall
    \/ MplCall
    \/ PorCall
    \/ CommTaskCall
    \/ OtherTaskCall

CommSpec == CommInit /\ [][CommNext]_vars

-----------------------------------------------------------------------------
(***************************************************************************)
(* Properties.                                                             *)
(***************************************************************************)

\* Every wait queue holds the tasks that wait for its object, in their order,
\* and the fields of the objects hold values of their C types.
CommQueuesExact ==
    /\ MbfTypeOK /\ MplTypeOK /\ PorTypeOK
    /\ MbfQueueExact /\ MplQueueExact /\ PorQueueExact
    /\ \A t \in Task :
          kn.state[t] \in WaitBit <=> kn.wid[t] # NoObj \/ kn.wspec[t] = "rdv"

\* No task waits for what is there: room in a message buffer or a message, a
\* block of a memory pool, the other side of a rendezvous.
CommNoSatisfiedWaiter ==
    MbfNoSatisfiedWaiter /\ MplNoSatisfiedWaiter /\ PorNoSatisfiedWaiter

\* No waiting task is served before one in front of it: neither a sender nor
\* a task that waits for a block.
ServedInOrder ==
    [][\A x \in MBF \cup MPL, t, u \in Task :
          LET served(v) == /\ WaitsFor(kn, v, x) /\ kn.wspec[v] \in SmbfWSpec \cup MplWSpec
                           /\ ~(kn'.state[v] \in WaitBit) /\ kn'.wercd[v] = "E_OK"
              tpri == kn.wspec[u] \in {"smbf_tpri", "mpl_tpri"}
              q == IF x \in MBF THEN SendQ[x] ELSE x
          IN  served(u) /\ WaitsFor(kn', t, x) /\ kn'.wspec[t] = kn.wspec[u] =>
                 IF tpri THEN kn'.priority[u] <= kn'.priority[t]
                 ELSE Before(kn.que[q], u, t)]_vars
=============================================================================
