----------------------------- MODULE Rendezvous -----------------------------
(***************************************************************************)
(* Rendezvous ports (kernel/tkernel/rendezvous.c, rendezvous.h; built with *)
(* USE_LEGACY_API).  A caller sends a message to a port and waits for the  *)
(* reply, in the same buffer; the task that accepts the call answers by    *)
(* the number of the rendezvous, or forwards it to another port.  A number *)
(* is the caller's task ID and a counter of the caller: it must not answer *)
(* a later rendezvous of the same caller.                                  *)
(*                                                                         *)
(* winfo[t] is                                                             *)
(*   in call wait    [calptn, cmsgsz, room]                                *)
(*   in accept wait  [acpptn]                                              *)
(*   in rendezvous   [rdvno, maxrmsz, room], in no ring                    *)
(* room, a history variable, is the size of the caller's buffer: it has    *)
(* room for a reply of the port that was called, and for the message sent. *)
(* known[t] are the numbers t got and has not replied to.  Port x has the  *)
(* wait queues CallQ[x] and AcceptQ[x].                                    *)
(***************************************************************************)
EXTENDS WaitObject

CONSTANTS POR,             \* the port control blocks
          CallQ, AcceptQ,  \* the heads of their wait queues
          PorKinds,        \* what ports are created with
          RdvPattern,      \* the bit patterns calls and acceptors choose
          RdvSizes,        \* the sizes of messages
          RnoCount         \* how many numbers a caller has, 2^16

ASSUME RendezvousAssumption ==
    /\ NoObj \notin POR
    /\ CallQ \in [POR -> WaitQ] /\ AcceptQ \in [POR -> WaitQ]
    /\ \A x \in POR : CallQ[x] # AcceptQ[x]
    /\ \A p \in RdvPattern : p # {}
    /\ RdvSizes \subseteq Nat
    /\ PorKinds \subseteq [poratr : SUBSET {"TPRI"}, maxcmsz : Nat, maxrmsz : Nat]
    /\ RnoCount \in Nat \ {0}

CalWSpec == {"cal_tfifo", "cal_tpri"}
NoPort == [poratr |-> {}, maxcmsz |-> 0, maxrmsz |-> 0]
Larger(m, n) == IF m > n THEN m ELSE n

WithFreePorts(k) ==
    WithFields(k, [porid |-> [x \in POR |-> FALSE],
                   por |-> [x \in POR |-> NoPort],
                   wrdvno |-> [t \in Task |-> 0],
                   known |-> [t \in Task |-> {}]])

\* No task keeps a number until the caller's counter comes back to it.
GenRdvno(k, t) == <<t, k.wrdvno[t]>>                            \* knl_gen_rdvno
NextRdvno(k, t) ==
    LET r == GenRdvno(k, t)
    IN  [k EXCEPT !.wrdvno[t] = (@ + 1) % RnoCount,
                  !.known = [u \in Task |-> @[u] \ {r}]]

\* The places in a queue of the tasks whose pattern meets one's own.
Acceptors(k, x, calptn) ==
    LET q == k.que[AcceptQ[x]] IN {i \in DOMAIN q : k.winfo[q[i]].acpptn \cap calptn # {}}
Callers(k, x, acpptn) ==
    LET q == k.que[CallQ[x]] IN {i \in DOMAIN q : k.winfo[q[i]].calptn \cap acpptn # {}}
FirstOf(k, q, S) == k.que[q][CHOOSE i \in S : \A j \in S : i <= j]

Receives(k, u, r) == [k EXCEPT !.known[u] = @ \cup {r}]

InRdv(k, t, r) ==
    /\ k.state[t] \in WaitBit /\ k.wspec[t] = "rdv"
    /\ r = k.winfo[t].rdvno

(***************************************************************************)
(* The calls on ports.  Creation, deletion, forwarding and reply are left  *)
(* to tasks (CHECK_INTSK), the others wait (CHECK_DISPATCH).               *)
(***************************************************************************)
CrePor(x, kind) ==
    /\ InTask
    /\ ~kn.porid[x]
    /\ SystemCall("task", [kn EXCEPT !.porid[x] = TRUE, !.por[x] = kind])

\* The callers in a rendezvous wait for no port: they are not released.
DelPor(x) ==
    /\ InTask
    /\ kn.porid[x]
    /\ SystemCall("task", [WaitDelete(WaitDelete(kn, CallQ[x]), AcceptQ[x]) EXCEPT
                             !.porid[x] = FALSE, !.por[x] = NoPort])

Rdv(r, maxrmsz, room) == [rdvno |-> r, maxrmsz |-> maxrmsz, room |-> room]

CalPor(x, calptn, cmsgsz, tmout) ==
    LET por == kn.por[x]
        room == Larger(por.maxrmsz, cmsgsz)
        S == Acceptors(kn, x, calptn)
        u == FirstOf(kn, AcceptQ[x], S)
        r == GenRdvno(kn, ctxtsk)
        tpri == "TPRI" \in por.poratr
        met == EndWait(Receives(NextRdvno(kn, ctxtsk), u, r), u, "E_OK")
    IN  /\ CanWait
        /\ kn.porid[x] /\ cmsgsz <= por.maxcmsz
        /\ IF S # {}
           THEN SystemCall("task", Wait(met, ctxtsk, NoObj, "rdv",
                                        Rdv(r, por.maxrmsz, room), "FEVR"))
           ELSE /\ tmout # "POL"
                /\ SystemCall("task",
                     GcbMakeWait(kn, ctxtsk, x, CallQ[x], tpri,
                                 IF tpri THEN "cal_tpri" ELSE "cal_tfifo",
                                 [calptn |-> calptn, cmsgsz |-> cmsgsz, room |-> room], tmout))

\* The first caller whose pattern meets goes over from call wait to the
\* rendezvous, without a timeout from then on.
AcpPor(x, acpptn, tmout) ==
    LET S == Callers(kn, x, acpptn)
        t == FirstOf(kn, CallQ[x], S)
        r == GenRdvno(kn, t)
        k == WaitCancel(Receives(NextRdvno(kn, t), ctxtsk, r), t)
    IN  /\ CanWait
        /\ kn.porid[x]
        /\ IF S # {}
           THEN SystemCall("task", [k EXCEPT !.wspec[t] = "rdv", !.wid[t] = NoObj,
                                             !.winfo[t] = Rdv(r, kn.por[x].maxrmsz, @.room)])
           ELSE /\ tmout # "POL"
                /\ SystemCall("task",
                     LET k1 == Wait(kn, ctxtsk, x, "acp", [acpptn |-> acpptn], tmout)
                     IN  [k1 EXCEPT !.que = QueInsert(@, ctxtsk, AcceptQ[x])])

\* Fault: the replies of the new port may be larger than those of the old.
FwdPorLarger(x, calptn, r, cmsgsz) ==
    LET t == r[1]
        w == kn.winfo[t]
        S == Acceptors(kn, x, calptn)
        u == FirstOf(kn, AcceptQ[x], S)
        new == GenRdvno(kn, t)
    IN  /\ InTask
        /\ kn.porid[x] /\ r \in kn.known[ctxtsk] /\ InRdv(kn, t, r)
        /\ cmsgsz <= kn.por[x].maxcmsz /\ S # {}
        /\ SystemCall("task", EndWait(Receives([NextRdvno(kn, t) EXCEPT
                                        !.winfo[t] = Rdv(new, kn.por[x].maxrmsz, w.room)], u, new),
                                      u, "E_OK"))

\* tk_fwd_por: the caller goes over to the new port's first acceptor that
\* meets calptn, under a new number, or to its call queue, without a timeout.
FwdPor(x, calptn, r, cmsgsz) ==
    LET t == r[1]
        por == kn.por[x]
        w == kn.winfo[t]
        S == Acceptors(kn, x, calptn)
        u == FirstOf(kn, AcceptQ[x], S)
        new == GenRdvno(kn, t)
        tpri == "TPRI" \in por.poratr
        k == [kn EXCEPT !.wspec[t] = IF tpri THEN "cal_tpri" ELSE "cal_tfifo",
                        !.wid[t] = x,
                        !.winfo[t] = [calptn |-> calptn, cmsgsz |-> cmsgsz, room |-> w.room]]
    IN  /\ InTask
        /\ kn.porid[x] /\ r \in kn.known[ctxtsk] /\ InRdv(kn, t, r)
        /\ cmsgsz <= por.maxcmsz /\ por.maxrmsz <= w.maxrmsz /\ cmsgsz <= w.maxrmsz
        /\ SystemCall("task",
             IF S # {}
             THEN EndWait(Receives([NextRdvno(kn, t) EXCEPT
                                      !.winfo[t] = Rdv(new, por.maxrmsz, w.room)], u, new),
                          u, "E_OK")
             ELSE [k EXCEPT !.que = IF tpri THEN QueInsertTpri(k, t, CallQ[x])
                                    ELSE QueInsert(@, t, CallQ[x])])

\* Fault: the number is not compared, only its task.
RplRdvAny(r, rmsgsz) ==
    LET t == r[1]
    IN  /\ InTask
        /\ r \in kn.known[ctxtsk]
        /\ kn.state[t] \in WaitBit /\ kn.wspec[t] = "rdv"
        /\ rmsgsz <= kn.winfo[t].maxrmsz
        /\ SystemCall("task", EndWait(kn, t, "E_OK"))

RplRdv(r, rmsgsz) ==
    LET t == r[1]
    IN  /\ InTask
        /\ r \in kn.known[ctxtsk]
        /\ InRdv(kn, t, r)
        /\ rmsgsz <= kn.winfo[t].maxrmsz
        /\ SystemCall("task", [EndWait(kn, t, "E_OK") EXCEPT !.known[ctxtsk] = @ \ {r}])

\* cal_chg_pri
CalChgPri(k, t) == GcbChangePri(k, t, CallQ[k.wid[t]])

PorCall ==
    \/ \E x \in POR :
        \/ \E kind \in PorKinds : CrePor(x, kind)
        \/ DelPor(x)
        \/ \E ptn \in RdvPattern :
            \/ \E sz \in RdvSizes, tmout \in TMO : CalPor(x, ptn, sz, tmout)
            \/ \E tmout \in TMO : AcpPor(x, ptn, tmout)
            \/ \E t \in Task : \E r \in kn.known[t], sz \in RdvSizes : FwdPor(x, ptn, r, sz)
    \/ \E t \in Task : \E r \in kn.known[t], sz \in RdvSizes : RplRdv(r, sz)

-----------------------------------------------------------------------------
(***************************************************************************)
(* Properties.                                                             *)
(***************************************************************************)

PorTypeOK ==
    /\ kn.porid \in [POR -> BOOLEAN]
    /\ kn.por \in [POR -> PorKinds \cup {NoPort}]
    /\ kn.wrdvno \in [Task -> 0..RnoCount-1]

\* The wait queues of x hold the tasks that wait to call and to accept, in
\* their order; a caller in a rendezvous is in none.
PorQueueExact ==
    \A x \in POR :
        /\ QueueExact(kn, CallQ[x], {t \in Task : WaitsFor(kn, t, x) /\ kn.wspec[t] \in CalWSpec},
                      "TPRI" \in kn.por[x].poratr)
        /\ QueueExact(kn, AcceptQ[x], {t \in Task : WaitsFor(kn, t, x) /\ kn.wspec[t] = "acp"}, FALSE)

\* A caller and an acceptor whose patterns meet do not both wait at one port:
\* after calls, acceptances, and forwards from other ports.
PorNoSatisfiedWaiter ==
    \A x \in POR : \A t \in ToSet(kn.que[CallQ[x]]), u \in ToSet(kn.que[AcceptQ[x]]) :
        kn.winfo[t].calptn \cap kn.winfo[u].acpptn = {}

Answerable(t) == kn.state[t] \in WaitBit /\ kn.wspec[t] = "rdv"

\* A rendezvous is answered by the task that accepted it last: no number a
\* task got before, from an earlier rendezvous of the caller or before it
\* forwarded this one, is the number of this one.
OneAnswerer ==
    \A t \in Task : Answerable(t) =>
        Cardinality({u \in Task : kn.winfo[t].rdvno \in kn.known[u]}) = 1

\* A caller in a rendezvous is released with the reply (E_OK) by the task
\* that accepted it last and by no other: a stale number does not answer a
\* later rendezvous.  It never times out.
AnsweredByItsNumber ==
    [][\A t \in Task :
          Answerable(t) /\ ~(kn'.state[t] \in WaitBit) =>
            CASE kn'.wercd[t] = "E_OK" -> kn.winfo[t].rdvno \in kn.known[ctxtsk]
              [] OTHER -> kn'.wercd[t] # "E_TMOUT"]_vars

\* What is written to the caller's buffer fits, also after the rendezvous was
\* forwarded, once or several times, to ports created with other sizes.
ReplyFits ==
    \A t \in Task :
        /\ Answerable(t) => kn.winfo[t].maxrmsz <= kn.winfo[t].room
        /\ kn.state[t] \in WaitBit /\ kn.wspec[t] \in CalWSpec =>
             /\ kn.winfo[t].cmsgsz <= kn.winfo[t].room
             /\ kn.por[kn.wid[t]].maxrmsz <= kn.winfo[t].room

\* A rendezvous has one task to answer it, with a reply that fits.
RdvExact == OneAnswerer /\ ReplyFits
=============================================================================
