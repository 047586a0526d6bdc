------------------------------ MODULE Mailbox ------------------------------
(***************************************************************************)
(* Mailboxes (kernel/tkernel/mailbox.c, mailbox.h).  A message is memory   *)
(* of its sender; the kernel links the messages of a mailbox by a pointer  *)
(* in each message (msgque), from the head mq_head on.  mq_tail is kept in *)
(* a FIFO mailbox only, and is stale when there is no message.             *)
(*                                                                         *)
(* A message that has been sent belongs to the receiver once it received   *)
(* it; it is not sent twice before that.  The wait queue of mailbox x has  *)
(* the head x.  msgs[x] is a history variable: the messages of x in the    *)
(* order they were sent.                                                   *)
(***************************************************************************)
EXTENDS WaitObject

CONSTANTS MBX,          \* the mailbox control blocks
          Msg,          \* the messages
          NoMsg,        \* the NULL message pointer
          MsgPri        \* msgpri of each message

ASSUME MailboxAssumption ==
    /\ MBX \subseteq WaitQ /\ NoObj \notin MBX
    /\ IsFiniteSet(Msg) /\ NoMsg \notin Msg
    /\ MsgPri \in [Msg -> Int]

MbxAtr == {"TPRI", "MPRI"}                  \* TA_TPRI, TA_MPRI
MbxWSpec == {"mbx_tfifo", "mbx_tpri"}

WithFreeMailboxes(k) ==
    WithFields(k, [mbxid |-> [x \in MBX |-> FALSE],
                   mbxatr |-> [x \in MBX |-> {}],
                   mqhead |-> [x \in MBX |-> NoMsg],
                   mqtail |-> [x \in MBX |-> NoMsg],
                   nextmsg |-> [m \in Msg |-> NoMsg],
                   msgs |-> [x \in MBX |-> <<>>]])

(***************************************************************************)
(* The message queue.                                                      *)
(***************************************************************************)
\* The messages c are linked from m on, the last one to none.
LinksTo(nextmsg, m, c) ==
    /\ m = (IF c = <<>> THEN NoMsg ELSE c[1])
    /\ \A i \in DOMAIN c : nextmsg[c[i]] = (IF i = Len(c) THEN NoMsg ELSE c[i+1])

\* The messages linked from m on.
Chain(k, m) == CHOOSE c \in SeqOf(Msg, Cardinality(Msg)) : LinksTo(k.nextmsg, m, c)

InMailbox(k, m) == \E x \in MBX : m \in ToSet(k.msgs[x])

\* Connect to the end of the queue.
Connect(k, x, m) ==
    LET k1 == [k EXCEPT !.nextmsg[m] = NoMsg, !.mqtail[x] = m]
    IN  IF k.mqhead[x] = NoMsg THEN [k1 EXCEPT !.mqhead[x] = m]
        ELSE [k1 EXCEPT !.nextmsg[k.mqtail[x]] = m]

\* Fault: a message goes before those of its own priority.
QueueInsertMpriFirst(k, x, m) ==
    LET before == SelectSeq(Chain(k, k.mqhead[x]), LAMBDA e : MsgPri[e] < MsgPri[m])
        prev == Last(before)
    IN  IF before = <<>>
        THEN [k EXCEPT !.nextmsg[m] = k.mqhead[x], !.mqhead[x] = m]
        ELSE [k EXCEPT !.nextmsg[m] = k.nextmsg[prev], !.nextmsg[prev] = m]

\* The place in the chain before the first message of lower priority.
MpriPos(chain, m) ==
    LET lower == {i \in DOMAIN chain : MsgPri[chain[i]] > MsgPri[m]}
    IN  IF lower = {} THEN Len(chain) + 1
        ELSE CHOOSE i \in lower : \A j \in lower : i <= j

\* knl_queue_insert_mpri
QueueInsertMpri(k, x, m) ==
    LET chain == Chain(k, k.mqhead[x])
        pos == MpriPos(chain, m)
        next == IF pos > Len(chain) THEN NoMsg ELSE chain[pos]
    IN  IF pos = 1
        THEN [k EXCEPT !.nextmsg[m] = next, !.mqhead[x] = m]
        ELSE [k EXCEPT !.nextmsg[m] = next, !.nextmsg[chain[pos - 1]] = m]

(***************************************************************************)
(* The calls on mailboxes.                                                 *)
(***************************************************************************)
CreMbx(x, atr) ==
    /\ InTask
    /\ ~kn.mbxid[x]
    /\ SystemCall("task", [kn EXCEPT !.mbxid[x] = TRUE, !.mbxatr[x] = atr,
                                     !.mqhead[x] = NoMsg])

\* The messages left in the mailbox are forgotten.  mq_tail, which
\* tk_cre_mbx does not set, is dead until a message is sent.
DelMbx(x) ==
    /\ InTask
    /\ kn.mbxid[x]
    /\ SystemCall("task", [WaitDelete(kn, x) EXCEPT
                             !.mbxid[x] = FALSE, !.mbxatr[x] = {},
                             !.mqhead[x] = NoMsg, !.mqtail[x] = NoMsg,
                             !.nextmsg = [m \in Msg |-> IF m \in ToSet(kn.msgs[x]) THEN NoMsg
                                                        ELSE @[m]],
                             !.msgs[x] = <<>>])

SndMbx(c, x, m) ==
    /\ CanCall(c)
    /\ kn.mbxid[x] /\ ~InMailbox(kn, m)
    /\ "MPRI" \in kn.mbxatr[x] => MsgPri[m] > 0
    /\ SystemCall(c,
         IF kn.que[x] # <<>> THEN EndWait(kn, Head(kn.que[x]), "E_OK")
         ELSE [(IF "MPRI" \in kn.mbxatr[x] THEN QueueInsertMpri(kn, x, m)
                ELSE Connect(kn, x, m)) EXCEPT !.msgs[x] = Append(@, m)])

\* The receiver may overwrite the header of the message it got.
RcvMbx(x, tmout) ==
    /\ CanWait
    /\ kn.mbxid[x]
    /\ IF kn.mqhead[x] # NoMsg
       THEN LET m == kn.mqhead[x]
            IN  SystemCall("task", [kn EXCEPT !.mqhead[x] = kn.nextmsg[m],
                                              !.nextmsg[m] = NoMsg,
                                              !.msgs[x] = Unlink(@, m)])
       ELSE /\ tmout # "POL"
            /\ LET tpri == "TPRI" \in kn.mbxatr[x]
               IN  SystemCall("task", GcbMakeWait(kn, ctxtsk, x, x, tpri,
                                                  IF tpri THEN "mbx_tpri" ELSE "mbx_tfifo",
                                                  NoInfo, tmout))

\* mbx_chg_pri
MbxChgPri(k, t) == GcbChangePri(k, t, k.wid[t])

-----------------------------------------------------------------------------
(***************************************************************************)
(* Properties.                                                             *)
(***************************************************************************)

MbxTypeOK ==
    /\ kn.mbxid \in [MBX -> BOOLEAN]
    /\ kn.mbxatr \in [MBX -> SUBSET MbxAtr]
    /\ kn.mqhead \in [MBX -> Msg \cup {NoMsg}]
    /\ kn.mqtail \in [MBX -> Msg \cup {NoMsg}]
    /\ kn.nextmsg \in [Msg -> Msg \cup {NoMsg}]

\* No task waits for a message while there is one.
MbxNoSatisfiedWaiter == \A x \in MBX : kn.que[x] # <<>> => kn.mqhead[x] = NoMsg

\* The queue of x holds the tasks that wait for x, in their order.
MbxQueueExact ==
    \A x \in MBX :
        QueueExact(kn, x, {t \in Task : WaitsFor(kn, t, x)}, "TPRI" \in kn.mbxatr[x])

\* The links from mq_head on hold exactly the messages that were sent and not
\* received: in the order they were sent, with TA_MPRI in the order of their
\* priorities and among equals in the order they were sent.  In a FIFO mailbox
\* mq_tail is the last of them: the next message is linked to it.
MessagesInOrder ==
    \A x \in MBX :
        LET chain == Chain(kn, kn.mqhead[x])
        IN  IF "MPRI" \in kn.mbxatr[x]
            THEN /\ ToSet(chain) = ToSet(kn.msgs[x]) /\ IsInjective(chain)
                 /\ \A i, j \in DOMAIN chain : i < j =>
                      \/ MsgPri[chain[i]] < MsgPri[chain[j]]
                      \/ /\ MsgPri[chain[i]] = MsgPri[chain[j]]
                         /\ Before(kn.msgs[x], chain[i], chain[j])
            ELSE /\ chain = kn.msgs[x]
                 /\ chain # <<>> => kn.mqtail[x] = Last(chain)
=============================================================================
