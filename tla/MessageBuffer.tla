--------------------------- MODULE MessageBuffer ---------------------------
(***************************************************************************)
(* Message buffers (kernel/tkernel/messagebuf.c, messagebuf.h).  Messages  *)
(* of different sizes are copied through a ring buffer, each behind a      *)
(* header that holds its size; a message that does not fit makes its       *)
(* sender wait, and is stored later, by the call that makes room for it.   *)
(* With a buffer of size 0, or an empty one that is too small, a message   *)
(* goes from the sender to the receiver directly.                          *)
(*                                                                         *)
(* Sizes and positions are in bytes; the buffer is modelled in cells of    *)
(* HEADERSZ bytes, the unit headers and messages are aligned to.  A cell   *)
(* holds a header or a part of a message.  winfo[t] is the message a       *)
(* sender t waits with.  Buffer x has two wait queues, with the heads      *)
(* SendQ[x] and RecvQ[x].  sent[x] is a history variable: the messages in  *)
(* the buffer in the order they were stored.                               *)
(***************************************************************************)
EXTENDS WaitObject

CONSTANTS MBF,             \* the message buffer control blocks
          MbfMsg,          \* the messages
          MsgSz,           \* the size of a message
          SendQ,           \* the head of the send queue of a message buffer
          RecvQ,           \* the head of its receive queue
          BufSizes,        \* the sizes message buffers are created with
          MaxMsgSizes      \* the maximum message sizes they are created with

ASSUME MessageBufferAssumption ==
    /\ NoObj \notin MBF
    /\ SendQ \in [MBF -> WaitQ] /\ RecvQ \in [MBF -> WaitQ]
    /\ \A x \in MBF : SendQ[x] # RecvQ[x]
    /\ MsgSz \in [MbfMsg -> Nat \ {0}]
    /\ BufSizes \subseteq Nat /\ MaxMsgSizes \subseteq Nat \ {0}

MbfAtr == {"TPRI"}                          \* TA_TPRI
SmbfWSpec == {"smbf_tfifo", "smbf_tpri"}

HEADERSZ == 4
ROUNDSZ(sz) == ((sz + HEADERSZ - 1) \div HEADERSZ) * HEADERSZ
EmptyCell == <<"dead">>                     \* what it holds is never read

WithFreeMessageBuffers(k) ==
    WithFields(k, [mbfid |-> [x \in MBF |-> FALSE],
                   mbfatr |-> [x \in MBF |-> {}],
                   maxmsz |-> [x \in MBF |-> 0],
                   bufsz |-> [x \in MBF |-> 0],
                   frbufsz |-> [x \in MBF |-> 0],
                   head |-> [x \in MBF |-> 0],
                   tail |-> [x \in MBF |-> 0],
                   buffer |-> [x \in MBF |-> <<>>],
                   sent |-> [x \in MBF |-> <<>>]])

(***************************************************************************)
(* The ring buffer.                                                        *)
(***************************************************************************)
MbfFree(k, x, m) == HEADERSZ + MsgSz[m] <= k.frbufsz[x]        \* knl_mbf_free
MbfEmpty(k, x) == k.frbufsz[x] = k.bufsz[x]                    \* knl_mbf_empty

Taken(m) == HEADERSZ + ROUNDSZ(MsgSz[m])    \* the bytes of a stored message

\* The position n bytes behind pos, past the end from the beginning on.
Advance(k, x, pos, n) == (pos + n) % k.bufsz[x]

\* The cells, from the one at pos on, of n bytes.
CellsFrom(k, x, pos, n) ==
    [i \in 1..(n \div HEADERSZ) |-> Advance(k, x, pos, (i - 1) * HEADERSZ) \div HEADERSZ]

\* What a message looks like: its header and its parts.
Cells(m) == [i \in 1..(Taken(m) \div HEADERSZ) |->
                IF i = 1 THEN <<"size", MsgSz[m]>> ELSE <<m, i - 1>>]

WriteCells(buffer, cells, contents) ==
    [c \in DOMAIN buffer |-> IF \E i \in DOMAIN cells : cells[i] = c
                             THEN contents[CHOOSE i \in DOMAIN cells : cells[i] = c]
                             ELSE buffer[c]]

\* Fault: the free size shrinks by the bytes of the message, not rounded.
MsgToMbfUnrounded(k, x, m) ==
    [k EXCEPT !.frbufsz[x] = @ - (HEADERSZ + MsgSz[m]),
              !.tail[x] = Advance(k, x, @, Taken(m)),
              !.buffer[x] = WriteCells(@, CellsFrom(k, x, k.tail[x], Taken(m)), Cells(m)),
              !.sent[x] = Append(@, m)]

\* knl_msg_to_mbf
MsgToMbf(k, x, m) ==
    [k EXCEPT !.frbufsz[x] = @ - Taken(m),
              !.tail[x] = Advance(k, x, @, Taken(m)),
              !.buffer[x] = WriteCells(@, CellsFrom(k, x, k.tail[x], Taken(m)), Cells(m)),
              !.sent[x] = Append(@, m)]

\* knl_mbf_to_msg: the size in the header says how much is read.  The cells
\* are dead afterwards.
MbfToMsg(k, x) ==
    LET header == k.buffer[x][k.head[x] \div HEADERSZ]
        n == HEADERSZ + ROUNDSZ(header[2])
        cells == CellsFrom(k, x, k.head[x], n)
    IN  [k EXCEPT !.frbufsz[x] = @ + n,
                  !.head[x] = Advance(k, x, @, n),
                  !.buffer[x] = WriteCells(@, cells, [i \in DOMAIN cells |-> EmptyCell]),
                  !.sent[x] = Tail(@)]

(***************************************************************************)
(* Serving the send queue.                                                 *)
(***************************************************************************)
\* Fault: the search goes on behind a sender whose message does not fit.
MbfWakeupPast(k0, x) ==
    FoldLeft(LAMBDA k, t : IF MbfFree(k, x, k.winfo[t])
                           THEN EndWait(MsgToMbf(k, x, k.winfo[t]), t, "E_OK") ELSE k,
             k0, k0.que[SendQ[x]])

\* knl_mbf_wakeup: as long as the message of the first sender fits.
MbfWakeup(k0, x) ==
    LET next(a, t) ==
          IF a.stop \/ ~MbfFree(a.k, x, a.k.winfo[t]) THEN [a EXCEPT !.stop = TRUE]
          ELSE [a EXCEPT !.k = EndWait(MsgToMbf(a.k, x, a.k.winfo[t]), t, "E_OK")]
    IN  FoldLeft(next, [k |-> k0, stop |-> FALSE], k0.que[SendQ[x]]).k

\* knl_mbf_chg_pri: t, which waits to send to a TA_TPRI buffer, has a new
\* priority.
MbfChgPri(k, t) == MbfWakeup(GcbChangePri(k, t, SendQ[k.wid[t]]), k.wid[t])

\* knl_mbf_rel_wai: a sender has left the queue of x with its message.
MbfRelWai(k, x) == MbfWakeup(k, x)

(***************************************************************************)
(* The calls on message buffers.                                           *)
(***************************************************************************)
CreMbf(x, atr, bufsz, maxmsz) ==
    /\ InTask
    /\ ~kn.mbfid[x]
    /\ LET sz == ROUNDSZ(bufsz)
       IN  SystemCall("task", [kn EXCEPT !.mbfid[x] = TRUE, !.mbfatr[x] = atr,
                                         !.maxmsz[x] = maxmsz,
                                         !.bufsz[x] = sz, !.frbufsz[x] = sz,
                                         !.head[x] = 0, !.tail[x] = 0,
                                         !.buffer[x] = [c \in 0..(sz \div HEADERSZ) - 1
                                                          |-> EmptyCell]])

\* The messages in the buffer are lost; its fields are dead.
DelMbf(x) ==
    /\ InTask
    /\ kn.mbfid[x]
    /\ SystemCall("task", [WaitDelete(WaitDelete(kn, RecvQ[x]), SendQ[x]) EXCEPT
                             !.mbfid[x] = FALSE, !.mbfatr[x] = {}, !.maxmsz[x] = 0,
                             !.bufsz[x] = 0, !.frbufsz[x] = 0,
                             !.head[x] = 0, !.tail[x] = 0,
                             !.buffer[x] = <<>>, !.sent[x] = <<>>])

\* A sender that polls may also be a handler, which passes the send queue by.
SndMbf(c, x, m, tmout) ==
    /\ CanCall(c) /\ (tmout # "POL" => c = "task" /\ CanWait)
    /\ kn.mbfid[x] /\ MsgSz[m] <= kn.maxmsz[x]
    /\ LET tpri == "TPRI" \in kn.mbfatr[x]
           first == c = "hdr" \/ IsTop(kn, ctxtsk, SendQ[x], tpri)
       IN  IF kn.que[RecvQ[x]] # <<>>
           THEN SystemCall(c, EndWait(kn, Head(kn.que[RecvQ[x]]), "E_OK"))
           ELSE IF first /\ MbfFree(kn, x, m) THEN SystemCall(c, MsgToMbf(kn, x, m))
           ELSE /\ tmout # "POL"
                /\ SystemCall("task", GcbMakeWait(kn, ctxtsk, x, SendQ[x], tpri,
                                                  IF tpri THEN "smbf_tpri" ELSE "smbf_tfifo",
                                                  m, tmout))

\* Receivers wait in the order they came, and no hook is called for them.
RcvMbf(x, tmout) ==
    /\ CanWait
    /\ kn.mbfid[x]
    /\ LET q == kn.que[SendQ[x]]
       IN  IF ~MbfEmpty(kn, x) THEN SystemCall("task", MbfWakeup(MbfToMsg(kn, x), x))
           ELSE IF q # <<>>
           THEN SystemCall("task", MbfWakeup(EndWait(kn, Head(q), "E_OK"), x))
           ELSE /\ tmout # "POL"
                /\ SystemCall("task", LET k == Wait(kn, ctxtsk, x, "rmbf", NoInfo, tmout)
                                      IN  [k EXCEPT !.que = QueInsert(@, ctxtsk, RecvQ[x])])

MbfCall ==
    \E x \in MBF :
        \/ \E atr \in SUBSET MbfAtr, bufsz \in BufSizes, maxmsz \in MaxMsgSizes :
              CreMbf(x, atr, bufsz, maxmsz)
        \/ DelMbf(x)
        \/ \E c \in Caller, m \in MbfMsg, tmout \in TMO : SndMbf(c, x, m, tmout)
        \/ \E tmout \in TMO : RcvMbf(x, tmout)

-----------------------------------------------------------------------------
(***************************************************************************)
(* Properties.                                                             *)
(***************************************************************************)

MbfTypeOK ==
    /\ kn.mbfid \in [MBF -> BOOLEAN]
    /\ kn.mbfatr \in [MBF -> SUBSET MbfAtr]
    /\ \A x \in MBF : kn.frbufsz[x] \in 0..kn.bufsz[x]

\* The wait queues of x hold the tasks that wait to send to x and to receive
\* from it, in their order.
MbfQueueExact ==
    \A x \in MBF :
        /\ QueueExact(kn, SendQ[x], {t \in Task : WaitsFor(kn, t, x) /\ kn.wspec[t] \in SmbfWSpec},
                      "TPRI" \in kn.mbfatr[x])
        /\ QueueExact(kn, RecvQ[x], {t \in Task : WaitsFor(kn, t, x) /\ kn.wspec[t] = "rmbf"}, FALSE)

\* The ring buffer holds, from head on, the messages that were sent and not
\* received, each behind its header, in the order they were stored; they end
\* at tail, and the free size is the rest: whatever the sizes of the messages
\* that came and went, and wherever the buffer wraps.
BufferExact ==
    \A x \in MBF :
        LET contents == FoldLeft(LAMBDA s, m : s \o Cells(m), <<>>, kn.sent[x])
            used == Len(contents) * HEADERSZ
            cells == CellsFrom(kn, x, kn.head[x], used)
        IN  /\ used + kn.frbufsz[x] = kn.bufsz[x]
            /\ used > 0 => kn.tail[x] = Advance(kn, x, kn.head[x], used)
            /\ used = 0 => kn.tail[x] = kn.head[x]
            /\ \A i \in DOMAIN contents : kn.buffer[x][cells[i]] = contents[i]

\* No task waits for what is there: no receiver while there is a message or a
\* sender ("Receive wait task and Send wait task do not co-exist", says
\* messagebuf.h), and the first sender's message does not fit.
MbfNoSatisfiedWaiter ==
    \A x \in MBF :
        /\ kn.que[RecvQ[x]] # <<>> => MbfEmpty(kn, x) /\ kn.que[SendQ[x]] = <<>>
        /\ kn.que[SendQ[x]] # <<>> => ~MbfFree(kn, x, kn.winfo[Head(kn.que[SendQ[x]])])
=============================================================================
