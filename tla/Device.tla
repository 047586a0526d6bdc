------------------------------- MODULE Device -------------------------------
(***************************************************************************)
(* Device management (device.c, deviceio.c): registration of drivers,      *)
(* opening and closing of devices, requests, waits for requests, and       *)
(* suspension.  It is a library that runs in the calling tasks.  Its       *)
(* tables change only under the device lock (LockDM), so the code between  *)
(* LockDM and UnlockDM is one step; the drivers are called outside of it,  *)
(* and there anything else can happen.                                     *)
(*                                                                         *)
(* A driver is external: openfn, execfn and waitfn return at any time,     *)
(* with any result their types allow, and once abortfn has named a task    *)
(* they do return.  A free control block is nowhere read but for being     *)
(* free, so its content is a constant.  A request is its control block.    *)
(***************************************************************************)
EXTENDS Naturals, FiniteSets, SequencesExt

CONSTANTS Managers,     \* the tasks that register, open, close and suspend
          Users,        \* the tasks that request and wait
          DevCB, OpnCB, ReqCB,  \* the control blocks
          Name,         \* names of physical devices
          Units,        \* unit numbers; 0 is the whole device
          OpenModes,    \* the values of omode
          DDev,         \* what the driver of a name registers: [drvatr, nsub, disk]
          MaxDisSus,    \* MAX_DISSUS
          NoObj         \* no task, no control block, no name

Tsk == Managers \cup Users

ASSUME DeviceAssumption ==
    /\ IsFiniteSet(DevCB) /\ IsFiniteSet(OpnCB) /\ IsFiniteSet(ReqCB)
    /\ NoObj \notin Tsk \cup DevCB \cup OpnCB \cup ReqCB \cup Name
    /\ 0 \in Units /\ Units \subseteq Nat /\ MaxDisSus \in Nat
    /\ \A m \in OpenModes : m \subseteq {"READ", "WRITE", "EXCL", "REXCL", "WEXCL"}
    /\ \A nm \in Name :
         DDev[nm] \subseteq [drvatr : SUBSET {"OPENREQ"}, nsub : Nat, disk : BOOLEAN]

VARIABLES dm,           \* the tables of the device manager
          lockREG,      \* the task that holds the registration lock
          pc,           \* where a task is in the device manager
          loc,          \* its local variables there
          told,         \* external: the tasks a driver has been told to abort
          suspended     \* external: the devices whose driver is suspended

vars == <<dm, lockREG, pc, loc, told, suspended>>

UnusedDev == [devnm |-> NoObj, ddev |-> NoObj, openq |-> <<>>]
UnusedOpn == [devcb |-> NoObj, unitno |-> 0, omode |-> {}, requestq |-> <<>>,
              waitone |-> 0, waireqlst |-> <<>>, abort_tskid |-> NoObj,
              abort_cnt |-> 0, sem |-> 0, resid |-> 0]
UnusedReq == [opncb |-> NoObj, tskid |-> NoObj]

Idle == [o |-> NoObj, reqs |-> <<>>, any |-> FALSE, fn |-> FALSE,
         pass |-> 0, todo |-> <<>>, all |-> FALSE]

Init ==
    /\ dm = [dev |-> [d \in DevCB |-> UnusedDev], used |-> <<>>,
             freedev |-> SetToSeq(DevCB),
             opn |-> [o \in OpnCB |-> UnusedOpn], freeopn |-> SetToSeq(OpnCB),
             resq |-> <<>>,
             req |-> [r \in ReqCB |-> UnusedReq], freereq |-> SetToSeq(ReqCB),
             DisSusCnt |-> 0]
    /\ lockREG = NoObj
    /\ pc = [t \in Tsk |-> "out"]
    /\ loc = [t \in Tsk |-> Idle]
    /\ told = {} /\ suspended = {}

\* Takes an entry out of the queue, if it is there.
QueRemove(q, e) ==
    IF e \in ToSet(q) THEN RemoveAt(q, CHOOSE i \in DOMAIN q : q[i] = e) ELSE q

Goto(t, at, l) == pc' = [pc EXCEPT ![t] = at] /\ loc' = [loc EXCEPT ![t] = l]
Return(t) == Goto(t, "out", Idle)

-----------------------------------------------------------------------------
(***************************************************************************)
(* Registration.  tk_def_dev holds both locks all the time.                *)
(***************************************************************************)
\* knl_searchDevCB
Registered(nm) == {d \in ToSet(dm.used) : dm.dev[d].devnm = nm}

\* Fault: a device is registered while the devices are being suspended.
DefDevUnlocked(t, nm, ddev) ==
    /\ pc[t] = "out"
    /\ Registered(nm) # {} \/ dm.freedev # <<>>
    /\ dm' = IF Registered(nm) # {}
             THEN [dm EXCEPT !.dev[CHOOSE d \in Registered(nm) : TRUE].ddev = ddev]
             ELSE LET d == Head(dm.freedev)
                  IN [dm EXCEPT !.freedev = Tail(@), !.used = Append(@, d),
                        !.dev[d] = [devnm |-> nm, ddev |-> ddev, openq |-> <<>>]]
    /\ UNCHANGED <<lockREG, pc, loc, told, suspended>>

\* A registered device gets new registration information, open or not.
DefDev(t, nm, ddev) ==
    /\ pc[t] = "out" /\ lockREG = NoObj
    /\ Registered(nm) # {} \/ dm.freedev # <<>>
    /\ dm' = IF Registered(nm) # {}
             THEN [dm EXCEPT !.dev[CHOOSE d \in Registered(nm) : TRUE].ddev = ddev]
             ELSE LET d == Head(dm.freedev)
                  IN [dm EXCEPT !.freedev = Tail(@), !.used = Append(@, d),
                        !.dev[d] = [devnm |-> nm, ddev |-> ddev, openq |-> <<>>]]
    /\ UNCHANGED <<lockREG, pc, loc, told, suspended>>

UndefDev(t, nm) ==
    /\ pc[t] = "out" /\ lockREG = NoObj
    /\ \E d \in Registered(nm) :
         /\ dm.dev[d].openq = <<>>
         /\ dm' = [dm EXCEPT !.used = QueRemove(@, d), !.freedev = Append(@, d),
                             !.dev[d] = UnusedDev]
    /\ UNCHANGED <<lockREG, pc, loc, told, suspended>>

-----------------------------------------------------------------------------
(***************************************************************************)
(* Open                                                                    *)
(***************************************************************************)
\* knl_chkopen
ChkOpen(k, d, unit) == \E o \in ToSet(k.dev[d].openq) : k.opn[o].unitno = unit

Overlaps(u, v) == u = 0 \/ v = 0 \/ u = v

\* Fault: an open of the whole device does not look at the units.
ChkOpenModeUnit(d, unit, omode) ==
    LET others == {dm.opn[o].omode : o \in {x \in ToSet(dm.dev[d].openq) :
                                        dm.opn[x].unitno \in {0, unit}}}
    IN  /\ omode \cap {"READ", "WRITE"} # {}
        /\ \A m \in others :
             /\ ~(omode \cap {"EXCL", "REXCL"} # {} /\ "READ" \in m)
             /\ ~(omode \cap {"EXCL", "WEXCL"} # {} /\ "WRITE" \in m)
             /\ ~("READ" \in omode /\ m \cap {"EXCL", "REXCL"} # {})
             /\ ~("WRITE" \in omode /\ m \cap {"EXCL", "WEXCL"} # {})

\* chkopenmode returns E_OK
ChkOpenMode(d, unit, omode) ==
    LET others == {dm.opn[o].omode : o \in {x \in ToSet(dm.dev[d].openq) :
                                        Overlaps(unit, dm.opn[x].unitno)}}
    IN  /\ omode \cap {"READ", "WRITE"} # {}
        /\ \A m \in others :
             /\ ~(omode \cap {"EXCL", "REXCL"} # {} /\ "READ" \in m)
             /\ ~(omode \cap {"EXCL", "WEXCL"} # {} /\ "WRITE" \in m)
             /\ ~("READ" \in omode /\ m \cap {"EXCL", "REXCL"} # {})
             /\ ~("WRITE" \in omode /\ m \cap {"EXCL", "WEXCL"} # {})

NewOpnCB(k, o, d, unit, omode) ==
    [k EXCEPT !.freeopn = Tail(@), !.dev[d].openq = Append(@, o), !.resq = Append(@, o),
              !.opn[o] = [UnusedOpn EXCEPT !.devcb = d, !.unitno = unit, !.omode = omode]]

\* knl_delOpnCB
DelOpnCB(k, o, free) ==
    [k EXCEPT !.dev[k.opn[o].devcb].openq = QueRemove(@, o), !.resq = QueRemove(@, o),
              !.freeopn = IF free THEN Append(@, o) ELSE @,
              !.opn[o] = UnusedOpn]

\* tk_opn_dev up to the call of openfn, which is left out when the unit is
\* open and the driver does not ask for it.  Without a semaphore for the abort
\* (E_SYS) the control block goes to the end of the free queue.
OpnDev(t, nm, unit, omode) ==
    /\ pc[t] = "out"
    /\ \E d \in Registered(nm) :
         /\ unit <= dm.dev[d].ddev.nsub
         /\ ChkOpenMode(d, unit, omode)
         /\ dm.freeopn # <<>>
         /\ LET o == Head(dm.freeopn)
                new == NewOpnCB(dm, o, d, unit, omode)
                fn == ChkOpen(dm, d, unit) => "OPENREQ" \in dm.dev[d].ddev.drvatr
            IN  \/ dm' = new /\ Goto(t, "open", [Idle EXCEPT !.o = o, !.fn = fn])
                \/ dm' = DelOpnCB(new, o, TRUE) /\ UNCHANGED <<pc, loc>>
    /\ UNCHANGED <<lockREG, told, suspended>>

\* Fault: the control block of a failed open is not freed.
OpnDevEndLeak(t, ok) ==
    /\ pc[t] = "open"
    /\ ok \/ loc[t].fn
    /\ dm' = IF ok THEN [dm EXCEPT !.opn[loc[t].o].resid = 1]
             ELSE DelOpnCB(dm, loc[t].o, FALSE)
    /\ Return(t)
    /\ UNCHANGED <<lockREG, told, suspended>>

OpnDevEnd(t, ok) ==
    /\ pc[t] = "open"
    /\ ok \/ loc[t].fn
    /\ dm' = IF ok THEN [dm EXCEPT !.opn[loc[t].o].resid = 1]
             ELSE DelOpnCB(dm, loc[t].o, TRUE)
    /\ Return(t)
    /\ UNCHANGED <<lockREG, told, suspended>>

-----------------------------------------------------------------------------
(***************************************************************************)
(* Requests and waits                                                      *)
(***************************************************************************)
\* knl_delReqCB
DelReqCB(k, r) ==
    [k EXCEPT !.opn[k.req[r].opncb].requestq = QueRemove(@, r),
              !.freereq = Append(@, r), !.req[r] = UnusedReq]

\* One call of the driver has ended: a task that aborts the requests of o
\* counts it, and is told when it was the last.
AbortCounted(k, o) ==
    IF k.opn[o].abort_tskid = NoObj THEN k
    ELSE [k EXCEPT !.opn[o].abort_cnt = @ - 1,
                   !.opn[o].sem = IF k.opn[o].abort_cnt = 1 THEN 1 ELSE @]

\* tk_rea_dev (READ) and tk_wri_dev (WRITE), knl_request up to execfn; a
\* request about an attribute of the driver needs no open mode.
Request(t, o, mode) ==
    /\ pc[t] = "out"
    /\ dm.opn[o].resid = 1
    /\ mode \subseteq dm.opn[o].omode
    /\ dm.freereq # <<>>
    /\ LET r == Head(dm.freereq)
       IN  /\ dm' = [dm EXCEPT !.freereq = Tail(@), !.opn[o].requestq = Append(@, r),
                               !.req[r] = [opncb |-> o, tskid |-> t]]
           /\ Goto(t, "exec", [Idle EXCEPT !.o = o, !.reqs = <<r>>])
    /\ UNCHANGED <<lockREG, told, suspended>>

\* Fault: the aborting task is told with the first call that ends.
RequestEndFirst(t, ok) ==
    /\ pc[t] = "exec"
    /\ LET o == loc[t].o
           r == Head(loc[t].reqs)
           k == [dm EXCEPT !.req[r].tskid = NoObj]
           n == IF k.opn[o].abort_tskid = NoObj THEN k
                ELSE [k EXCEPT !.opn[o].abort_cnt = @ - 1, !.opn[o].sem = 1]
       IN  dm' = IF ok THEN n ELSE DelReqCB(n, r)
    /\ Return(t) /\ told' = told \ {t}
    /\ UNCHANGED <<lockREG, suspended>>

\* knl_request from the return of execfn on; E_OK starts the request
RequestEnd(t, ok) ==
    /\ pc[t] = "exec"
    /\ LET o == loc[t].o
           r == Head(loc[t].reqs)
           k == AbortCounted([dm EXCEPT !.req[r].tskid = NoObj], o)
       IN  dm' = IF ok THEN k ELSE DelReqCB(k, r)
    /\ Return(t) /\ told' = told \ {t}
    /\ UNCHANGED <<lockREG, suspended>>

\* tk_wai_dev up to waitfn, for one request
WaiDev(t, o, r) ==
    /\ pc[t] = "out"
    /\ dm.opn[o].resid = 1
    /\ dm.req[r].opncb = o
    /\ dm.opn[o].waireqlst = <<>> /\ dm.req[r].tskid = NoObj
    /\ dm' = [dm EXCEPT !.req[r].tskid = t, !.opn[o].waitone = @ + 1]
    /\ Goto(t, "wait", [Idle EXCEPT !.o = o, !.reqs = <<r>>])
    /\ UNCHANGED <<lockREG, told, suspended>>

\* and for the first of all requests there are (reqid is 0)
WaiDevAny(t, o) ==
    /\ pc[t] = "out"
    /\ dm.opn[o].resid = 1
    /\ dm.opn[o].waireqlst = <<>> /\ dm.opn[o].waitone = 0
    /\ dm.opn[o].requestq # <<>>
    /\ LET all == dm.opn[o].requestq
       IN  /\ dm' = [dm EXCEPT !.opn[o].waireqlst = all,
                               !.req = [r \in ReqCB |-> IF r \in ToSet(all)
                                          THEN [@[r] EXCEPT !.tskid = t] ELSE @[r]]]
           /\ Goto(t, "wait", [Idle EXCEPT !.o = o, !.reqs = all, !.any = TRUE])
    /\ UNCHANGED <<lockREG, told, suspended>>

\* tk_wai_dev from the return of waitfn on: request number reqno of the list
\* is complete, or none is (an error, E_TMOUT or E_ABORT).  The others stay.
WaitOver(t) ==
    LET o == loc[t].o
        k == IF loc[t].any THEN [dm EXCEPT !.opn[o].waireqlst = <<>>]
             ELSE [dm EXCEPT !.opn[o].waitone = @ - 1]
    IN  [k EXCEPT !.req = [r \in ReqCB |-> IF r \in ToSet(loc[t].reqs)
                             THEN [@[r] EXCEPT !.tskid = NoObj] ELSE @[r]]]

\* Fault: the aborting task is not told of a wait that is over.
WaiDevEndQuiet(t, reqno) ==
    /\ pc[t] = "wait"
    /\ dm' = IF reqno \in 1..Len(loc[t].reqs) THEN DelReqCB(WaitOver(t), loc[t].reqs[reqno])
             ELSE WaitOver(t)
    /\ Return(t) /\ told' = told \ {t}
    /\ UNCHANGED <<lockREG, suspended>>

WaiDevEnd(t, reqno) ==
    /\ pc[t] = "wait"
    /\ LET k == AbortCounted(WaitOver(t), loc[t].o)
       IN  dm' = IF reqno \in 1..Len(loc[t].reqs) THEN DelReqCB(k, loc[t].reqs[reqno])
                 ELSE k
    /\ Return(t) /\ told' = told \ {t}
    /\ UNCHANGED <<lockREG, suspended>>

-----------------------------------------------------------------------------
(***************************************************************************)
(* Close.  The task aborts the calls of the driver, waits until the last   *)
(* of them has ended, waits for the requests that are left, and frees the  *)
(* open control block.                                                     *)
(***************************************************************************)
ClsDev(t, o) ==
    /\ pc[t] = "out"
    /\ dm.opn[o].resid = 1
    /\ dm' = [dm EXCEPT !.opn[o].resid = 0]
    /\ Goto(t, "abort", [Idle EXCEPT !.o = o])
    /\ UNCHANGED <<lockREG, told, suspended>>

\* abort_allrequest: a wait for any request is one call of the driver; else
\* there is one for each request that a task executes or waits for.
AbortAllRequest(t) ==
    /\ pc[t] = "abort"
    /\ LET o == loc[t].o
           list == dm.opn[o].waireqlst
           reqs == IF list # <<>> THEN {Head(list)}
                   ELSE {r \in ToSet(dm.opn[o].requestq) : dm.req[r].tskid # NoObj}
       IN  /\ dm' = [dm EXCEPT !.opn[o].abort_tskid = t,
                               !.opn[o].abort_cnt = Cardinality(reqs)]
           /\ told' = told \cup {dm.req[r].tskid : r \in reqs}
           /\ Goto(t, "aborted", loc[t])
    /\ UNCHANGED <<lockREG, suspended>>

\* The count is read without the lock.
AbortTest(t) ==
    /\ pc[t] = "aborted"
    /\ Goto(t, IF dm.opn[loc[t].o].abort_cnt > 0 THEN "abtwai" ELSE "abtend", loc[t])
    /\ UNCHANGED <<dm, lockREG, told, suspended>>

AbortWait(t) ==
    /\ pc[t] = "abtwai"
    /\ dm.opn[loc[t].o].sem > 0
    /\ dm' = [dm EXCEPT !.opn[loc[t].o].sem = @ - 1]
    /\ Goto(t, "abtend", loc[t])
    /\ UNCHANGED <<lockREG, told, suspended>>

AbortEnd(t) ==
    /\ pc[t] = "abtend"
    /\ dm' = [dm EXCEPT !.opn[loc[t].o].abort_tskid = NoObj]
    /\ Goto(t, "drain", loc[t])
    /\ UNCHANGED <<lockREG, told, suspended>>

\* The loop over the remaining requests: the one that waitfn has waited for
\* is freed, and the next is waited for.
AbortRest(t) ==
    /\ pc[t] = "drain"
    /\ dm' = IF loc[t].reqs = <<>> THEN dm ELSE DelReqCB(dm, Head(loc[t].reqs))
    /\ LET left == dm'.opn[loc[t].o].requestq
       IN  IF left = <<>> THEN Goto(t, "close", [loc[t] EXCEPT !.reqs = <<>>])
           ELSE Goto(t, "drain", [loc[t] EXCEPT !.reqs = <<Head(left)>>])
    /\ UNCHANGED <<lockREG, told, suspended>>

\* knl_close_device up to closefn, which is left out when the unit is still
\* open and the driver does not ask for it
CloseDevice(t) ==
    /\ pc[t] = "close"
    /\ LET o == loc[t].o
           d == dm.opn[o].devcb
           k == DelOpnCB(dm, o, FALSE)
       IN  /\ dm' = k
           /\ Goto(t, "closefn", [loc[t] EXCEPT !.fn =
                  ChkOpen(k, d, dm.opn[o].unitno) => "OPENREQ" \in dm.dev[d].ddev.drvatr])
    /\ UNCHANGED <<lockREG, told, suspended>>

\* and after it; tk_cls_dev ends, knl_devmgr_cleanup closes the next device
CloseEnd(t) ==
    /\ pc[t] = "closefn"
    /\ LET k == [dm EXCEPT !.freeopn = Append(@, loc[t].o)]
       IN  IF loc[t].all /\ dm.resq # <<>>
           THEN LET o == Head(dm.resq)
                IN  /\ dm' = [k EXCEPT !.opn[o].resid = 0]
                    /\ Goto(t, "abort", [Idle EXCEPT !.o = o, !.all = TRUE])
           ELSE dm' = k /\ Return(t)
    /\ UNCHANGED <<lockREG, told, suspended>>

\* knl_devmgr_cleanup at shutdown; Bound: no other task is in the device
\* manager by then.
DevmgrCleanup(t) ==
    /\ \A u \in Tsk : pc[u] = "out"
    /\ LET k == [dm EXCEPT !.DisSusCnt = 0]
       IN  IF dm.resq = <<>> THEN dm' = k /\ UNCHANGED <<pc, loc>>
           ELSE LET o == Head(dm.resq)
                IN  /\ dm' = [k EXCEPT !.opn[o].resid = 0]
                    /\ Goto(t, "abort", [Idle EXCEPT !.o = o, !.all = TRUE])
    /\ UNCHANGED <<lockREG, told, suspended>>

-----------------------------------------------------------------------------
(***************************************************************************)
(* tk_sus_dev.  knl_resource_control_block.dissus counts what knl_DisSusCnt *)
(* counts.                                                                 *)
(***************************************************************************)
DisSus(t) ==
    /\ pc[t] = "out"
    /\ dm.DisSusCnt < MaxDisSus
    /\ dm' = [dm EXCEPT !.DisSusCnt = @ + 1]
    /\ UNCHANGED <<lockREG, pc, loc, told, suspended>>

EnaSus(t) ==
    /\ pc[t] = "out"
    /\ dm.DisSusCnt > 0
    /\ dm' = [dm EXCEPT !.DisSusCnt = @ - 1]
    /\ UNCHANGED <<lockREG, pc, loc, told, suspended>>

SusDev(t, force) ==
    /\ pc[t] = "out"
    /\ dm.DisSusCnt = 0 \/ force
    /\ Goto(t, "sus", Idle)
    /\ UNCHANGED <<dm, lockREG, told, suspended>>

\* The four loops of do_suspend over the devices: the disks are suspended
\* last and resumed first.
IsForDisks(pass) == pass \in {2, 3}

SusLock(t) ==
    /\ pc[t] = "sus" /\ lockREG = NoObj
    /\ lockREG' = t
    /\ Goto(t, "susev", [Idle EXCEPT !.pass = 1, !.todo = dm.used])
    /\ UNCHANGED <<dm, told, suspended>>

\* sendevt_alldevice calls the eventfn of the next device, or passes it over.
SusEvent(t) ==
    /\ pc[t] = "susev" /\ loc[t].todo # <<>>
    /\ LET d == Head(loc[t].todo)
       IN  suspended' = IF dm.dev[d].ddev.disk # IsForDisks(loc[t].pass) THEN suspended
                        ELSE IF loc[t].pass \in {1, 2} THEN suspended \cup {d}
                        ELSE suspended \ {d}
    /\ Goto(t, "susev", [loc[t] EXCEPT !.todo = Tail(@)])
    /\ UNCHANGED <<dm, lockREG, told>>

SusNext(t) ==
    /\ pc[t] = "susev" /\ loc[t].todo = <<>>
    /\ IF loc[t].pass < 4
       THEN /\ Goto(t, "susev", [loc[t] EXCEPT !.pass = @ + 1, !.todo = dm.used])
            /\ UNCHANGED lockREG
       ELSE lockREG' = NoObj /\ Return(t)
    /\ UNCHANGED <<dm, told, suspended>>

-----------------------------------------------------------------------------
\* A step of task t in the device manager that needs no driver to answer first.
Step(t) ==
    \/ \E ok \in BOOLEAN : OpnDevEnd(t, ok)
    \/ AbortAllRequest(t) \/ AbortTest(t) \/ AbortWait(t) \/ AbortEnd(t)
    \/ AbortRest(t) \/ CloseDevice(t) \/ CloseEnd(t)
    \/ SusLock(t) \/ SusEvent(t) \/ SusNext(t)

\* The driver answers.
Answer(t) ==
    \/ \E ok \in BOOLEAN : RequestEnd(t, ok)
    \/ \E reqno \in 0..Cardinality(ReqCB) : reqno <= Len(loc[t].reqs) /\ WaiDevEnd(t, reqno)

ManagerCall(t) ==
    \/ \E nm \in Name :
         \/ \E ddev \in DDev[nm] : DefDev(t, nm, ddev)
         \/ UndefDev(t, nm)
         \/ \E unit \in Units, omode \in OpenModes : OpnDev(t, nm, unit, omode)
    \/ \E o \in OpnCB : ClsDev(t, o)
    \/ DisSus(t) \/ EnaSus(t) \/ DevmgrCleanup(t)
    \/ \E force \in BOOLEAN : SusDev(t, force)

UserCall(t) ==
    \E o \in OpnCB :
        \/ \E mode \in {{}, {"READ"}, {"WRITE"}} : Request(t, o, mode)
        \/ \E r \in ReqCB : WaiDev(t, o, r)
        \/ WaiDevAny(t, o)

Next ==
    \/ \E t \in Managers : ManagerCall(t) \/ Step(t)
    \/ \E t \in Users : UserCall(t) \/ Answer(t)

Spec == Init /\ [][Next]_vars

\* Fairness: every task in the device manager goes on in the end, that is, no
\* task keeps the processor forever and openfn, closefn and eventfn return;
\* execfn and waitfn return when abortfn has named the task.
Fairness == \A t \in Tsk : WF_vars(Step(t) \/ (t \in told /\ Answer(t)))

FairSpec == Spec /\ Fairness

-----------------------------------------------------------------------------
(***************************************************************************)
(* Assumptions on the callers, and properties                              *)
(***************************************************************************)
\* No task waits for any request of an open device while another task executes
\* one of them: there AbortCompletes fails.
NoOverlap ==
    \A t, u \in Tsk : pc[t] = "wait" /\ loc[t].any /\ pc[u] = "exec" =>
        loc[t].o # loc[u].o

\* No other task is in the device manager at shutdown.
AloneAtShutdown ==
    \A t, u \in Tsk : loc[t].all /\ u # t => pc[u] = "out"

\* Type correctness: of the tables and of the local variables of the tasks.
DeviceTypeOK ==
    /\ lockREG \in Tsk \cup {NoObj} /\ told \subseteq Tsk /\ suspended \subseteq DevCB
    /\ \A o \in OpnCB :
         /\ dm.opn[o].sem \in {0, 1} /\ dm.opn[o].resid \in {0, 1}
         /\ dm.opn[o].waitone \in Nat /\ dm.opn[o].abort_cnt \in Nat
         /\ dm.opn[o].abort_tskid \in Tsk \cup {NoObj}
    /\ \A r \in ReqCB : dm.req[r].tskid \in Tsk \cup {NoObj}
    /\ \A t \in Tsk : loc[t].o \in OpnCB \cup {NoObj} /\ loc[t].pass \in 0..4
    /\ dm.DisSusCnt \in 0..MaxDisSus

Once(q) == IsInjective(q)
Closing(o) == {t \in Tsk : pc[t] = "closefn" /\ loc[t].o = o}

\* Every control block is in exactly one place: a DevCB is registered under a
\* name of its own or free; an OpnCB is free, or open on a registered device,
\* or with the one task that calls closefn; a ReqCB is free or a request of
\* an open device.  None is lost when a step fails (OpnCB, ReqCB of
\* device.h), whatever the tasks do at the same time.
DeviceBlocksExact ==
    /\ DeviceTypeOK
    /\ Once(dm.used \o dm.freedev) /\ ToSet(dm.used \o dm.freedev) = DevCB
    /\ \A nm \in Name : \A d, e \in Registered(nm) : d = e
    /\ Once(dm.freeopn) /\ Once(dm.resq) /\ Once(dm.freereq)
    /\ \A d \in DevCB : Once(dm.dev[d].openq)
    /\ \A o \in OpnCB :
         /\ Cardinality(Closing(o)) + Cardinality({d \in DevCB : o \in ToSet(dm.dev[d].openq)})
              + (IF o \in ToSet(dm.freeopn) THEN 1 ELSE 0) = 1
         /\ \A d \in DevCB : o \in ToSet(dm.dev[d].openq) =>
                d \in ToSet(dm.used) /\ dm.opn[o].devcb = d /\ o \in ToSet(dm.resq)
         /\ ToSet(dm.opn[o].requestq) = {r \in ReqCB : dm.req[r].opncb = o}
         /\ Once(dm.opn[o].requestq)
         /\ dm.opn[o].devcb = NoObj => dm.opn[o] = UnusedOpn
    /\ \A r \in ReqCB : r \in ToSet(dm.freereq) <=> dm.req[r].opncb = NoObj

\* Of two opens that share a unit, one for exclusive use leaves the other
\* nothing of what it excludes, even while one is still being opened or
\* closed (chkopenmode sees every open on the queue).
OpenModesExclusive ==
    \A d \in DevCB : \A o, p \in ToSet(dm.dev[d].openq) :
        LET a == dm.opn[o]
            b == dm.opn[p]
        IN  o # p /\ Overlaps(a.unitno, b.unitno) =>
              /\ a.omode \cap {"EXCL", "REXCL"} # {} => "READ" \notin b.omode
              /\ a.omode \cap {"EXCL", "WEXCL"} # {} => "WRITE" \notin b.omode

InDriver(t) == pc[t] \in {"exec", "wait"}

\* A closing task goes on to free the requests only when no other task is in
\* execfn or waitfn for the device any more (deviceio.c:366, "Wait for
\* completion of abort request processing").
AbortCompletes ==
    \A t, u \in Tsk : pc[t] \in {"abtend", "drain", "close"} /\ InDriver(u) =>
        loc[t].o # loc[u].o

\* While a task is in execfn or waitfn, its open control block stays open and
\* its requests stay its own, whatever other tasks close or complete
\* meanwhile.
NoUseAfterClose ==
    /\ AbortCompletes
    /\ \A t \in Tsk : InDriver(t) =>
         /\ loc[t].o \in ToSet(dm.resq)
         /\ \A r \in ToSet(loc[t].reqs) :
              dm.req[r].opncb = loc[t].o /\ dm.req[r].tskid # NoObj

\* A close always comes to its end: the signal for the last aborted call is
\* neither lost nor given for a call that was not counted.
CloseEnds ==
    \A t \in Tsk : pc[t] = "abort" ~> pc[t] = "out"

\* Suspension reaches every registered device and is taken back on every one,
\* the disks last and first: no device comes or goes in between (do_suspend
\* holds the registration lock but not the device lock).
SuspendedTogether ==
    /\ suspended \subseteq ToSet(dm.used)
    /\ lockREG = NoObj => suspended = {}
    /\ (\E d \in suspended : dm.dev[d].ddev.disk) =>
         \A d \in ToSet(dm.used) : dm.dev[d].ddev.disk \/ d \in suspended
    /\ \A t \in Tsk : pc[t] = "susev" /\ loc[t].pass = 2 /\ loc[t].todo = <<>> =>
         suspended = ToSet(dm.used)
=============================================================================
