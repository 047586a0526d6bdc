# A TLA+ model of the micro T-Kernel 3

This directory holds TLA+ modules, TLC configurations and machine-checked proofs for the
kernel in `src/kernel/tkernel` and the ARMv7-M port it runs on in the default build
(`nucleo_h723`).  The code is the reference: every definition is translated from it, and
`PROJECT.json` maps each definition to the lines it stands for.

## The system

The kernel is one shared data structure, changed by *system calls*.  A call's body is a
critical section (interrupts masked), so calls are atomic with respect to each other; what
makes the system hard is everything between them: interrupt handlers may make calls while a
task runs, while a dispatch is pending, or while the dispatcher idles.

| component | state | operations | hard because of | correct when |
|---|---|---|---|---|
| ready queue and scheduling (`ready_queue.h`, `task.c`) | one ring per priority, bitmap, `top_priority`, `knl_schedtsk` | insert, delete, rotate, change priority, select | several caches of one fact, maintained incrementally | the caches describe the rings; the selected task is the first of the highest priority |
| task management (`task_manage.c`) | TCBs, free ring | create, delete, start, exit, terminate, change priority, rotate, release wait | termination from any state | a TCB is linked exactly where its state says |
| task synchronization (`task_sync.c`) | `wupcnt`, `suscnt` | sleep, wake up, delay, suspend, resume | wakeup, timeout and suspension race | no wakeup is lost, suspension lasts exactly as long as requests |
| waiting (`wait.c`, `wait.h`) | `wspec`, `wid`, `wercd`, timer event | make wait, release, cancel, delete | timeout against release | no timer event outlives its wait |
| dispatcher (`dispatch.S`, `cpu_cntl.c`, `cpu_status.h`) | `knl_ctxtsk`, `knl_dispatch_disabled`, PendSV, BASEPRI | request, force, switch, idle | requests suppressed while masked | the running task is READY; a task that should run is dispatched in the end |
| mutexes (`mutex.c`) | owner, list per task, wait queues, ceilings | lock, unlock, create, delete, three hooks | chains of inheritance, termination of owners, deadlocks | priorities are exactly what the held mutexes impose |
| timer and time calls (`timer.c`, `time_calls.c`) | timer queue, clock, cyclic and alarm handlers | tick, insert, delete | 32-bit wrap-around | events fire in order, never early |
| semaphores (`semaphore.c`) | a count, its maximum, a wait queue | create, delete, signal, wait, two hooks | requests of several units: who may go changes when the *first* of a queue leaves or moves | no task waits for units that are there; nobody is overtaken |
| kernel lock (`klock.c`) and fixed-size pools (`mempfix.c`) | lock flag and queue, `klocktsk`, free list, `frbcnt` | lock, unlock, create, delete, get, release | calls are *not* atomic: interrupts stay enabled under the lock, and its queue shares the task's only link with the ready rings | exclusion; no block lost or given twice; nobody waits for a free block |
| fast locks (`lib/libtk/fastlock.c`) | a counter and a semaphore | lock, unlock | the task is preempted between the counter and the semaphore | exclusion, no lost unlock |
| event flags (`eventflag.c`) | a pattern, a wait queue | set, clear, wait for all or any of some bits | one set releases several tasks and clears bits in between | nobody waits for a pattern that is there; an event that is cleared is had once |
| mailboxes (`mailbox.c`) | a list in the messages themselves, a wait queue | send, receive | `mq_tail` is left stale, order by priority | messages are received once and in order |
| message buffers (`messagebuf.c`) | a ring buffer of bytes, two wait queues | send, receive | messages wrap; room for a waiting sender appears in many places | the buffer holds exactly the messages sent, in order |
| variable-size pools and allocator (`mempool.c`, `memory.c`) | the list of areas, the FreeQue, a wait queue | allocate, free | splitting and merging; two lists of the same areas | areas tile the memory, free ones are merged and found by size |
| rendezvous ports (`rendezvous.c`) | two wait queues, a number for each rendezvous | call, accept, forward, reply | a number outlives its rendezvous; a call changes ports and keeps its buffer | only the number of a rendezvous that lasts answers it; replies fit |
| fast multi-locks (`lib/libtk/fastmlock.c`) | a word of locks, a counter, an event flag | lock, unlock | retries against lost wakeups | exclusion per bit, no lost wakeup |
| device management (`device.c`, `deviceio.c`) | device, open and request control blocks, locks | register, open, request, wait, close, suspend | drivers are called outside of the lock; a close aborts what others are in the middle of | blocks are in one place; no request outlives its device; closing ends |
| start-up, object names, power saving, libtm | tables | initialise, print | - | - |

Interaction is by call and shared state: objects call `knl_gcb_make_wait` and
`knl_wait_release_*`; those change the ready queue and `knl_schedtsk`;
`END_CRITICAL_SECTION` compares it with `knl_ctxtsk` and pends the dispatcher; the timer
calls back into the waits; priority changes and releases call the hooks in a wait's `WSPEC`.

`PROJECT.json` lists every component with its status, and under `hazards` what is hard to
test, each at its line.

## The modules

* `TKernel` - the data of the kernel as a record and the internal functions
  (`knl_make_ready`, `knl_wait_release`, `QueRemove`, ...) as operators from kernel state to
  kernel state, composed in the order the C functions call each other.  A ring is a sequence
  from `next` to `prev`; `que[h]` is the ring of head `h`.
* `Task` - a state machine: task management, task synchronization, the timer events of waits,
  dispatch and interrupt control, and the dispatcher.  `kn` is the kernel record; `ctxtsk`,
  `dispatch_disabled`, `pendsv` and `basepri` are the variables and registers of their names.
* `Precedence` - the abstract specification of scheduling: one line of tasks ordered by
  priority and by the time of joining.  The line is a set of tasks with the relation `ahead` between
  them, and each step lets one task enter, leave, move to the end of a priority or be rotated.
  `TaskPrecedence` is the refinement mapping from `Task`.
* `Mutex` - the mutexes on the same kernel, with the task calls that touch them (termination,
  priority change, release of a wait) extended as in the code.
* `WaitObject` - what the objects with a wait queue share: a wait for object `wid[t]` with the
  information `winfo[t]`, the general control block operations (`knl_gcb_make_wait`,
  `knl_gcb_change_priority`, `knl_gcb_top_of_wait_queue`), and the task calls that reach into a
  wait through the hooks of its `WSPEC`, which are constants that each system of
  objects gives its own hooks.
* `Semaphore`, `EventFlag`, `Mailbox` - the objects for synchronization, and `SyncObjects`, one
  kernel with all three: its `SyncChgPri` and `SyncRelWai` choose the hook as `wspec` does.
* `MessageBuffer`, `MemoryPool`, `Rendezvous` - the objects that pass data and memory, and `CommObjects`,
  one kernel with all three.  `Heap` is the allocator under `MemoryPool`: a heap is the sequence of its
  areas in the order of their addresses and the FreeQue as the sequence of its lists of equal sizes.
* `FixedPool` - fixed-size pools under the kernel lock.  A call is a sequence of steps, and
  `kn.call[t]` is how far task `t` has come in it: `"lock"` (in `knl_LockOBJ`), `"body"`,
  `"put"` (between the two halves of `tk_rel_mpf`), `"unlock"`.  Handlers make their calls, and
  other tasks run, between any two steps.
* `LockTasks`, `FastLock`, `FastMLock` - the locks of the library, which runs in the calling tasks, on
  `Semaphore` and `EventFlag`: `pc[t]` is the place of a task in `Lock` and `Unlock`, or in `MLockTmo` and
  `MUnlock`, and `cnt`, `flg` and `wai` are the words of the lock.
* `Device` - the device management.  A step is the code from `LockDM` to `UnlockDM`; `pc[t]` says
  which driver function a task is in or where between two such steps.  The driver is external.
* `Timer` - the timer event queue with its wrapping times, and the cyclic and alarm handlers it
  drives.  It refines *when* the timeouts of `Task` fire.  The tick is a loop of steps: in a
  cyclic or alarm handler (`at = "handler"`) interrupts are enabled and calls are made, otherwise
  (`"loop"`, and `"wait"` in the callback of a timeout that may release other tasks) they are not.  The auxiliary variable `due` counts in integers how far away the
  promised time of each event is; no guard reads it.
* `TKernelProofs`, `TaskProofs` - the proofs about `TKernel`, `Task` and the refinement of `Precedence`;
  `PoolProofs` - those about `FixedPool`; `SyncProofs` - those about `WaitObject` and
  `SyncObjects`; `LockProofs` - those about the locks; `DeviceProofs` - those about `Device`; `SequenceFacts`, `TimerProofs` - those about `Timer`.
* `MCTask`, `MCMutex`, `MCFixedPool`, `MCSyncObjects`, `MCFastLocks`, `MCCommObjects`, `MCDevice`,
  `MCTimer` - instances for TLC.

An action is a whole handler (in `FixedPool`, the locks, `Device` and `Timer` the part of one between two points
where interrupts are enabled or, in `Device`, where the lock is given up).  Callers are `"task"`, the task in execution, and `"hdr"`, an
interrupt handler; `CHECK_NONSELF`, `CHECK_DISPATCH`, ... are guards.  A call that returns an
error changes nothing and is no step.  Between the return from `END_CRITICAL_SECTION` with a
dispatch requested and the switch, `DispatchEntry` and `DispatchSwitch` are separate steps, so
that handlers may come between, as they may while `dispatch.S` idles with interrupts enabled.

Operators marked *Fault* are deliberately wrong variants of the definition that follows them.
Putting one in its place must break the property `PROJECT.json` pairs it with: it shows that the
property can fail.

### Abstractions

* Object IDs and pointers are identified: a TCB is its number.  Names, stacks, registers,
  execution times and debugger calls are left out.
* Except in `Timer`, a timeout is `POL`, `FEVR` or `TIME`, and a timer event may fire at any time
  after it is inserted.  A tick at which several events are due is several steps; each is followed by the
  check for a dispatch, which pends the same exception.
* Fields the code leaves stale when a task stops waiting (`wspec`, `wid`, `wercd`) are cleared
  where they become dead.
* `tk_cre_tsk`, `tk_del_tsk`, `tk_ter_tsk` and the mutex calls are made by tasks only; the calls the
  documentation allows in handlers are made by both.
* `IntMax` stands for `INT_MAX`: the counters are exercised at their limit.
* A free mutex is any free one; mutex IDs are interchangeable.  So are the other objects.
* A block of a pool is its number; the checks of block addresses and the allocation of the
  pool's memory are left out.  The application gives back only blocks it was given, and neither
  deletes a pool while it gives back a block of it nor the other way round: the code reads
  the control block of the pool that holds the block, which the deletion frees.
* In `FixedPool` and the locks the calls that disturb a task in the middle of another call
  (suspension, change of priority, release, start) are made by handlers; termination, which
  handlers may not do, by another task.
* `Timer` knows of a waiting task its timer event only: `TimerInsert` is the beginning of a wait,
  `TimerDelete` its end before the timeout, and a timeout may release other tasks (the hook of
  its wait).  A handler called at once (`cycphs` or `almtim` of 0) makes its calls after the call
  that called it, with nothing in between.  Only the lower word of the clock is there, with
  4 bits for 32; `tk_set_utc` and its like change an offset that no event depends on and are left
  out.
* The locks exist before the tasks use them; `DeleteLock` and `DeleteMLock` are left out.  `Lock` ignores
  the errors of `tk_wai_sem`, so no task is released from its wait in it by `tk_rel_wai`; waits for a
  multi-lock are released and time out.  A task that holds a lock is not terminated (the lock would
  stay taken); one on its way into it may be.  A task that `tk_set_flg` has woken up is not
  terminated before it tests the bit again: the wakeup would be lost with it.
* A pattern of an event flag is a set of bits, a message a name; a mailbox is the chain of links the
  messages hold, with `mq_tail` as stale as the code leaves it.
* A message buffer is modelled in cells of the size of a header, the unit in which everything in it
  is aligned; `sent` is a history variable.  The memory of the buffer is not.
* A memory pool starts at address 0 and is known by the sizes and positions of its areas.  The internal
  allocator (`knl_Imalloc`) has the same areas and FreeQue and is not modelled a second time.
* Of a rendezvous the sizes of messages are there, not their contents.  `known[t]` are the numbers `t`
  was given, which it may use at any later time; a number dies when its caller's 16-bit counter
  (`RnoCount`) returns to it.  The default configuration leaves the calls out (`USE_LEGACY_API`).
* In `Device`, an interrupt handler makes no calls, and tasks either manage devices (`Managers`) or
  make requests (`Users`); one task may be both.  `openfn`, `execfn` and `waitfn` return any result at any
  time.  Tasks keep device descriptors and use them while others close: `knl_check_devdesc` is the
  guard on `resid`.  `tk_evt_dev` only calls the driver,
  `TD_EJECT` is passed on to it; both are left out.

## The runs

| run | bounds | shows |
|---|---|---|
| `task_calls` | 2 tasks at 2 of 3 priorities (`Gap`), counts up to 1, fairness | every call in every order by tasks and handlers: the safety of `Task`, that it implements `Precedence`, that dispatches happen and timed waits end |
| `mutex_calls` | 3 tasks; 1 mutex of every kind at 2 priorities, or 2 mutexes in chains at 3; `NoDeadlock` | ownership, wait queues, ceilings and inherited priorities, also through an owner that waits itself |
| `mutex_delete` | 2 mutexes, 3 tasks in a deadlock | **violation**: `tk_del_mtx` leaves a priority no mutex imposes |
| `mutex_terminate` | the same | **violation**: `tk_ter_tsk` leaves a DORMANT task in a wait queue |
| `pool_calls` | 2 tasks, 2 pools of 1 block, 2 priorities, from the boot on, `Bounds` | exclusion by the kernel lock, blocks, queues and the selected task, with handlers between every two steps |
| `sync_objects` | 3 tasks, 2 priorities; a semaphore of up to 2 units, an event flag of 2 bits or a mailbox with 3 messages, of every kind | no satisfied waiter, queues, units and messages in order, events had once |
| `fast_locks` | 3 tasks, 2 priorities; a fast lock with `cnt` up to 4, or a multi-lock of 2 locks with `wai` up to 3 | tasks are created, started and terminated on the way; exclusion, counters that count, no lost unlock, a free lock stays open |
| `comm_objects` | 3 tasks, 2 priorities; a message buffer of 0 or 16 bytes, a pool of 64 bytes, or 2 ports | no satisfied waiter, queues, service in order, buffer, heap, numbers and sizes of rendezvous |
| `device` | 3 tasks; 2 device, open and request control blocks, 2 drivers, fairness | control blocks, open modes, requests and their device, suspension, the end of every close |
| `device_abort` | the same with a wait for any request while another task executes one | **violation**: the close goes on while a task is in the driver |
| `timer` | 2 tasks, 1 cyclic handler, 1 alarm, words of 4 bits, ticks of 2, `RestartedInTime` | events in order, neither early nor late, phases kept |
| `timer_long` | the same, all timeouts that are accepted | **violation**: the longest timeouts block the queue |

In `task_calls` the two tasks are above, equal to and below each other, and `Gap` leaves the middle priority
empty, so that the search of the bitmap always has a gap to pass.  A third task matters where
an owner between two others inherits and waits (`mutex_calls`), and where one leaves a queue in front of
another.  `VIEW WithoutErcd` hides the error codes, which no guard reads.  `NoDeadlock` cuts
states in which tasks wait for each other in a cycle through mutexes: the two violations show what
happens beyond it.  The mutexes are interchangeable in both initial states and all actions.

Objects of different kinds meet only in the tasks, so `sync_objects` and `comm_objects` have
one kind at a time (`OneObject`, `OneKind`), with the calls on all of them in one next-state relation.  A wait
queue needs three tasks: one that signals, one in front that asks for more and one behind it that
asks for less; at most one task is suspended or moved (`Bounds`), which is the case of every hook.
`TimedWaits` leaves out waits without a timeout where all that happens to them happens to others too.
`comm_objects` makes a dispatch that is due before the next call (`DispatchFirst`; `task_calls` has them in any
order).  16 bytes hold either message or two of the smaller one, and every position is at some time
the head; 64 bytes hold three of the smaller blocks or one of each.  The two ports differ in their sizes in
both directions, so that every comparison of a forwarded call's sizes is made; one number of an
ended rendezvous is kept.

In `pool_calls` two tasks suffice for a holder and a
task in the lock's queue; the second pool is there so that a task may hold one lock while the
other is taken, and `Bounds` lets one task at a time do little more with it than create, lock
and delete it; one block makes every request after the first a wait.  `CntMax` and `WaiMax` bound
how often tasks are terminated on the way into a lock, since each of them leaves the counter one
higher for ever.

In `device` one task manages, one makes requests and one does both.  `OneOpenDevice` lets
devices be opened twice, in every mode and on every unit, but only one device at a time, because devices
meet only in the queues of free blocks; while one is open nobody suspends, which reads no open block.  A disk,
of which the driver wants to hear of every open and close, is opened for reading, the serial
device in all modes.  `AloneAtShutdown`: the cleanup at shutdown closes what the other tasks left
open and meets none of them in the device management.  `NoOverlap` keeps waits for any request
apart from requests in `execfn`; `device_abort` shows what happens without it.

In `timer` all 8 values the clock can have are visited and left again and again, so the
wrap comes between any two events and any event and the clock; timeouts and intervals are below, at and
above multiples of the tick and reach the limit `2^31 - TIMER_PERIOD` up to which the order of
the queue is sound (`ShortIntervals`; `timer_long` goes beyond it).  `RestartedInTime` leaves out the states
in which a handler with `TA_PHS` has been stopped for more than half of the words: its old
time then looks like a time to come.
`LiveTimes` hides the times of events that are in no queue.

Fairness: the exceptions are taken while they are pending and enabled (weak fairness of the
dispatcher's steps); the timer interrupts for ever and every event is due some day (strong
fairness of the tick and of each timer event, because interrupts are masked now and then); and a
task that disables dispatching or interrupts enables them again, without which the code itself
promises nothing.  No fairness of tasks or of other handlers is assumed there.  In `device` a
task in the device management goes on in the end (no task keeps the processor for ever, and `openfn`,
`closefn` and `eventfn` return), and `execfn` and `waitfn` return once `abortfn` has named their task, which is
what it is for; without an abort they may stay for ever, and no task has to make any call.

## The proofs

No theorem assumes more of the constants than the `ASSUME`s of the modules, apart from the two assumptions
about the timer and those about the hooks of waits (`SyncHooks`, `LockHooks`) named below.

**Tasks** (`TKernelProofs`, `TaskProofs`): for any number of tasks, priorities and any `IntMax`, given only
that there is a TCB and a priority and that the ring heads are distinct.  `TKernelProofs` has the lemmas about
rings (removing, inserting, rotating) and about each operator: `Linked(que, r)` says that task
`t` is in the rings `r[t]` and nowhere twice, `Consistent(k, r)` adds the bitmap, `top_priority` and
the selected task, and each lemma says how an operator changes `r`.

The safety invariants are not inductive one by one: `SchedIsTop` after a deletion needs the
bitmap, that needs the rings, and those need the states; `NoStaleTimer` is what makes a
timeout find a waiting task; `RunningIsReady` needs to know that no task executes while
dispatching is disabled implicitly.  `IInv` in `TaskProofs` is their conjunction in the form
`Good` (rings, ready queue, selection) `/\ Counts` (counts, wait factors, timers) `/\ Control
/\ RunningIsReady`.  It is shown to hold initially (`InitInvariant`) and to be kept by every action
(one lemma each, most of them through `CallPreserves`, which deals with the dispatch request
once for all calls).  Theorems: `StateCorrect` and `RightTaskCorrect` for the two invariants
of the run that are conjunctions, from `TypeCorrect`, `RingsCorrect`, `ReadyQueueCorrect`, `SuspendCorrect`,
`SchedulingCorrect` and `RunningCorrect` for their parts; `WakeupCorrect` and `TimerCorrect` for the others.

**Scheduling** (`TaskProofs`): `PrecedenceRefined` says that `Task` implements `Precedence`.  The
mapping takes the tasks in the ready rings for the line, and for `ahead` the pairs of which the
first stands in a ring of higher priority or in front of the other in the same ring.  A removal, an insertion at
the end and a rotation are followed through this relation once, for rings (`UnlinkOrder`,
`AppendOrder`, `LeftLine`, `JoinedLine`), and `Good` gives that the selected task is the one ahead of all others
(`SelectedIsFirst`).  Every operator of `TKernel` then has one of five effects on the line: none (`Unchanged`,
`Idles`), one task enters (`Enters`), leaves (`Leaves`), moves (`Moves`) or is rotated (`Rotates`), which are
the actions of `Precedence`; one lemma for each operator says which (`...Effect`), one for each
action applies it (`...Kept`).  The same lemmas show what becomes of states and error codes, hence
`TimeoutsHonest`: `E_TMOUT` goes only to a task whose timer event was in the queue.

**Fixed-size pools** (`PoolProofs`): for any number of tasks, priorities, pools and
blocks.  Here `Consistent` does not hold: the kernel lock takes READY tasks out of the ready rings, and a task
that is granted a lock goes to the head of its ring, so that the selected task need not be the first of the
highest priority.  `TKernelProofs` has the lemmas about the operators a second time, for a record with more
fields and with what does hold (`Steady`: links, bitmap and `top_priority`, and a selected task that is
in its ready ring), and says which fields each operator leaves alone (`Only`).  `PoolInv` adds the parts below;
none of them is inductive without the others.
- `LockInv`: a locked pool has one holder, which is in a call on it; who queues for a lock is
  READY and the lock is held; a task in a call is READY or suspended.  That a waiter is READY is what a grant
  relies on when it links the task into its ready ring.
- `WaitInv`: a waiting task waits for a pool that exists and has no block; nobody waits for a pool
  between the two halves of `tk_rel_mpf`.  A suspended waiter, and one whose priority is changed, is
  in the queue of `wid`, which is where the hooks look for it.
- `Sorted`: the queues of pools with `TA_TPRI` are ordered by priority, also after `tk_chg_pri`.
- `BlockInv`: the free list, the unused part of the memory, the blocks given out and those that calls are giving
  back partition the blocks, and `frbcnt` counts the first two.
- `CallInv`: who gives back a block holds it until the pool has it; creation is exclusive.
`PoolInvariance` is the invariant, and `PoolQueuesCorrect`, `LockExclusion`, `BlocksCorrect` and `NoIdleBlocks`
are the invariants of `pool_calls`.

**Semaphores, event flags and mailboxes** (`SyncProofs`): for any number of tasks, priorities, objects, units
of a semaphore, bits of an event flag and messages, of which there are finitely many.  `SyncHooks` says of the two
constants of `WaitObject` what `MCSyncObjects.cfg` gives them, the hooks of the three kinds of objects.  The first half
is about tasks that wait for objects of any kind: `KState` is `Steady` with each task
linked where its state and `wid` say, and without an object or a timer event unless it waits.  Its lemmas say of each
call on a task that waits are left as they are (`Undisturbed`), begin, or end (`Concerns`: nothing but the task
concerned, and no wait, changes).  The second half is `ServedInv`.  That no task waits for what is there
(`ObjectOk`) is not inductive: a wait that ends, with a release, a timeout, a termination or a change of
priority, changes who is first of a semaphore, and the hook that serves the next one knows the object by `wid` and
the order by the attribute.  So `WaitOf` says that a task waits for an object that exists, with the hooks that its kind
and attribute call for; `AllQueued`, that a task in a wait state is in the queue of an object; `QueueOrder`, that the queues
with `TA_TPRI` are ordered by the *present* priorities, also after `tk_chg_pri`; and `OneWaiter`, that `TA_WSGL`
admits one task at a time.  The loops of `tk_sig_sem`, `tk_set_flg` and the hooks are
followed along the queue as the functions they are (`ServeSteps`), with what they have not reached yet
unchanged.
For the messages the invariant is `MsgState`: for each mailbox there is a sequence of distinct messages, those of the
history `msgs`, that the links follow from `mq_head` to the NULL pointer (`MsgChain`), in the order they were sent
with `mq_tail` the last one, or with `TA_MPRI` in the order of their priorities and then as they were sent (`ByMsgPri`).
What the property does not say and the proof needs: a message is in one mailbox only, since a link changed for one
mailbox would break the chain of another; a mailbox that does not exist has no message; and `mq_tail` says
nothing while there is none.  `Chain`, the sequence that the model picks by the links, is that sequence because
the links determine it (`LinksPrefix`) and distinct messages are at most as many as messages (`ChainIs`).
Theorems: `SyncSpecNoSatisfiedWaiter`, `SyncSpecQueuesExact` (`SyncQueuesExact`) and `SyncSpecMessagesInOrder`
(`MessagesInOrder`).

**Fast locks** (`SyncProofs`, `LockProofs`): for any number of tasks, priorities and locks in a multi-lock.
`LockHooks` says of the two hooks what `MCFastLocks.cfg` gives them, those of semaphores
and event flags.  `LockProofs` follows the loops of `tk_sig_sem` and `tk_set_flg` along the
queue: at most the first waiter leaves, because each asks for the one unit (`ServeFirst`), or for the one bit of its
lock and clears it (`ServeFlgOne`).
- `LockInv`, for the counter and its semaphore: the counter counts at least the tasks on the way in or in the
  lock; at most one task is `Holder` (it has the lock, has been let in by `tk_sig_sem`, or is about to call it); with
  a holder the semaphore has no unit, without one it has a unit exactly if the counter is not -1; and while a task waits
  there is a holder.  Exclusion alone is not inductive: a `Lock` that finds the counter at -1 goes in
  without asking the semaphore, and one that goes there may find a unit that an earlier `Unlock` left for a task
  that was terminated since.
- `MLockInv`: a set bit has one holder and a clear one none (`MHolders`); `wai` counts at least the tasks in
  `MLockTmo` (`MCounted`), since a terminated task stays counted; and for each task that waits for a lock
  or is on its way to waiting, either the pattern of the event flag has the lock's bit, or there is a `Witness`:
  another task that has the lock, gives it back and has not signalled yet, or will try to take it
  (`MServed`).  The witness changes whenever the lock changes hands; no conjunct about the lock alone says why a
  waiter may wait.
Theorems: `LockSpecExact` (`LockExact`: exclusion, a lock that nobody has is open, and while tasks wait
there is one that will let the next in), `MLockSpecExact` (`MLockExact`: exclusion, counted tasks) and
`MLockSpecNoLostUnlock`.

**Timer** (`SequenceFacts`, `TimerProofs`): for any even number of words, any period of the tick, and any
number of tasks, cyclic handlers and alarms.  Times are words that wrap around; what a comparison
of two of them means is known only while the times they stand for are near each other.  `TimerInv` says that
the word of each queued event is that of `current_time + due`, that all of these distances are
`Near` (within half of the words), that the queue is in the order of `due` and holds the events of the
waits, the started handlers and the set alarms (`LinkedByState`).  Strengthening was needed twice: `PhaseTrue`
keeps the word of a *stopped* handler with `TA_PHS` true, because `tk_sta_cyc` reads it, and `NotYet`
bounds how late an event can be (nothing is due between ticks, and in the handler nothing for longer than one
tick), without which distances would not stay near.  The two assumptions: `ShortIntervals`, that every
timeout and interval, with the tick that is added to it, is at most half of the words, is
one tick less than `CHECK_TMOUT` and `CHECK_RELTIM` allow, and `timer_long` shows that the
queue is wrong without it; `RestartedInTime` is about `TA_PHS` handlers stopped for `2^31` ms, an entry of the
hazards.  Theorems: `QueueExact`, `NothingOverdue`, `PhasesKept` and `NothingEarly`, the four properties of
the run `timer`.

**Devices** (`DeviceProofs`): for any number of tasks, control blocks, units, drivers and modes, and any answers of the
drivers (`DDev` may be any set of registrations).  The invariants build on each other:
- `Typed`: the tables and the local variables; a task with a place in the driver has a block and a request.
- `DevInv`: a `DevCB` is registered under a name of its own or free.  With it, `SuspendInv` says for each
  of the four loops what is suspended after the part of the list the loop has passed; the list
  stays the same because registration needs the lock that the loop holds.
- `OpnInv`: an `OpnCB` is free, on the queues of its device and of the process, or with the task in
  `closefn`, and only one task at a time opens or closes it (`Holders`).  `Modes` is `OpenModesExclusive`.
- `ReqInv`, one `Block(o)` for each open block: `Marks`, that a request is marked exactly with the task that is in the
  driver for it; `Waiting`, that a wait for any request is the only call for its device, and `waitone`
  counts the single waits; `Signals`, that a task which aborts the calls knows their number
  (`abort_cnt = Calls(o)`) and that the semaphore is 1 just when it waits and the number has come to zero.
  `abort_cnt` is not cleared by a close and a count of zero is not signalled, so each place of the closing task
  has its own conjunct (`Signalled`).  A step about one block leaves the others alone (`UntouchedBlock`), one
  lemma for each action does the rest.

Theorems: `DeviceTyped`, `DevicesExact` and `SuspensionTogether` for every behaviour; `OpensExclude` if no
other task is in the device manager at shutdown (`[]AloneAtShutdown`, as the run bounds it: the cleanup closes blocks
without a look at who has them); `UseEndsBeforeClose` (`NoUseAfterClose`, with the abort's `AbortCompletes`) and
`BlocksExact` (`DeviceBlocksExact`) if in addition no task waits for any request where another executes one
(`[]NoOverlap`), without which they fail, as `device_abort` shows.  Both are conditions on what callers do, and
they are hypotheses on the behaviour, not on the constants.

**Model-checked only**: liveness (`DispatchHappens`, `TimedWaitEnds`, `CloseEnds`), which needs
fairness and ENABLED and is beyond the prover; the action properties `UnitsInOrder` and
`EventHadOnce` of the synchronization objects, whose proofs need one more induction over the
steps of a release loop, on what each step leaves in the semaphore or the event flag; and
everything about mutexes and about the communication objects.  `Mutex` walks chains of owners,
and the heap and the message buffer are sequences built by recursion over data.

## What the runs found

* **Deleting a mutex of a deadlock** (`mutex.c:286`).  `tk_del_mtx` calls `knl_release_mutex`
  while `mtxtsk` still names the owner and the queue still has its waiters.  If the owner
  waits in a chain that ends at this mutex, resetting its priority runs the chain, which raises
  the owner again on behalf of the mutex that is going away; `knl_wait_delete` runs no hook, so
  the priority stays.
* **Terminating a task of a deadlock** (`task_manage.c:205`).  `knl_ter_tsk` cancels the wait,
  then calls the release hook while the state is still a wait state.  The chain of priority
  changes returns to the task, and `mtx_chg_pri` links it into the wait queue again.
* **The longest timeouts** (`timer.c:76`).  An event more than `0x80000000` after the current
  time, which a timeout from `0x7FFFFFF7` on is with the tick of 10 that is added to it, wraps around
  in `knl_enqueue_tmeb` and goes to the head of the queue.  The tick stops at the first event
  that is not due, and the events behind it wait for up to 24 days.
* **Aborting a wait for any request** (`deviceio.c:339`).  `tk_wai_dev` with request ID 0 takes all requests
  of the device, also those that other tasks are in `execfn` with.  A close counts that wait as one
  call, but every call that returns is taken off the count, so the first of them ends the abort, and the
  close waits for and frees requests a driver still works on, and the open control block with them.

Observations without a run: `klock.c:15` says that the locked task is the highest to run, but
`knl_make_ready` selects a task above `top_priority` without looking at `klocktsk` (exclusion does
not depend on it); `cycphs` is not checked against the limit that `cyctim` is; `tk_del_mbf` reads `mbfatr` after
its critical section (`messagebuf.c:238`), when the control block may be another buffer's; a second
`tk_opn_dev` of a unit returns while the `openfn` of the first is still running and may fail, without calling
`openfn` itself; and `tk_sus_dev` tests `knl_DisSusCnt` before it gives up the lock and
suspends (`deviceio.c:919`), so that a `TD_DISSUS` in between comes too late.

## Not modelled

The kernel's own logic is in `src/kernel/tkernel` (11600 lines with its headers), the dispatcher of the port, and the
two locks of `src/lib/libtk`.  Of these are left out: the reference and debugger calls, which copy
fields; parameter checks that depend on nothing but the parameter; names, memory of stacks and buffers;
`knl_Irealloc` and `knl_Icalloc`; the system time as an offset; object names, power saving and the
power-on sequence.  Most of the rest of `src/` is headers, startup code and register definitions of other
CPUs and boards, and device drivers (`src/device`), which are register accesses of one chip each.
Their interrupt handlers appear in the models as the caller `"hdr"`, the drivers as the environment
of `Device`.

## Plan

1. (done) `TKernel`, `Task`, `Precedence`, `Mutex`; the proofs about `Task`.
2. (done) `Semaphore` and on it `FastLock`; the kernel lock with `FixedPool`; `Timer`.
3. (done) `WaitObject`, `EventFlag`, `Mailbox`, `FastMLock`; `MessageBuffer`, `Heap`, `MemoryPool`,
   `Rendezvous`; `Device`.
4. (done) Proofs about `Timer`, `FixedPool`, `SyncObjects`, `Device` and the fast locks, and of the refinement of `Precedence`.
   Left: ownership of mutexes, and the communication objects on the lemmas of `SyncProofs`.
5. `tk_wai_dev` and `tk_cls_dev` with several devices at a time; `DeleteLock` and `DeleteMLock`; `knl_Irealloc`.
