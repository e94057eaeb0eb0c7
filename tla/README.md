# Verification of Mach 4: locks, scheduling, IPC, TLBs and memory objects

A TLA+ development kept beside the sources of Mach 4 (`src/mach4`, with the
i386 port in `src/mach4-i386` and the Lites server in `src/lites-1.1.u3`). It
models the kernel where it is concurrent: what several processors, interrupts
and threads do to shared state between two lock sections. The configuration is
the multiprocessor one (`NCPUS 2`, `mach4-i386/kernel/imps/cpus.h`), with
`MIGRATING_THREADS` and `CONTINUATIONS` undefined, and `MACH_HOST 0`,
`MACH_FIXPRI 1`, `HW_FOOTPRINT 0`, `NORMA_IPC 0` and `NORMA_VM 0` as in
`kernel/bogus`.

## 1. The system

| Part | State | Operations | Meets |
|---|---|---|---|
| `kern/lock.c` sleep locks | want_write, want_upgrade, read_count, waiting, thread, recursion_depth | read, write, upgrade, downgrade, try, recursive | sched_prim (sleep, wakeup); used by vm_map |
| `kern/sched_prim.c` waits and context switch | thread state bits, wait queues, run queues, idle processors | assert_wait, thread_block, thread_wakeup, clear_wait, thread_select/invoke/dispatch, idle loop, the scan for stuck threads | everything |
| `kern/thread.c`, `thread_swap.c` | suspend counts, wake_active, stacks | hold, dowait, release, suspend, resume, swapin | sched_prim, AST |
| `kern/mach_clock.c`, `ipc_sched.c` | timer queue, waits without an event | softclock, set_timeout, thread_go, thread_will_wait | sched_prim, ipc |
| `ipc/ipc_mqueue.c`, `ipc_pset.c`, `ipc_port.c` | queues of messages, of receivers and of senders; msgcount, qlimit, seqno; membership of sets | send, receive, move, set_qlimit, destroy | ipc_sched, rights |
| `ipc/ipc_right.c`, `ipc_object.c`, `ipc_notify.c`, `ipc_space.c` | names, user references, send and send-once counts, requests, rights in transit | copyin, copyout, dealloc, mod_refs, rename, notifications, death of ports and spaces | ports |
| `intel/pmap.c` | page tables, TLBs, cpus_using and cpus_active, update lists | enter, remove, protect, collect, attributes, shootdown, switch, idle, start and stop | processors |
| `vm/vm_object.c`, `vm_fault.c`, `memory_object.c`, `vm_pageout.c` | objects, pages (busy, absent), the object cache, the pager's port | map, fault, the pager's calls, pageout, terminate, death of the pager | ipc, sched_prim |
| other kernel parts, devices, ddb, boot, libmach, libthreads, mig, Lites | see PROJECT.json | | |

What makes it hard: a thread is woken, timed out, aborted, suspended or
resumed at any point of its own context switch; `clear_wait` and `softclock`
drop a lock and act on what they saw; a message queue is unlocked before the
receiver is started; ports move between sets with messages queued and threads
waiting; one waiting bit serves several kinds of waiter; a port dies with
entries, requests and messages that still lead to it; a processor reads lock
words it does not hold to decide when to flush; an object is terminated while
its pager answers. PROJECT.json lists every hazard at its line, with the
property that watches it.

## 2. Modules

| Module | Models | Granularity |
|---|---|---|
| `KernLock` | `lock.c`, all routines | one section of `l->interlock` |
| `RWLock` | what lock.c promises: one writer or many readers, upgrade atomic | abstract |
| `SchedPrim` | `sched_prim.c`, suspension, timeouts, stack swapin | one section of the thread, wait queue, run queue or idle lock |
| `SchedScan` | `do_thread_scan` on top of `SchedPrim` | one run queue; one stuck thread put back |
| `IpcMqueue` | `ipc_mqueue.c`, sets, the queue side of ports | one section of port, set and queue locks |
| `IpcRight` | rights, requests, notifications, death of ports and spaces | one kernel call under the space lock; what it does after unlocking is a later step |
| `Pmap` | locks on pmaps, changes of entries, TLB shootdown | one read or write of shared state |
| `VmObject` | the VM objects of one external memory object, its pager, the pageout daemon | one section of the object lock and the cache lock |
| `IpcMqueueInv` | the inductive invariant of `IpcMqueue` and what its proof names | |
| `KernLockProofs`, `SchedProofs`, `PmapProofs`, `IpcMqueueQueues`, `IpcMqueueSenders`, `IpcMqueueReceivers`, `IpcMqueueProofs` | theorems | |
| `MCKernLock`, `MCSchedPrim`, `MCSchedScan`, `MCIpcMqueue`, `MCIpcRight`, `MCPmap`, `MCVmObject` | instances | |

**KernLock.** The variables are the fields of `struct lock`, the place of each
thread in `lock.c` (`pc`), the sleepers, and the history of who holds what. The
routines keep their names; `..._retry` and `StillWaits` are further
turns of a waiting loop. Counters wrap at the width of the bit-field
(`ReadCountMod`, `DepthMod`). `CallerMay...` states what callers owe the lock.

**SchedPrim.** `state` holds the bits TH_RUN, TH_WAIT, TH_SUSP and TH_UNINT
(TH_HALTED is cleared where the code clears it; nothing here sets it); `swapped`
and `swapin` are the threads without a stack. A context switch is `thread_block`,
`thread_select`, `thread_invoke`, `thread_dispatch` and the deferred wakeup of
`wake_active`, each its own action, on the processor's stage `ppc`. `clear_wait`
takes the thread lock twice, so it is two actions. `softclock` takes a timer off
the queue and calls `thread_timeout` later, on the master processor, which is
interrupted meanwhile. Suspension is `thread_suspend`, `thread_dowait`,
`thread_resume`. Priorities are abstracted (any thread of a run queue may be
chosen), and wait queues follow from `wait_event`. Of ipc_mqueue.c the module has what
concerns waiting: a receiver waits on a queue (`ipcq`), another thread takes it off
(`ipc_thread_rmqueue_first`) and calls `thread_go` after the unlock (`owed`), or the
receiver takes itself off after a timeout (`ipc_thread_rmqueue`). `thread_go` looks at the
state of the thread and not at its event; `late` is history: threads it has started from a
wait for an event.

**SchedScan.** `stuck_threads` and the two passes of `do_thread_scan`. The first
pass takes a thread from a run queue without the thread lock, as the code does.
`left` is history: threads suspended while the scan held them.

**IpcMqueue.** `imq_messages` and `imq_threads` hold the messages and the
receivers of every queue, `ip_blocked` the senders; `ith` the fields a waker
writes into a thread. `Deliver` is the loop of `ipc_mqueue_send` that looks for a
receiver with room (`Taker` is where it stops, `TellTooLarge` what it does on the
way, `Give` what the receiver gets); `ipc_mqueue_move` applies it to the messages
that change queue, one by one. `send_goes` is the `thread_go` after the unlock,
`receive_accounts` the section under the port lock after a message was taken.
`clear_wait` is a timeout or an abort. `sent`, `base` and `wasted` are history:
the number of a message in its port's order, the order's start, and the ports at
which a sender that was let in found its message circular. A panic is
`pc = "panic"`.

**IpcRight.** Operators take and return the kernel state as a record. `ie` is the
entry of each name, `ip` the ports, `naked` the rights held by threads and
user messages, `work` what threads still do after unlocking (send a
notification, take down a dead port, copy out a message). `stray` and `sync` are
history.

**Pmap.** A pmap maps one virtual page. `tlb` is what each processor has cached;
`interrupt` the pending update interrupts. The hardware loads entries and
writes through them at low priority only. `written`, `unsignalled` and `early` are
history: what was written, an entry changed without signalling, and a request
taken from its list before its interrupt was sent.

**VmObject.** The pager may make any call at any time, and die. `failed` collects
assertions and panics met; the kernel stops there, and nothing else of that step is kept.
`opened`, `late` and `lost` are history of what the pager and the users saw. A thread
that has to wait tests with the object locked (`MustWait`), marks the page or the object
as wanted (`MarkWanted`) and asserts the wait. Only the walk of
`vm_object_abort_activity`, which `vm_object_destroy` starts after the port has died and
it has unlocked the object, can come in between. So the three are one step while the
port lives; afterwards `assert_wait` takes the last two, and the other steps
wait until the thread sleeps. Each
look, store and wakeup of the walk is a step; a store to one bit of a word
is taken to leave the other bits alone, and the links of the list that the walk
follows are not modelled. The fields `raced` and `orphan` of a thread are history: the walk
overtook it on its way to sleep, and it slept when the port died.

Names ending in `_Something` next to a definition are deliberately wrong
versions of it, each of which the property named in PROJECT.json rejects.

## 3. Runs

| Run | Instance | Distinct states | Checks |
|---|---|---|---|
| lock_safety | 3 threads, 2 read holds each, depth 2 | 6,624 | TypeOK, Exclusion, ReadCountExact, NoLostWakeup, UpgradeUndisturbed, ImplementsRWLock, WriterGetsIn, no deadlock |
| sched_wait | 2 threads, 2 processors, 1 event and waits for messages | 740,654 | InOnePlace, WaitsEndCleanly |
| sched_suspend | 3 threads, 2 processors, 2 nested suspensions | 800,919 | InOnePlace, SuspendedStaysStopped |
| sched_live | 2 threads, one bound, 2 processors | 23,896 | NoStrandedThread, SuspendReturns |
| scan_places | 2 threads, one bound, stuck table of 1 | 144,570 | ScanOnePlace, BoundStaysPut |
| ipc_queues | 3 threads, 2 ports, 2 sets, 2 sizes, limits 1 and 2, 4 calls | 277,757 | NoMessageBesideReceiver, MsgCountExact, InOrder, OnPortsQueue, WaitsWhereQueued, NoIdleSlot |
| ipc_rights | 2 spaces, 2 names, 2 ports, 6 calls | 219,906 | ReferencesExact, RightsExact, OneReceiveRight, RequestsMatch, UrefsBounded, NoSendersPending, NoCircle |
| pmap_tlbs | 2 processors, the kernel's and a user's pmap, 1 page, 4 choices | 999,675 | TlbCoherent, NoImplicitUpdate, ModifyKept, NoWaitCycle |
| pmap_live | the same, 3 choices | 325,081 | UpdateEnds |
| vm_object | 2 objects, 2 offsets, 3 threads and the daemon, 2 maps, 4 operations | 331,020 | CountsExact, NoLostWakeup, PagerSeesOneLife, NoWriteLost, PageReachable, PagerLockKept, NoOtherPanic |
| ipc_stray, pmap_early | as ipc_rights and pmap_tlbs, smaller | | one property each, violated (section 4) |

What the passing runs show:

* **lock.c** gives exclusion, never miscounts readers, loses no
  wakeup although one bit serves all waiters, its upgrade is atomic (`RWLock`), and
  a writer gets in past new readers.
* **A thread is in one place** (`InOnePlace`): one marked TH_RUN is on one processor,
  or dispatched to one, or on one run queue, or being swapped in, and any other is in
  none of these, through every race of wakeup, timeout, suspension and
  context switch; and while the scan holds it, nowhere else (`ScanOnePlace`).
* A wait that has ended left no timer behind, and no event either unless a late
  `thread_go` ended it (`WaitsEndCleanly`).
* A thread for which the first `thread_suspend` has returned does not run until it is
  resumed as often as it was suspended (`SuspendedStaysStopped`); a nested `thread_suspend` only
  counts, and may return while the first still waits. `thread_suspend` does return (`SuspendReturns`).
* No processor idles for ever beside a thread it could run (`NoStrandedThread`), and
  a bound thread meets no other processor (`BoundStaysPut`).
* **Messages**: none sits beside a waiting receiver, `ip_msgcount` is exact,
  order and sequence numbers survive moves between sets, a message handed to a
  receiver that times out at that moment is not lost, and a
  free slot always has a wakeup on its way to a blocked sender (`NoIdleSlot`).
* **Rights**: a port's references and its counts of send and send-once rights are
  those that exist; there is one receive right, a name for a port is unique in its
  space, requests and entries match, no-senders notifications come, and no port
  is in transit to itself.
* **TLBs**: after a signalled update no processor uses the old translation, no write
  in progress is overtaken, no modify bit is lost, and updaters do not wait in a circle.
* **Memory objects**: references, paging and absent counts are exact, sleepers have
  something to wait for, the pager sees one life of the object at a time, written
  data is not dropped, and pages stay within reach of the daemon. When the pager's port
  dies, whoever slept for its answer is let go before `vm_object_destroy` ends.

Properties name the cases in which the code does not keep them: `left` in
ScanOnePlace, `late` in WaitsEndCleanly, `wasted` in NoIdleSlot, `stray` in RightsExact, RequestsMatch and
NoSendersPending, `unsignalled` and `early` in the Pmap ones, `raced` and the
waits for a dead port in VmObject's NoLostWakeup, and the panics listed in NoOtherPanic, each
only with a dead port or beside an error page. Section 4 says where they come from.

**Bounds.** Each is named in the module that declares it. Two processors and two or
three threads are enough for every pair of sections to interleave, and the third
thread to be the one that suspends, or the second blocked sender. `MaxStops` caps
`user_stop_count`; 2 in sched_suspend lets suspensions nest, 1 elsewhere, since a nested one only counts. `Continuations` says whether
`thread_block` may discard the stack of a thread that waits or runs on: it does or does not in sched_live and
scan_places, and never in the other two, to keep them small; the theorems
cover every choice. `MaxReads` and `MaxDepth` of 2 let
holds nest. In IpcMqueue `MaxCalls` caps the calls on ports and sets: four fill a
queue, block a sender, move or destroy the port and receive; timeouts, aborts and
wakeups are not counted. `QLimits` {1, 2} makes a queue full at once and lets the limit
rise and fall. A timeout that may fire at any moment or never covers calls without one; a
timeout of 0 is what a timed-out call becomes. In IpcRight two spaces, names and ports let
a right be moved, merged, renamed and sent through the other port; `MACH_PORT_UREFS_MAX` 3
is met by three copies; six calls allocate, send, request and kill, and the death of a space counts for two. In Pmap
`UPDATE_LIST_SIZE` 1 makes the list overflow, and `MaxChoices` caps only what a processor
starts by choice (calls, writes, switches), never how it goes on. In VmObject two
object structures, reused when they are freed, let the old life of the memory object overlap the new one;
`vm_object_absent_max` and `vm_object_cached_max` 0 put both limits in reach, and the
constraint `Small` allows two threads on two pages with four calls, or three on one page with three. `CHECK_DEADLOCK FALSE`
is set where the system may rightly stop: every thread asleep, or a bound reached.

**Fairness.** `lock_safety`: a thread that is awake in a waiting loop takes its next
turn, which the run queues give it; holders are not obliged to release, and WriterGetsIn
says so. `sched_live`: a processor goes on executing the kernel and its idle loop (weak),
the swapin thread runs (weak), a thread that is suspended takes its AST before it has
re-entered the kernel infinitely often (strong: it may sleep uninterruptibly any finite
number of times first), and events that threads sleep on are eventually signalled (weak).
`pmap_live`: a processor goes on executing instructions and takes its interrupts (weak);
the locks are not fair and no call is forced to happen.

## 4. Where the code and its comments or assertions disagree

Two are runs, `ipc_stray` and `pmap_early`:

* **ipc_stray** (ipc_right.c:1098). Giving up a receive right beside a send right of the
  same name leaves `ip_srights` alone because "the port is destroyed"; if a
  port-destroyed request keeps it alive, the count stays one too high.
* **pmap_early** (pmap.c:2439, comment at 2380). A processor that finishes an earlier update takes
  the request of the next one before its interrupt is sent, loads the old entry, and
  flushes nothing when the interrupt comes.

The others are reachable in the models and named in their properties or in PROJECT.json's hazards:

* `thread_timeout` asserts that the timer is not set (sched_prim.c:194). softclock unlocks
  before the call; a wakeup and a new wait with a timeout fit in between.
* A thread resumed and suspended again while it sleeps stops without waking a thread in
  `thread_dowait` (thread.c:1248); SuspendReturns assumes that nobody resumes it.
* A thread suspended while the scan holds it has TH_RUN and is on no queue; it is
  not put back (sched_prim.c:1994; history `left`).
* The late `thread_go` of `ipc_mqueue_send` ends the receiver's next wait;
  `ipc_mqueue_receive` asserts it cannot (ipc_mqueue.c:692). If that wait is for an event, the
  thread stays on the event's wait queue while it runs, and `thread_wakeup` of the event, or the
  thread's next `assert_wait`, panics (history `late` of SchedPrim).
* A sender let in destroys its circular message and wakes nobody; others stay blocked
  below the limit (ipc_mqueue.c:327; history `wasted`).
* `pmap_collect` unlocks the pmap and goes on removing entries without signalling
  again (pmap.c:1972; history `unsignalled`).
* `vm_object_enter` loses the object it has allocated when it starts over (vm_object.c:2055).
* `memory_object_data_error` leaves a fictitious page that is neither busy nor absent, which
  the comment at vm_pageout.c:741 excludes. Until a fault removes it, the daemon
  (vm_pageout.c:744), a lock_request (memory_object.c:486) or the end of the object
  (vm_object.c:623) fails on it.
* `vm_object_destroy` unlocks the object (vm_object.c:1969) and calls `vm_object_abort_activity`,
  whose comment requires the lock (vm_object.c:744). A fault that has found the pager not ready,
  a page busy or an unlock requested may sleep after the wakeup that was meant for it, and the walk
  may free a page that has changed.
* The port may die at other bad moments: before `vm_object_enter` has set `object->pager`
  (assertion at vm_object.c:1951, or "port died" at 2136), and before a `vm_object_remove`
  or `vm_object_enter` that sets its type (ipc_kobject.c:302). A mapping begun before the death
  may find the object gone, and one that waits for IKOT_PAGER_TERMINATING to pass waits for good,
  since a dead port keeps its type (vm_object.c:695).

## 5. Proofs

TLAPS checks the following for every value of the constants that respects the named
assumption of the module (`LockAssumption`, `SchedAssumption`, `ScanAssumption`,
`PmapAssumption`, `IpcAssumption`). These say that sets that stand for different
things are disjoint, that bounds are numbers, that the threads of a lock or of the IPC
system are finitely many, and, for `lock.c`, that holds and recursion fit the bit
fields (fewer than 2^16 and 2^12).

| Module | Theorem | Property |
|---|---|---|
| KernLockProofs | TypeCorrect, LockExclusion, LockReadCount, LockWakeups, LockUpgrade | TypeOK, Exclusion, ReadCountExact, NoLostWakeup, UpgradeUndisturbed |
| KernLockProofs | Refinement | ImplementsRWLock |
| SchedProofs | OnePlace, WaitsClean, StaysStopped | InOnePlace, WaitsEndCleanly, SuspendedStaysStopped |
| SchedProofs | ScanPlacesOnce, BoundStays | ScanOnePlace, BoundStaysPut |
| PmapProofs | Coherence, UpdateAlone, ModifyBits, WaitsEnd | TlbCoherent, NoImplicitUpdate, ModifyKept, NoWaitCycle |
| IpcMqueueProofs | QueueInvariant; QueueNoMessageBesideReceiver, QueueMsgCountExact, QueueInOrder, QueueOnPortsQueue, QueueWaitsWhereQueued, QueueNoIdleSlot | the inductive invariant; the six invariants of ipc_queues |

**lock.c.** `Exclusion` is not inductive: it does not say which bit protects a hold.
`IInv` adds who owns each bit (`BitOwners`), what a thread holds at each waiting
place (`Waiters`), what a granted write bit or upgrade bit excludes (`WriteGranted`,
`UpgradeGranted`), where the recursive owner stands (`Owner`, `Depth`) and that
sleepers still must wait (`Sleepers`). `ReadCountExact` is part of it, because
`lock_done` decides from `read_count` what is released; it rests on cardinality lemmas
(`GrantCounts`, `DropCounts`) and on `IncDec`, which shows that no counter wraps. The
refinement maps a pending upgrade to the read hold it gave up, and a write hold to the end
of its loop; it needs `NoGaps` besides (`RInv`): which hold that was.

**sched_prim.c.** `InOnePlace` counts places. `Once(H)` says the same with one predicate
for each kind of place, and with a set H of threads that something outside `SchedPrim`
holds; `PInv(H)` adds the types and where `sel`, `old` and `next_thread` are in use
(`Switches`). `OnePlace` is the case H = {}. `WaitsEndCleanly` needs who may be marked
TH_RUN and TH_WAIT at once (`WaitersGo`: a thread between asserting its wait and leaving
its processor) and that timers and events belong to threads marked TH_WAIT, or, events only, in
`late` (`WaitersMarked`). `StaysStopped` is an action property, proved from the same invariant:
no step takes a stopped thread anywhere, and `thread_dowait` returns for none but those. In
`SchedScan`, H is what the scan holds and what it did not put back, so the lemmas about
`SchedPrim`'s steps are used as they are, and only the steps of the scan are new.

**pmap.c.** `IInv` says, for each place in the code, which locks a processor holds
(`LockHeld`, `SystemLock`) and which sets it is in (`SetsMatch`); that a user of a pmap being
changed has been signalled, has its request listed and its interrupt pending, or has left
cpus_active (`Signalling`); that at the change nobody is left (`Changing`); what may be written
meanwhile (`Writing`); that a cached entry agrees with the page table or will be flushed before
it is used (`Cached`); and where modify bits are (`Marked`, `Cleared`). The step lemmas are split
by conjunct, and most of them by what one processor's step may do to another
processor's part.

**ipc_mqueue.c.** `IInv` has two halves. `QInv` relates messages, receivers and numbers: a receiver
is on a queue exactly while it waits there, messages are on the queue of their port, in
order, never beside a receiver, those queued are the ones after the last numbered, and
`ip_msgcount` is what remains of the messages accepted (`Counted`). `SInv` relates senders to slots: a
sender is blocked exactly while it waits, and while some are, messages and senders let in fill
the port. Both are over states given as records, so that the intermediate states of
`ipc_pset_move` (out of one set, into another) have them too. `ipc_mqueue_move` is a recursive function over the
queue it empties; its loop invariant is `Moving` (what has been moved is gone from the source, given
to a receiver or appended to the destination, in order, and no receiver is left once one message
was appended). The induction is over sets of numbers (`NatInduct`, from the
well-foundedness of < on Nat), since theorems with an operator parameter cannot be used, and
`Recursion` shows that the recursive function exists and is what its equations say.
The lemmas take the laws of numbers and finite sets they use as a hypothesis (`SetLaws`), which keeps the
library out of three of the four modules; `SetLawsHold` proves it, and no theorem has it as a hypothesis. TLC has checked this `IInv` as an invariant of the ipc_queues instance.

**Only model-checked.** Liveness (WriterGetsIn, NoStrandedThread, SuspendReturns, UpdateEnds), which
needs fairness and ENABLED, beyond this prover. All properties of `IpcRight` and of `VmObject`: the first
sums over bags of rights and pieces of work and folds over the entries of a dying space, and the second has an invariant
for each of the many places where a thread sleeps; neither has a proved inductive invariant so far.
The two violated properties are counterexamples and need no proof.

## 6. Not modelled

In the modelled parts: thread_halt, thread_abort and termination; priorities; the order of bucket
and thread locks (sched_prim.c:139); port sets as rights, msg-accepted requests, reply ports and the
compatibility calls; page-table pages, pv lists and wired mappings; shadow and copy objects, internal
objects and the default pager, wired and precious pages, requests for several pages, and the
free page pool.

Whole parts: `zalloc.c`, `eventcount.c`, `timer.c`, tasks and processor sets, address maps, libthreads
and the sleep queues of Lites could follow in the same way. Drivers, debugger, boot code, generated stubs and
file systems have no shared state the methods here reach, or hardware on the other side. Message bodies and
formats are data that no property tells apart. Memory ordering below a lock section is left out: the
kernel reads these fields under locks, or the model has an action for each unlocked read that
matters. PROJECT.json gives the reason for each part.
