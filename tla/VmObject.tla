------------------------------ MODULE VmObject ------------------------------
(***************************************************************************)
(* The life of an external memory object: its VM objects one after the     *)
(* other, their pages, the faults of tasks that map it, the calls of its   *)
(* pager, and the pageout daemon                                           *)
(* (mach4/kernel/vm/vm_object.c, vm_fault.c, memory_object.c,              *)
(* vm_pageout.c, vm_resident.c).                                           *)
(*                                                                         *)
(* A step is what a thread does between taking and releasing the locks of  *)
(* the object and of the object cache; between two steps a thread sends a  *)
(* message or sleeps.  Once the port is dead, a thread on its way to sleep *)
(* takes three steps with the object locked, because                       *)
(* vm_object_abort_activity goes on without the lock.  Operators take and  *)
(* return the kernel state K, a record of the variables below.             *)
(*                                                                         *)
(* The pager is a task: it may make any call on the request port at any    *)
(* time, asked or not, any number of times or never, and its port may die. *)
(* Shadow and copy objects, internal objects, wired and precious pages are *)
(* not modelled.                                                           *)
(***************************************************************************)
EXTENDS Integers, Sequences, FiniteSets, Functions

CONSTANTS
    Objects,               \* VM object structures; a freed one may be allocated again
    Offsets,               \* of the pages of the memory object
    Threads,               \* kernel threads that map, fault and serve the pager
    Daemon,                \* the pageout daemon
    Null,
    Calls,                 \* the calls that the pager makes
    Writes,                \* subset of BOOLEAN: the faults are for writing
    Aborts,                \* TRUE if threads are aborted in their waits
    Deaths,                \* TRUE if the pager's port may die
    vm_object_absent_max,
    vm_object_cached_max,
    MaxMaps,               \* bound on the mappings of an object
    MaxCalls               \* bound on the operations begun

\* What the pager may ask for.
PagerCalls ==
    [call : {"data_supply"}, i : Offsets, lock : BOOLEAN]
    \cup [call : {"data_error", "data_unavailable"}, i : Offsets]
    \cup [call : {"lock_request"}, i : Offsets, return : BOOLEAN, flush : BOOLEAN,
          prot : {"same", "none", "write"}]
    \cup [call : {"set_attributes"}, ready : BOOLEAN, may_cache : BOOLEAN]
    \cup {[call |-> "destroy"]}

ASSUME ConstantsAssumption ==
    /\ Calls \subseteq PagerCalls /\ Writes \subseteq BOOLEAN
    /\ Aborts \in BOOLEAN /\ Deaths \in BOOLEAN
    /\ Null \notin Objects \cup Offsets /\ Daemon \notin Threads
    /\ IsFiniteSet(Threads) /\ IsFiniteSet(Offsets)

VARIABLES
    obj,        \* the VM objects
    page,       \* page[o][i]: the page of object o at offset i
    th,         \* what each thread is doing, and the event it waits for
    port,       \* the pager's port: kotype, kobject, active
    cached,     \* vm_object_cached_list
    maps,       \* [Objects -> Nat], map entries that refer to the object
    opened,     \* history: memory_object_init less memory_object_terminate
    late,       \* history: a request or data followed the terminate message
    lost,       \* history: data written by a user was thrown away
    failed,     \* the assertions and panics met: the kernel stops there
    calls       \* operations begun so far

vars == <<obj, page, th, port, cached, maps, opened, late, lost, failed, calls>>

All == Threads \cup {Daemon}

NoPage == [tabled |-> FALSE, busy |-> FALSE, wanted |-> FALSE, absent |-> FALSE,
           error |-> FALSE, fictitious |-> FALSE, dirty |-> FALSE,
           page_lock |-> FALSE, unlock_request |-> FALSE, queued |-> FALSE,
           mapped |-> FALSE, unsaved |-> FALSE, by |-> Null]

\* A new page is busy and on no pageout queue.
RealPage == [NoPage EXCEPT !.tabled = TRUE, !.busy = TRUE]
FictitiousPage == [RealPage EXCEPT !.fictitious = TRUE]

NoObject == [allocated |-> FALSE, ref_count |-> 0, alive |-> FALSE,
             can_persist |-> FALSE, pager_created |-> FALSE,
             pager |-> FALSE, pager_request |-> FALSE,
             pager_initialized |-> FALSE, pager_ready |-> FALSE,
             paging_in_progress |-> 0, absent_count |-> 0, all_wanted |-> {}]
vm_object_template == [NoObject EXCEPT !.allocated = TRUE, !.alive = TRUE,
                                       !.ref_count = 1]

NoCall == [call |-> "none"]
Idle == [pc |-> "idle", o |-> Null, i |-> Null, op |-> NoCall, new |-> Null,
         left |-> {}, ev |-> <<>>, wait |-> "no", awakened |-> TRUE,
         pager |-> FALSE, then |-> "idle", again |-> FALSE,
         raced |-> FALSE, orphan |-> FALSE]

Kernel == [obj |-> obj, page |-> page, th |-> th, port |-> port,
           cached |-> cached, maps |-> maps, opened |-> opened,
           late |-> late, lost |-> lost, failed |-> failed]

\* The state after a step; of a step that panics only the panic is kept.
Becomes(K) ==
    LET S == IF K.failed = {} THEN K ELSE [Kernel EXCEPT !.failed = K.failed]
    IN /\ obj' = S.obj /\ page' = S.page /\ th' = S.th /\ port' = S.port
       /\ cached' = S.cached /\ maps' = S.maps
       /\ opened' = S.opened /\ late' = S.late /\ lost' = S.lost
       /\ failed' = S.failed

-----------------------------------------------------------------------------
(* Events, references and pages.                                           *)

Goto(K, t, pc) == [K EXCEPT !.th[t].pc = pc]

\* Who brings the event about will see that it is waited for.  The page may have
\* been freed meanwhile, by vm_object_abort_activity.
MarkWanted(K, ev) ==
    IF ev[1] = "page" THEN [K EXCEPT !.page[ev[2]][ev[3]].wanted = K.page[ev[2]][ev[3]].tabled]
                      ELSE [K EXCEPT !.obj[ev[2]].all_wanted = @ \cup {ev[1]}]

\* A thread has seen, with the object locked, that it must wait; it will go on
\* at pc.  Marking the event and asserting the wait are steps of their own once
\* the port is dead, when something goes on without the lock.
MustWait(K, t, ev, pc) ==
    LET W == [K EXCEPT !.th[t].ev = ev, !.th[t].pc = pc,
                       !.th[t].wait = IF K.port.active THEN "asserted" ELSE "must"]
    IN IF K.port.active THEN MarkWanted(W, ev) ELSE W

PAGE_ASSERT_WAIT(K, t, o, i, pc) == MustWait(K, t, <<"page", o, i>>, pc)
vm_object_assert_wait(K, t, o, e, pc) == MustWait(K, t, <<e, o>>, pc)

\* The threads that keep an object locked on their way to sleep.
Holders(K) == {t \in All : K.th[t].wait \in {"must", "marked"}}

Awake(th_t, result) ==
    [th_t EXCEPT !.ev = <<>>, !.wait = "no", !.awakened = result,
                 !.raced = FALSE, !.orphan = FALSE]

thread_wakeup(K, ev) ==
    [K EXCEPT !.th = [t \in All |->
        IF K.th[t].ev = ev /\ K.th[t].wait = "asserted" THEN Awake(K.th[t], TRUE)
                                                        ELSE K.th[t]]]

vm_object_wakeup(K, o, e) ==
    LET C == [K EXCEPT !.obj[o].all_wanted = @ \ {e}]
    IN IF e \in K.obj[o].all_wanted THEN thread_wakeup(C, <<e, o>>) ELSE C

vm_object_paging_begin(K, o) == [K EXCEPT !.obj[o].paging_in_progress = @ + 1]

vm_object_paging_end(K, o) ==
    LET C == [K EXCEPT !.obj[o].paging_in_progress = @ - 1]
    IN IF C.obj[o].paging_in_progress = 0
       THEN vm_object_wakeup(C, o, "PAGING_IN_PROGRESS") ELSE C

vm_object_absent_release(K, o) ==
    vm_object_wakeup([K EXCEPT !.obj[o].absent_count = @ - 1], o, "ABSENT_COUNT")

PAGE_WAKEUP(K, o, i) ==
    LET C == [K EXCEPT !.page[o][i].wanted = FALSE]
    IN IF K.page[o][i].wanted THEN thread_wakeup(C, <<"page", o, i>>) ELSE C

PAGE_WAKEUP_DONE(K, o, i) == PAGE_WAKEUP([K EXCEPT !.page[o][i].busy = FALSE], o, i)

\* The page leaves the object and the queues.
vm_page_free(K, o, i) ==
    LET p == K.page[o][i]
        W == PAGE_WAKEUP_DONE(K, o, i)
        A == IF p.absent THEN vm_object_absent_release(W, o) ELSE W
    IN [A EXCEPT !.page[o][i] = NoPage,
                 !.lost = @ \/ (p.unsaved /\ K.obj[o].pager)]

\* The pager gives up what was written to the page.
Discard(K, o, i) == [K EXCEPT !.page[o][i].unsaved = FALSE]

\* vm_page_activate and vm_page_deactivate: the daemon will find the page.
Queue(K, o, i) == [K EXCEPT !.page[o][i].queued = TRUE]

\* Mutant: the page is not put back on a queue.
RELEASE_PAGE_Unqueued(K, o, i) == PAGE_WAKEUP_DONE(K, o, i)

\* RELEASE_PAGE of vm_fault: a busy page is given back.
RELEASE_PAGE(K, o, i) == Queue(PAGE_WAKEUP_DONE(K, o, i), o, i)

\* A failed assertion or a panic.
Panic(K, what) == [K EXCEPT !.failed = @ \cup {what}]

\* A message of the kernel to the pager's port; one to a dead port vanishes.
Send(K) == [K EXCEPT !.late = @ \/ (K.port.active /\ K.opened = 0)]

\* The outcomes of a call on object->pager, which is read with the object
\* unlocked: it is what it was at the unlocking, or what it is now.
Sent(K, t) == K.th[t].pager
NotSent(K, t) == ~K.obj[K.th[t].o].pager

-----------------------------------------------------------------------------
(* References.                                                             *)

\* Mutant: the object is found, and stays in the cache.
Reference_StaysCached(K, o) == [K EXCEPT !.obj[o].ref_count = @ + 1]

\* A reference taken through a port; it takes an object out of the cache.
Reference(K, o) ==
    [K EXCEPT !.obj[o].ref_count = @ + 1,
              !.cached = SelectSeq(@, LAMBDA c : c # o)]

\* What the pager's port stands for; the port has to be alive.
ipc_kobject_set(K, kobject, type) ==
    IF K.port.active
    THEN [K EXCEPT !.port.kobject = kobject, !.port.kotype = type, !.port.wanted = FALSE]
    ELSE Panic(K, "ipc_kobject_set: port is dead")

\* The port associations are broken: the pager's port keeps new mappings
\* waiting, the request port means nothing.
vm_object_remove(K, o) ==
    LET R == [K EXCEPT !.obj[o].pager_request = FALSE]
    IN IF ~K.obj[o].pager \/ K.port.kotype = "NONE" THEN R
       ELSE IF K.port.kotype # "PAGER" THEN Panic(K, "vm_object_remove: bad object port")
       ELSE ipc_kobject_set(R, Null, "TERMINATING")

\* Whoever waits in vm_object_enter for the end of the old object goes on.
vm_object_pager_wakeup(K) ==
    LET C == IF K.port.active THEN ipc_kobject_set(K, Null, "NONE") ELSE K
    IN IF K.port.kotype # "TERMINATING" THEN Panic(K, "vm_object_pager_wakeup")
       ELSE IF K.port.wanted THEN thread_wakeup(C, <<"pager">>) ELSE C

vm_object_terminate(K, t, o) ==
    LET R == vm_object_remove([K EXCEPT !.obj[o].alive = FALSE], o)
    IN IF ~K.obj[o].alive THEN Panic(K, "vm_object_terminate: not alive")
       ELSE [R EXCEPT !.th[t].pc = "terminate", !.th[t].o = o]

\* The end of a call: a fault may have to be tried again.
Done(K, t) ==
    [K EXCEPT !.th[t] = IF K.th[t].again
        THEN [Idle EXCEPT !.pc = "retry", !.op = K.th[t].op] ELSE Idle]

\* All that is left is to give up the reference to the object.
LastStep(K, t, again) ==
    [K EXCEPT !.th[t] = [Idle EXCEPT !.pc = "deallocate", !.o = K.th[t].o,
                  !.again = again, !.op = IF again THEN K.th[t].op ELSE NoCall]]
Deallocate(K, t) == LastStep(K, t, FALSE)

\* What a thread does next, once it runs.
At(t, pc) == th[t].pc = pc /\ th[t].ev = <<>>

\* A thread begins a system call, or serves a message.
Begins(t) == At(t, "idle") /\ t # Daemon /\ calls < MaxCalls /\ calls' = calls + 1

\* A step of a call under way.
Does(K) == Becomes(K) /\ UNCHANGED calls

\* PAGE_ASSERT_WAIT and vm_object_assert_wait step by step; then the object is
\* unlocked.
assert_wait(t) ==
    \/ /\ th[t].wait = "must"
       /\ Does([MarkWanted(Kernel, th[t].ev) EXCEPT !.th[t].wait = "marked"])
    \/ /\ th[t].wait = "marked"
       /\ Does([Kernel EXCEPT !.th[t].wait = "asserted"])

-----------------------------------------------------------------------------
(* vm_map: vm_object_enter finds the object of the port or makes one.      *)

vm_map(t) == Begins(t) /\ Becomes(Goto(Kernel, t, "enter"))

\* The previous object is not quite gone: start over when it is.
EnterWaits(t) ==
    /\ At(t, "enter") /\ port.kotype = "TERMINATING"
    /\ Does([Kernel EXCEPT !.port.wanted = TRUE, !.th[t].new = Null,
                           !.th[t].ev = <<"pager">>, !.th[t].wait = "asserted"])

\* The cache is unlocked for the allocation, so the port is looked at again.
EnterAllocates(t) ==
    /\ At(t, "enter") /\ port.kotype = "NONE" /\ th[t].new = Null
    /\ \E o \in Objects :
        /\ ~obj[o].allocated /\ port.kobject # o
        /\ Does([Kernel EXCEPT !.obj[o] = vm_object_template, !.th[t].new = o])

EnterSets(t) ==
    /\ At(t, "enter") /\ port.kotype = "NONE" /\ th[t].new # Null
    /\ Does([ipc_kobject_set(Kernel, th[t].new, "PAGER") EXCEPT
                 !.th[t].o = th[t].new, !.th[t].new = Null, !.th[t].pc = "init"])

\* An object is there; one made in vain is thrown away.
EnterFinds(t) ==
    /\ At(t, "enter") /\ port.kotype = "PAGER"
    /\ LET o == port.kobject
           n == th[t].new
           N == IF n = Null THEN Kernel ELSE [Kernel EXCEPT !.obj[n] = NoObject]
       IN IF obj[o].alive
          THEN Does([Reference(N, o) EXCEPT !.th[t].o = o, !.th[t].new = Null,
                                            !.th[t].pc = "initialized"])
          ELSE Does(Panic(Kernel, "vm_object_enter: object gone"))

\* The pager is told of the object.
EnterInits(t) ==
    /\ At(t, "init")
    /\ LET o == th[t].o
       IN IF port.active
          THEN Does([Kernel EXCEPT !.obj[o].pager_created = TRUE,
                         !.obj[o].pager = TRUE, !.obj[o].pager_request = TRUE,
                         !.opened = @ + 1, !.th[t].pc = "inited"])
          ELSE Does(Panic(Kernel, "vm_object_enter: port died"))

EnterInited(t) ==
    /\ At(t, "inited")
    /\ LET o == th[t].o
           I == [Kernel EXCEPT !.obj[o].pager_initialized = TRUE]
       IN Does(Goto(vm_object_wakeup(I, o, "INITIALIZED"), t, "initialized"))

\* The object is entered in the map with its reference, or not.
EnterEnds(t) ==
    /\ At(t, "initialized")
    /\ LET o == th[t].o
       IN IF ~obj[o].pager_initialized
          THEN Does(vm_object_assert_wait(Kernel, t, o, "INITIALIZED", "initialized"))
          ELSE \/ maps[o] < MaxMaps /\ Does(Done([Kernel EXCEPT !.maps[o] = @ + 1], t))
               \/ Does(Deallocate(Kernel, t))

-----------------------------------------------------------------------------
(* vm_deallocate, and the end of every reference.                          *)

\* A map entry goes, with the physical mappings it had.
vm_deallocate(t) ==
    /\ Begins(t)
    /\ \E o \in Objects :
        /\ maps[o] > 0
        /\ LET U == [Kernel EXCEPT !.maps[o] = @ - 1, !.th[t].o = o,
                                   !.th[t].pc = "deallocate"]
           IN Becomes(IF maps[o] > 1 THEN U
                      ELSE [U EXCEPT !.page[o] = [i \in Offsets |->
                               [@[i] EXCEPT !.mapped = FALSE]]])

\* The last reference: the object is cached, or terminated.  Its pager is
\* initialized: the thread that sees to that has a reference.
vm_object_deallocate(t) ==
    /\ At(t, "deallocate")
    /\ LET o == th[t].o
           D == [Kernel EXCEPT !.obj[o].ref_count = @ - 1]
           C == [D EXCEPT !.cached = Append(@, o), !.page[o] = [i \in Offsets |->
                    [@[i] EXCEPT !.queued = @ \/ (page[o][i].tabled /\ ~page[o][i].busy)]]]
       IN Does(IF D.obj[o].ref_count > 0 THEN Done(D, t)
               ELSE IF ~obj[o].can_persist THEN vm_object_terminate(D, t, o)
               ELSE IF Len(C.cached) > vm_object_cached_max THEN Goto(C, t, "trim")
               ELSE Done(C, t))

\* The oldest object of a cache that overflows goes.
vm_object_cache_trim(t) ==
    /\ At(t, "trim")
    /\ Does(IF Len(cached) <= vm_object_cached_max THEN Done(Kernel, t)
            ELSE vm_object_terminate([Kernel EXCEPT !.cached = Tail(@)],
                                     t, Head(cached)))

-----------------------------------------------------------------------------
(* vm_pageout_page and vm_pageout_setup: data goes back to the pager.      *)

\* The page moves to a new object, which the message carries; a busy page
\* holds its place.
vm_pageout_setup(K, t, o, i, then) ==
    [PAGE_WAKEUP_DONE(K, o, i) EXCEPT
        !.page[o][i] = FictitiousPage, !.th[t].o = o, !.th[t].i = i,
        !.th[t].pager = K.obj[o].pager, !.th[t].then = then,
        !.th[t].pc = "data_return"]

vm_pageout_page(K, t, o, i, then) ==
    vm_pageout_setup(vm_object_paging_begin(K, o), t, o, i, then)

\* Back to who wanted the page out: a call, vm_object_terminate, the daemon.
After(K, t) ==
    CASE K.th[t].then = "deallocate" -> Deallocate(K, t)
      [] K.th[t].then = "terminate" ->
            [K EXCEPT !.th[t].pc = "terminate", !.th[t].i = Null,
                      !.th[t].pager = FALSE, !.th[t].then = "idle"]
      [] OTHER -> [K EXCEPT !.th[t] = Idle]

\* The message, then the place is given up.  If the copy stayed in the
\* object (lock_request) there is no place-holder.
memory_object_data_return(t) ==
    /\ At(t, "data_return")
    /\ LET o == th[t].o
           i == th[t].i
           Freed(K) == IF i = Null THEN K ELSE vm_page_free(K, o, i)
           Clean(K) == After(vm_object_paging_end(Freed(K), o), t)
       IN \/ Sent(Kernel, t) /\ Does(Clean(Send(Kernel)))
          \/ NotSent(Kernel, t) /\ Does(Clean(Kernel))

\* The pageout daemon takes a page from a queue.  A page in use stays.
vm_pageout_scan ==
    /\ At(Daemon, "idle")
    /\ \E o \in Objects, i \in Offsets :
        LET p == page[o][i]
            Off == [Kernel EXCEPT !.page[o][i].queued = FALSE]
            Out == [Off EXCEPT !.page[o][i].busy = TRUE, !.page[o][i].mapped = FALSE]
        IN /\ p.queued
           /\ Does(IF p.busy \/ ~obj[o].alive THEN Off
                   ELSE IF p.absent THEN vm_page_free(Off, o, i)
                   ELSE IF p.fictitious THEN Panic(Kernel, "vm_pageout_scan: fictitious")
                   ELSE IF ~p.dirty THEN vm_page_free(Out, o, i)
                   ELSE vm_pageout_page(Out, Daemon, o, i, "idle"))

-----------------------------------------------------------------------------
(* vm_object_terminate.                                                    *)

Terminate_Waits(t) ==
    /\ At(t, "terminate") /\ obj[th[t].o].paging_in_progress # 0
    /\ Does(vm_object_assert_wait(Kernel, t, th[t].o, "PAGING_IN_PROGRESS", "terminate"))

\* Mutant: a page on its way out is not waited for.
Terminate_Page_NoWait(t) ==
    /\ At(t, "terminate")
    /\ \E i \in Offsets :
        LET o == th[t].o
            p == page[o][i]
        IN /\ p.tabled
           /\ Does(IF p.busy /\ ~p.absent THEN Panic(Kernel, "vm_object_terminate.3")
                   ELSE vm_page_free(Kernel, o, i))

\* Each page is freed or cleaned; those found busy are of aborted faults.
Terminate_Page(t) ==
    /\ At(t, "terminate")
    /\ LET o == th[t].o
       IN /\ obj[o].paging_in_progress = 0
          /\ \E i \in Offsets :
              LET p == page[o][i]
                  Off == [Kernel EXCEPT !.page[o][i].queued = FALSE]
                  Out == [Off EXCEPT !.page[o][i].busy = TRUE]
              IN /\ p.tabled
                 /\ Does(IF p.busy /\ ~p.absent
                         THEN Panic(Kernel, IF obj[o].pager THEN "vm_object_terminate.3"
                                            ELSE "vm_object_terminate.2")
                         ELSE IF ~obj[o].pager \/ p.absent THEN vm_page_free(Off, o, i)
                         ELSE IF p.fictitious THEN Panic(Kernel, "vm_object_terminate.4")
                         ELSE IF p.dirty THEN vm_pageout_page(Out, t, o, i, "terminate")
                         ELSE vm_page_free(Off, o, i))

\* The structure is freed, the call is over.
vm_object_free(K, t, o) == Done([K EXCEPT !.obj[o] = NoObject], t)

Terminate_Ends(t) ==
    /\ At(t, "terminate")
    /\ LET o == th[t].o
       IN /\ obj[o].paging_in_progress = 0
          /\ \A i \in Offsets : ~page[o][i].tabled
          /\ Does(IF obj[o].pager
                  THEN [Kernel EXCEPT !.th[t].then = "free", !.th[t].pc = "release"]
                  ELSE vm_object_free(Kernel, t, o))

\* Mutant: the waiters go on before the pager is told of the end.
memory_object_release_WakesFirst(t) ==
    \/ /\ At(t, "release")
       /\ Does(Goto(vm_object_pager_wakeup(Kernel), t, "released"))
    \/ /\ At(t, "released")
       /\ LET M == [Kernel EXCEPT !.opened = IF port.active THEN @ - 1 ELSE @]
          IN Does(IF th[t].then = "free" THEN vm_object_free(M, t, th[t].o)
                  ELSE Deallocate(M, t))

\* The terminate message is queued, then new mappings may go on.
memory_object_release(t) ==
    \/ /\ At(t, "release")
       /\ Does([Kernel EXCEPT !.opened = IF port.active THEN @ - 1 ELSE @,
                              !.th[t].pc = "released"])
    \/ /\ At(t, "released")
       /\ LET W == vm_object_pager_wakeup(Kernel)
          IN Does(IF th[t].then = "free" THEN vm_object_free(W, t, th[t].o)
                  ELSE Deallocate(W, t))

-----------------------------------------------------------------------------
(* The pager's port dies: ipc_kobject_destroy, vm_object_destroy.          *)

ipc_port_destroy(t) ==
    /\ Deaths /\ port.active /\ Begins(t)
    /\ Becomes([Kernel EXCEPT !.port.active = FALSE, !.th[t].pc = "port_destroy"])

\* Threads asleep until a page of o comes, or until its pager is ready.
Expecting(K, o) == {s \in All : K.th[s].wait = "asserted" /\
    (K.th[s].ev = <<"PAGER_READY", o>> \/ \E i \in Offsets : K.th[s].ev = <<"page", o, i>>)}

\* The pager field is cleared first, so that the port keeps pointing to the
\* object: nothing but a mapping begun before the death can still see it.
vm_object_destroy(K, t, o) ==
    LET D == [Reference(K, o) EXCEPT !.obj[o].can_persist = FALSE, !.obj[o].pager = FALSE,
                  !.th = [s \in All |-> [@[s] EXCEPT !.orphan = s \in Expecting(K, o)]]]
    IN IF ~K.obj[o].pager THEN Panic(K, "vm_object_destroy: object->pager == pager")
       ELSE [vm_object_remove(D, o) EXCEPT !.th[t].pc = "abort", !.th[t].o = o,
                                           !.th[t].left = Offsets]

ipc_kobject_destroy(t) ==
    /\ At(t, "port_destroy")
    /\ LET o == port.kobject
       IN Does(CASE port.kotype = "TERMINATING" -> Done(vm_object_pager_wakeup(Kernel), t)
                 [] port.kotype = "PAGER" -> vm_object_destroy(Kernel, t, o)
                 [] OTHER -> Done(Kernel, t))

\* The pager was asked for the page, and has not answered.
Requested(p) == p.tabled /\ p.busy /\ p.absent

\* vm_object_destroy has unlocked the object before it calls vm_object_abort_activity:
\* each store and each wakeup is a step of its own, also while another thread has
\* the object locked and is about to sleep until one of the events evs that the
\* step brings about.  That thread may miss the wakeup.
Unlocked(K, evs) ==
    [K EXCEPT !.th = [s \in All |-> IF s \in Holders(K) /\ K.th[s].ev \in evs
                                    THEN [K.th[s] EXCEPT !.raced = TRUE] ELSE K.th[s]]]

\* A page is looked at; one that is paged in will be freed.
vm_object_abort_activity(t) ==
    /\ At(t, "abort")
    /\ LET o == th[t].o
       IN \/ \E i \in th[t].left :
                LET p == page[o][i]
                    N == [Kernel EXCEPT !.th[t].left = @ \ {i}]
                    I == [N EXCEPT !.th[t].i = i]
                IN Does(IF ~p.tabled THEN N
                        ELSE IF p.busy /\ p.absent THEN Goto(I, t, "abort_free")
                        ELSE Goto(Unlocked([I EXCEPT !.page[o][i].unlock_request = FALSE],
                                           {<<"page", o, i>>}), t, "abort_wakeup"))
          \/ /\ th[t].left = {}
             /\ Does(Goto(Unlocked([Kernel EXCEPT !.obj[o].pager_ready = TRUE],
                                   {<<"PAGER_READY", o>>}), t, "abort_ready"))

AbortFrees(t) ==
    /\ At(t, "abort_free")
    /\ LET o == th[t].o
           i == th[t].i
           U == Unlocked(Kernel, {<<"page", o, i>>, <<"ABSENT_COUNT", o>>})
       IN Does(IF Requested(page[o][i])
               THEN [vm_page_free(U, o, i) EXCEPT !.th[t].i = Null, !.th[t].pc = "abort"]
               ELSE Panic(Kernel, "vm_object_abort_activity: page changed"))

AbortWakes(t) ==
    LET o == th[t].o
        i == th[t].i
    IN \/ /\ At(t, "abort_wakeup")
          /\ Does([PAGE_WAKEUP(Unlocked(Kernel, {<<"page", o, i>>}), o, i) EXCEPT
                       !.th[t].i = Null, !.th[t].pc = "abort"])
       \/ /\ At(t, "abort_ready")
          /\ LET U == Unlocked(Kernel, {<<"PAGER_READY", o>>})
             IN Does(Deallocate(vm_object_wakeup(U, o, "PAGER_READY"), t))

-----------------------------------------------------------------------------
(* The pager's calls.  The request port gives a reference to the object.   *)

vm_object_lookup(t) ==
    /\ Begins(t)
    /\ \E o \in Objects, c \in Calls :
        /\ obj[o].pager_request
        /\ Becomes([Reference(Kernel, o) EXCEPT !.th[t].o = o, !.th[t].op = c,
                                                !.th[t].pc = c.call])

\* The call is over, but for its references.
Paged(K, t, o) == Deallocate(vm_object_paging_end(K, o), t)

\* The page asked for, or one not asked for, is put in its place.
SupplyPage(K, t) ==
    LET o == K.th[t].o
        c == K.th[t].op
        p == K.page[o][c.i]
        F == IF p.tabled THEN vm_page_free(K, o, c.i) ELSE K
    IN IF p.busy /\ ~p.absent THEN PAGE_ASSERT_WAIT(K, t, o, c.i, "supply_page")
       ELSE IF p.tabled /\ ~p.busy THEN Paged(K, t, o)
       ELSE Paged([F EXCEPT !.page[o][c.i] = [RealPage EXCEPT
                      !.busy = FALSE, !.page_lock = c.lock, !.queued = TRUE]], t, o)

memory_object_data_supply(t) ==
    \/ /\ At(t, "data_supply")
       /\ Does(SupplyPage(vm_object_paging_begin(Kernel, th[t].o), t))
    \/ At(t, "supply_page") /\ Does(SupplyPage(Kernel, t))

memory_object_data_error(t) ==
    /\ At(t, "data_error")
    /\ LET o == th[t].o
           i == th[t].op.i
           E == [Kernel EXCEPT !.page[o][i].error = TRUE, !.page[o][i].absent = FALSE]
       IN Does(Deallocate(IF Requested(page[o][i])
               THEN RELEASE_PAGE(vm_object_absent_release(E, o), o, i) ELSE Kernel, t))

memory_object_data_unavailable(t) ==
    /\ At(t, "data_unavailable")
    /\ LET o == th[t].o
           i == th[t].op.i
       IN Does(Deallocate(IF Requested(page[o][i])
               THEN RELEASE_PAGE(Kernel, o, i) ELSE Kernel, t))

\* Mutant: a page is cleaned with its mappings in place.
LockPage_StaysMapped(K, t) ==
    LET o == K.th[t].o
        c == K.th[t].op
        p == K.page[o][c.i]
    IN IF p.tabled /\ ~p.absent /\ ~p.busy /\ p.dirty
       THEN [K EXCEPT !.page[o][c.i].queued = FALSE, !.page[o][c.i].busy = TRUE,
                      !.th[t].pc = "copy"]
       ELSE Paged(K, t, o)

\* memory_object_lock_page for the one page of the request: access is taken
\* away, then the page is cleaned, flushed, or left.
LockPage(K, t) ==
    LET o == K.th[t].o
        c == K.th[t].op
        p == K.page[o][c.i]
        L == IF c.prot = "same" /\ ~c.flush THEN K
             ELSE PAGE_WAKEUP([K EXCEPT
                     !.page[o][c.i].page_lock = c.flush \/ c.prot = "write",
                     !.page[o][c.i].mapped = @ /\ ~c.flush /\ c.prot # "write",
                     !.page[o][c.i].unlock_request = FALSE], o, c.i)
        B == [L EXCEPT !.page[o][c.i].queued = FALSE, !.page[o][c.i].mapped = FALSE,
                       !.page[o][c.i].busy = TRUE]
    IN IF ~p.tabled \/ p.absent THEN Paged(K, t, o)
       ELSE IF p.busy THEN PAGE_ASSERT_WAIT(K, t, o, c.i, "lock_page")
       ELSE IF p.fictitious THEN Panic(K, "memory_object_lock_page: fictitious")
       ELSE IF c.return /\ p.dirty
            THEN IF c.flush THEN vm_pageout_setup(B, t, o, c.i, "deallocate")
                 ELSE Goto(B, t, "copy")
       ELSE IF c.flush THEN Paged(vm_page_free(Discard(L, o, c.i), o, c.i), t, o)
       ELSE IF c.return THEN Paged(Queue(L, o, c.i), t, o)
       ELSE Paged(L, t, o)

memory_object_lock_request(t) ==
    \/ /\ At(t, "lock_request")
       /\ Does(LockPage(vm_object_paging_begin(Kernel, th[t].o), t))
    \/ At(t, "lock_page") /\ Does(LockPage(Kernel, t))

\* vm_pageout_setup of a page that stays: the copy is made without the lock,
\* then the page is clean.  Without memory for the copy it is flushed.
Setup_Copies(t) ==
    /\ At(t, "copy")
    /\ LET o == th[t].o
           i == th[t].op.i
       IN \/ Does(Goto(Discard(Kernel, o, i), t, "clean"))
          \/ Does(vm_pageout_setup(Kernel, t, o, i, "deallocate"))

Setup_Cleans(t) ==
    /\ At(t, "clean")
    /\ LET o == th[t].o
           i == th[t].op.i
           C == [Kernel EXCEPT !.page[o][i].dirty = FALSE, !.th[t].i = Null,
                               !.th[t].pager = obj[o].pager, !.th[t].then = "deallocate"]
       IN Does(Goto(RELEASE_PAGE(C, o, i), t, "data_return"))

\* Mutant: the attribute is set, then the waiters are looked for.
memory_object_set_attributes_common_SetsFirst(t) ==
    /\ At(t, "set_attributes")
    /\ LET o == th[t].o
           S == [Kernel EXCEPT !.obj[o].can_persist = th[t].op.may_cache,
                               !.obj[o].pager_ready = th[t].op.ready]
       IN Does(Deallocate(IF th[t].op.ready /\ ~S.obj[o].pager_ready
                          THEN vm_object_wakeup(S, o, "PAGER_READY") ELSE S, t))

\* Whoever waits for the pager to be ready goes on when it is.
memory_object_set_attributes_common(t) ==
    /\ At(t, "set_attributes")
    /\ LET o == th[t].o
           c == th[t].op
           W == IF c.ready /\ ~obj[o].pager_ready
                THEN vm_object_wakeup(Kernel, o, "PAGER_READY") ELSE Kernel
       IN Does(Deallocate([W EXCEPT !.obj[o].can_persist = c.may_cache,
                                    !.obj[o].pager_ready = c.ready], t))

\* The pager gives up the object, whatever still maps it.
memory_object_destroy(t) ==
    /\ At(t, "destroy")
    /\ LET o == th[t].o
           R == vm_object_remove([Kernel EXCEPT !.obj[o].can_persist = FALSE], o)
       IN Does([R EXCEPT !.obj[o].pager = FALSE, !.th[t].pager = obj[o].pager,
                         !.th[t].pc = "destroy_wait"])

\* Requests that may hold the ports are waited for.
Destroy_Waits(t) ==
    /\ At(t, "destroy_wait")
    /\ LET o == th[t].o
       IN Does(IF obj[o].paging_in_progress # 0
               THEN vm_object_assert_wait(Kernel, t, o, "PAGING_IN_PROGRESS", "destroy_wait")
               ELSE IF th[t].pager
               THEN [Kernel EXCEPT !.th[t].then = "deallocate", !.th[t].pc = "release"]
               ELSE Deallocate(Kernel, t))

-----------------------------------------------------------------------------
(* vm_fault and vm_fault_page.                                             *)

\* The entry is found; the object is referenced and kept from terminating.
FaultBegins(K, t, c) ==
    [vm_object_paging_begin(K, c.o) EXCEPT
        !.obj[c.o].ref_count = @ + 1,
        !.th[t] = [Idle EXCEPT !.pc = "fault_page", !.o = c.o, !.i = c.i, !.op = c]]

vm_fault(t) ==
    /\ Begins(t)
    /\ \E o \in Objects, i \in Offsets, w \in Writes :
        /\ maps[o] > 0
        /\ Becomes(FaultBegins(Kernel, t, [call |-> "fault", o |-> o, i |-> i, write |-> w]))

RetryFault(t) ==
    /\ At(t, "retry")
    /\ Does(IF maps[th[t].op.o] > 0 THEN FaultBegins(Kernel, t, th[t].op)
            ELSE [Kernel EXCEPT !.th[t] = Idle])

\* vm_fault_cleanup, and the end of vm_fault_page: FALSE, or with a retry.
Cleanup(K, t, again) ==
    LastStep(vm_object_paging_end(K, K.th[t].o), t, again)

\* block_and_backoff: the thread waits with no paging reference.
Backoff(K, t) == vm_object_paging_end(K, K.th[t].o)

\* vm_fault_page looks at the page.
FaultAt(t) == At(t, "fault_page") /\ th[t].awakened
Page(t) == page[th[t].o][th[t].i]

FaultInterrupted(t) ==
    /\ At(t, "fault_page") /\ ~th[t].awakened
    /\ Does(Cleanup(Kernel, t, FALSE))

FaultBusy(t) ==
    /\ FaultAt(t) /\ Page(t).busy
    /\ Does(PAGE_ASSERT_WAIT(Kernel, t, th[t].o, th[t].i, "fault_page"))

FaultError(t) ==
    /\ FaultAt(t) /\ ~Page(t).busy /\ Page(t).error
    /\ Does(Cleanup(vm_page_free(Kernel, th[t].o, th[t].i), t, FALSE))

\* The pager has no data: a page of zeros, if there is a page to be had.
FaultAbsent(t) ==
    /\ FaultAt(t) /\ ~Page(t).busy /\ Page(t).absent
    /\ LET o == th[t].o
           i == th[t].i
       IN \/ Does(Cleanup(Kernel, t, TRUE))
          \/ Does([vm_page_free(Kernel, o, i) EXCEPT !.page[o][i] = RealPage,
                                                     !.th[t].pc = "found"])

LockedOut(t) == th[t].op.write /\ Page(t).page_lock
Resident(t) == LET p == Page(t) IN p.tabled /\ ~p.busy /\ ~p.error /\ ~p.absent

\* The pager forbids the access: it is asked once to allow it.
FaultLocked(t) ==
    /\ FaultAt(t) /\ Resident(t) /\ LockedOut(t)
    /\ LET o == th[t].o
           i == th[t].i
       IN Does(IF Page(t).unlock_request
               THEN PAGE_ASSERT_WAIT(Backoff(Kernel, t), t, o, i, "backoff")
               ELSE IF ~obj[o].pager_ready
               THEN vm_object_assert_wait(Backoff(Kernel, t), t, o, "PAGER_READY", "backoff")
               ELSE [Kernel EXCEPT !.page[o][i].unlock_request = TRUE,
                                   !.th[t].pager = obj[o].pager, !.th[t].pc = "data_unlock"])

memory_object_data_unlock(t) ==
    /\ At(t, "data_unlock")
    /\ \/ Sent(Kernel, t) /\ Does(Goto(Send(Kernel), t, "fault_page"))
       \/ NotSent(Kernel, t) /\ Does(Cleanup(Kernel, t, FALSE))

FaultFound(t) ==
    /\ FaultAt(t) /\ Resident(t) /\ ~LockedOut(t)
    /\ Does([Kernel EXCEPT !.page[th[t].o][th[t].i].busy = TRUE, !.th[t].pc = "found"])

\* No page: the pager is asked for it, if it is ready and has not too many
\* requests already.
FaultMissing(t) ==
    /\ FaultAt(t) /\ ~Page(t).tabled
    /\ LET o == th[t].o
           i == th[t].i
       IN \/ Does(Cleanup(Kernel, t, TRUE))
          \/ Does(IF ~obj[o].pager_ready
                  THEN vm_object_assert_wait(Backoff(Kernel, t), t, o, "PAGER_READY", "backoff")
                  ELSE IF obj[o].absent_count > vm_object_absent_max
                  THEN vm_object_assert_wait(Backoff(Kernel, t), t, o, "ABSENT_COUNT", "backoff")
                  ELSE [Kernel EXCEPT
                          !.page[o][i] = [FictitiousPage EXCEPT !.absent = TRUE, !.by = t],
                          !.obj[o].absent_count = @ + 1,
                          !.th[t].pager = obj[o].pager, !.th[t].pc = "data_request"])

\* A request that cannot be sent takes its page back, if it is still there;
\* another request's page may be in the same structure.
memory_object_data_request(t) ==
    /\ At(t, "data_request")
    /\ LET o == th[t].o
           i == th[t].i
           F == Cleanup(vm_page_free(Kernel, o, i), t, FALSE)
       IN \/ Sent(Kernel, t) /\ Does(Goto(Send(Kernel), t, "fault_page"))
          \/ NotSent(Kernel, t) /\ Requested(Page(t)) /\ Does(F)
          \/ /\ NotSent(Kernel, t)
             /\ Requested(Page(t)) => Page(t).by # t
             /\ Does(Cleanup(Kernel, t, FALSE))

\* Mutant: the mapping is entered with all the entry allows.
FaultEnds_IgnoresLock(t) ==
    /\ At(t, "found")
    /\ LET R == RELEASE_PAGE(Kernel, th[t].o, th[t].i)
       IN /\ maps[th[t].o] > 0
          /\ Does(Cleanup([R EXCEPT !.page[th[t].o][th[t].i].mapped = TRUE], t, FALSE))

\* The page is busy and the map is looked at again: the mapping is entered,
\* with what the pager allows, or the entry has changed.  The map stays
\* locked until the page is released.
FaultEnds(t) ==
    /\ At(t, "found")
    /\ LET o == th[t].o
           i == th[t].i
           R == RELEASE_PAGE(Kernel, o, i)
       IN \/ /\ maps[o] > 0
             /\ Does(Cleanup([R EXCEPT !.page[o][i].mapped = @ \/ ~Page(t).page_lock],
                             t, FALSE))
          \/ \E again \in BOOLEAN : Does(Cleanup(R, t, again))

\* After block_and_backoff.
FaultAwakes(t) ==
    /\ At(t, "backoff")
    /\ Does(LastStep(Kernel, t, th[t].awakened))

\* thread_abort of a wait that can be interrupted
thread_abort(t) ==
    /\ Aborts /\ th[t].pc \in {"fault_page", "backoff"} /\ th[t].wait = "asserted"
    /\ Does([Kernel EXCEPT !.th[t] = Awake(@, FALSE)])

\* A user writes to a page through its mapping.
UserWrites ==
    \E o \in Objects, i \in Offsets :
        /\ page[o][i].mapped
        /\ Does([Kernel EXCEPT !.page[o][i].dirty = TRUE, !.page[o][i].unsaved = TRUE])

-----------------------------------------------------------------------------
NewPort == [kotype |-> "NONE", kobject |-> Null, active |-> TRUE, wanted |-> FALSE]

\* An object that is mapped once, and whose pager has said it is ready.
ReadyObject == [vm_object_template EXCEPT !.pager_created = TRUE, !.pager = TRUE,
                    !.pager_request = TRUE, !.pager_initialized = TRUE,
                    !.pager_ready = TRUE]

\* One object is mapped; when it is unmapped there is none.
Init ==
    /\ \E q \in Objects :
        /\ obj = [o \in Objects |-> IF o = q THEN ReadyObject ELSE NoObject]
        /\ port = [NewPort EXCEPT !.kotype = "PAGER", !.kobject = q]
        /\ maps = [o \in Objects |-> IF o = q THEN 1 ELSE 0]
    /\ page = [o \in Objects |-> [i \in Offsets |-> NoPage]]
    /\ th = [t \in All |-> Idle]
    /\ cached = <<>> /\ opened = 1
    /\ late = FALSE /\ lost = FALSE /\ failed = {} /\ calls = 0

\* What threads do that take the lock of the object, or need none.
Locking ==
    \/ \E t \in Threads :
        \/ vm_map(t) \/ EnterWaits(t) \/ EnterAllocates(t) \/ EnterSets(t)
        \/ EnterFinds(t) \/ EnterInits(t) \/ EnterInited(t) \/ EnterEnds(t)
        \/ vm_deallocate(t) \/ vm_object_deallocate(t) \/ vm_object_cache_trim(t)
        \/ Terminate_Waits(t) \/ Terminate_Page(t) \/ Terminate_Ends(t)
        \/ memory_object_release(t) \/ ipc_port_destroy(t) \/ ipc_kobject_destroy(t)
        \/ vm_object_lookup(t) \/ memory_object_data_supply(t)
        \/ memory_object_data_error(t) \/ memory_object_data_unavailable(t)
        \/ memory_object_lock_request(t) \/ Setup_Copies(t) \/ Setup_Cleans(t)
        \/ memory_object_set_attributes_common(t)
        \/ memory_object_destroy(t) \/ Destroy_Waits(t)
        \/ vm_fault(t) \/ RetryFault(t) \/ FaultInterrupted(t) \/ FaultBusy(t)
        \/ FaultError(t) \/ FaultAbsent(t) \/ FaultLocked(t)
        \/ memory_object_data_unlock(t) \/ FaultFound(t) \/ FaultMissing(t)
        \/ memory_object_data_request(t) \/ FaultEnds(t) \/ FaultAwakes(t)
        \/ thread_abort(t)
    \/ \E t \in All : memory_object_data_return(t)
    \/ vm_pageout_scan
    \/ UserWrites

\* The kernel stops at a panic.  While a thread has an object locked, on its way
\* to sleep, the others that need the lock wait; what the rest do might as well
\* come before.
Next ==
    /\ failed = {}
    /\ \/ \E t \in Threads :
           \/ assert_wait(t) \/ vm_object_abort_activity(t) \/ AbortFrees(t) \/ AbortWakes(t)
       \/ Holders(Kernel) = {} /\ Locking

Spec == Init /\ [][Next]_vars

-----------------------------------------------------------------------------
(* Properties.                                                             *)

\* Threads with a reference to o, and with a paging reference.
Referring(o) == {t \in All :
    /\ th[t].o = o
    /\ \/ th[t].pc \notin {"data_return", "release", "released", "terminate", "trim"}
       \/ th[t].pc \in {"data_return", "release", "released"} /\ th[t].then = "deallocate"}
Paging(o) == {t \in All : th[t].o = o /\ th[t].pc \in
    {"fault_page", "data_request", "data_unlock", "found", "supply_page",
     "lock_page", "copy", "clean", "data_return"}}
Terminating(o) == {t \in All :
    /\ th[t].o = o
    /\ \/ th[t].pc = "terminate"
       \/ th[t].pc = "data_return" /\ th[t].then = "terminate"
       \/ th[t].pc \in {"release", "released"} /\ th[t].then = "free"}

\* The reference count of an object is the number of its mappings and of the
\* threads that work on it, paging_in_progress and absent_count are exact, an
\* object nobody refers to is in the cache or has one thread that terminates
\* it, and nothing refers to an object that is freed.
CountsExact ==
    \A o \in Objects :
        LET b == obj[o]
        IN /\ b.pager_created =>
                /\ b.ref_count = maps[o] + Cardinality(Referring(o))
                /\ b.paging_in_progress = Cardinality(Paging(o))
                /\ b.absent_count = Cardinality({i \in Offsets : page[o][i].absent})
                /\ (b.alive /\ b.ref_count = 0) <=> o \in Range(cached)
                /\ Cardinality(Terminating(o)) = IF b.alive THEN 0 ELSE 1
           /\ ~b.allocated =>
                /\ maps[o] = 0 /\ Referring(o) \cup Paging(o) \cup Terminating(o) = {}
                /\ \A i \in Offsets : ~page[o][i].tabled

\* The thread that has made page i of o busy, to map it or to send it.
Owners(o, i) == {t \in All : th[t].o = o /\
    \/ th[t].pc \in {"found", "data_return"} /\ th[t].i = i
    \/ th[t].pc \in {"copy", "clean"} /\ th[t].op.i = i}

\* A thread is at the walk of vm_object_abort_activity.
Aborting == \E t \in Threads :
    th[t].pc \in {"abort", "abort_free", "abort_wakeup", "abort_ready"}

\* No wakeup is missed: what a sleeping thread waits for has not happened, and
\* who makes it happen will see that it is wanted.  A busy page is one that
\* the pager was asked for, or one thread will release it.  When the pager's
\* port dies, whoever waits for a page or for the pager is let go before
\* vm_object_destroy ends.  There are two exceptions, both after that death:
\* a thread that vm_object_abort_activity, called without the object's lock,
\* overtakes between its test and its wait (raced), and one that waits in
\* vm_object_enter, where a dead port stays IKOT_PAGER_TERMINATING for good.
NoLostWakeup ==
    /\ \A t \in All : th[t].wait = "asserted" /\ ~th[t].raced =>
        CASE th[t].ev[1] = "page" ->
                LET p == page[th[t].ev[2]][th[t].ev[3]]
                IN p.wanted /\ (p.busy \/ p.unlock_request \/ Aborting)
          [] th[t].ev[1] = "pager" ->
                /\ port.kotype = "TERMINATING" /\ port.wanted
                /\ port.active => \E s \in Threads :
                       \/ th[s].pc \in {"destroy_wait", "release", "released"}
                       \/ \E o \in Objects : s \in Terminating(o)
          [] OTHER ->
                LET b == obj[th[t].ev[2]]
                IN /\ th[t].ev[1] \in b.all_wanted
                   /\ CASE th[t].ev[1] = "INITIALIZED" -> ~b.pager_initialized
                        [] th[t].ev[1] = "PAGER_READY" -> ~b.pager_ready \/ Aborting
                        [] th[t].ev[1] = "PAGING_IN_PROGRESS" -> b.paging_in_progress # 0
                        [] OTHER -> b.absent_count > vm_object_absent_max
    /\ \A t \in All : th[t].raced => ~port.active
    /\ \A t \in All : th[t].orphan => Aborting
    /\ \A o \in Objects, i \in Offsets :
        LET p == page[o][i]
        IN Cardinality(Owners(o, i)) = IF p.busy /\ ~p.absent THEN 1 ELSE 0

\* The pager sees the object opened and closed by turns, and gets no request
\* and no data for it after it was closed.
PagerSeesOneLife == opened \in 0..1 /\ ~late

\* What a user has written goes to the pager, unless the pager has given up
\* the object or ordered the page to be dropped.
NoWriteLost ==
    /\ ~lost
    /\ \A o \in Objects, i \in Offsets : page[o][i].unsaved => page[o][i].dirty

\* No user can write to a page that the pager has locked against writing,
\* however the lock came to be there: with the data or by a lock_request that
\* met a fault.
PagerLockKept ==
    \A o \in Objects, i \in Offsets : page[o][i].page_lock => ~page[o][i].mapped

\* A page that nobody works on is where the pageout daemon finds it, although
\* the daemon drops the busy pages it comes across from its queues.
PageReachable ==
    \A o \in Objects, i \in Offsets :
        page[o][i].tabled /\ ~page[o][i].busy /\ obj[o].alive => page[o][i].queued

\* The assertions and panics of the code that the model has are not met, but for
\* two groups.  When the pager's port dies: a mapping under way, an object that is
\* terminated before vm_object_destroy has run, and a page that changes under
\* vm_object_abort_activity.  And for the page that memory_object_data_error leaves,
\* which is fictitious and neither busy nor absent: the pageout daemon, a
\* lock_request or the end of the object may come across it before a fault does.
NoOtherPanic ==
    LET Death == {"vm_object_enter: object gone", "vm_object_enter: port died",
                  "vm_object_destroy: object->pager == pager", "ipc_kobject_set: port is dead",
                  "vm_object_abort_activity: page changed"}
        ErrorPage == {"vm_pageout_scan: fictitious", "memory_object_lock_page: fictitious",
                      "vm_object_terminate.4"}
    IN /\ failed \subseteq Death \cup ErrorPage
       /\ failed \cap Death # {} => ~port.active
       /\ failed \cap ErrorPage # {} => \E o \in Objects, i \in Offsets :
              LET p == page[o][i] IN p.fictitious /\ p.error /\ ~p.busy /\ ~p.absent
=============================================================================
