------------------------------ MODULE SchedPrim ------------------------------
(***************************************************************************)
(* Threads, event waits and processors: kern/sched_prim.c, with the        *)
(* suspension routines of kern/thread.c, the timeouts of kern/mach_clock.c *)
(* and kern/ipc_sched.c, and the stack swapper of kern/thread_swap.c, for  *)
(* NCPUS > 1.                                                              *)
(*                                                                         *)
(* One action is one section under the thread lock (or the wait queue, run *)
(* queue or idle lock).  clear_wait takes the thread lock twice, a context *)
(* switch is the sections thread_select, thread_invoke, thread_dispatch    *)
(* and perhaps a wakeup: between them other processors change the threads. *)
(*                                                                         *)
(* A thread is on a wait queue exactly while its wait_event is not NULL,   *)
(* so the queues are not variables.  The event &u->wake_active is written  *)
(* u.  Priorities are left out: a run queue is a set.  So is wait_result,  *)
(* which decides nothing in these routines.                                *)
(***************************************************************************)
EXTENDS Integers, FiniteSets

CONSTANTS
    Threads, Processors,
    master,         \* master_processor, which runs softclock
    Events,         \* the events threads sleep on
    Null,           \* THREAD_NULL, PROCESSOR_NULL, event 0; as a running
                    \* thread, the idle thread of the processor
    BoundTo,        \* thread->bound_processor
    Continuations,  \* {TRUE}, {FALSE} or both: does thread_block discard stacks?
    MaxStops        \* bound: user_stop_count

ASSUME SchedAssumption ==
    /\ Null \notin Threads \cup Processors \cup Events
    /\ Threads \cap Events = {}
    /\ master \in Processors
    /\ BoundTo \in [Threads -> Processors \cup {Null}]
    /\ Continuations \subseteq BOOLEAN
    /\ MaxStops \in Nat
    /\ "pset" \notin Processors \cup {Null}

VARIABLES
    state,          \* subset of the bits of thread->state
    wait_event,     \* a thread is on a wait queue while this is not Null
    timer,          \* thread->timer is set
    late,           \* history: the threads thread_go left on a wait queue
    ipcq,           \* the threads on a queue of IPC threads
    owed,           \* those taken off it, before the call of thread_go
    clearing,       \* clear_wait between its two locks, or about to start
    suspend_count, user_stop_count, wake_active,
    dowaiting,      \* the thread that t waits for in thread_dowait
    runq,           \* thread->runq: Null, "pset" or a processor
    pstate, next_thread,        \* processor->state, processor->next_thread
    cur,            \* active_threads
    sel, old,       \* new_thread and old_thread of a context switch
    ppc,            \* where the processor is: see Stages
    swapped, swapin \* threads without a kernel stack; the swapin_queue

waitvars == <<wait_event, timer, late>>
ipcvars == <<ipcq, owed>>
suspvars == <<suspend_count, user_stop_count, wake_active, dowaiting>>
dispvars == <<runq, pstate, next_thread>>
cpuvars == <<cur, sel, old, ppc>>
swapvars == <<swapped, swapin>>
vars == <<state, waitvars, ipcvars, clearing, suspvars, dispvars, cpuvars, swapvars>>

Bits == {"RUN", "WAIT", "SUSP", "UNINT", "HALTED"}
WaitEvents == Events \cup Threads \cup {Null}
\* The callers of clear_wait that race with the thread and each other:
\* thread_timeout, called by softclock, and thread_halt, which spares a thread
\* that waits uninterruptibly.
Clearers == {"softclock", "halt"}
NoCall == [stage |-> "none", thread |-> Null, event |-> Null]

Sched(s) == s \cap {"RUN", "WAIT", "SUSP", "UNINT"}     \* TH_SCHED_STATE

\* The thread of a processor runs ("run"), has asserted a wait, or is about to
\* call thread_block; or the processor is inside thread_block; or it has
\* stopped thread old and is about to wake those who wait for that.
Stages == {"run", "asserted", "block", "select", "setidle", "invoke",
           "dispatch", "wakeup"}
\* softclock interrupts what its processor is doing.
Interrupted(p) == p = master /\ clearing["softclock"] # NoCall
At(t, stage) == \E p \in Processors :
    cur[p] = t /\ ppc[p] = stage /\ ~Interrupted(p)
Goto(t, stage) ==
    ppc' = [p \in Processors |-> IF cur[p] = t THEN stage ELSE ppc[p]]
\* t is in thread_dowait, or back from thread_block in the IPC system, and has
\* not looked yet at what has happened.
Engaged(t) == dowaiting[t] # Null \/ t \in ipcq
\* t runs and is free to make a call.
Free(t) == At(t, "run") /\ ~Engaged(t)

\* The threads are on the run queues, and the idle thread of each processor
\* makes its first call of thread_block.
Init ==
    /\ state = [t \in Threads |-> {"RUN"}]
    /\ wait_event = [t \in Threads |-> Null]
    /\ timer = [t \in Threads |-> FALSE]
    /\ ipcq = {} /\ owed = {} /\ late = {}
    /\ clearing = [c \in Clearers |-> NoCall]
    /\ suspend_count = [t \in Threads |-> 0]
    /\ user_stop_count = [t \in Threads |-> 0]
    /\ wake_active = [t \in Threads |-> FALSE]
    /\ dowaiting = [t \in Threads |-> Null]
    /\ runq = [t \in Threads |-> IF BoundTo[t] = Null THEN "pset" ELSE BoundTo[t]]
    /\ pstate = [p \in Processors |-> "RUNNING"]
    /\ next_thread = [p \in Processors |-> Null]
    /\ cur = [p \in Processors |-> Null]
    /\ sel = [p \in Processors |-> Null]
    /\ old = [p \in Processors |-> Null]
    /\ ppc = [p \in Processors |-> "select"]
    /\ swapped = {} /\ swapin = {}

-----------------------------------------------------------------------------
(* Making threads runnable *)

IdleProcessors == {p \in Processors : pstate[p] = "IDLE"}

RunsOn_AnyProcessor(t, p) == TRUE
RunsOn(t, p) == BoundTo[t] \in {Null, p}

\* thread_setrun for each thread of T: the threads of D go to the idle
\* processors f, the others onto the run queue of their processor or of the
\* processor set, because no idle processor is left for them.
SetrunTo(T, rq, D, f) == LET taken == {f[t] : t \in D} IN
    /\ \A t, u \in D : f[t] = f[u] => t = u
    /\ \A t \in D : RunsOn(t, f[t])
    /\ \A t \in T \ D : IF BoundTo[t] = Null
                        THEN IdleProcessors \subseteq taken
                        ELSE BoundTo[t] \notin IdleProcessors \ taken
    /\ runq' = [t \in Threads |->
                  IF t \notin T \ D THEN rq[t]
                  ELSE IF BoundTo[t] = Null THEN "pset" ELSE BoundTo[t]]
    /\ pstate' = [p \in Processors |->
                  IF p \in taken THEN "DISPATCHING" ELSE pstate[p]]
    /\ next_thread' = [p \in Processors |->
                  IF p \in taken THEN CHOOSE t \in D : f[t] = p
                                 ELSE next_thread[p]]

\* The threads of T are on no run queue of rq.
thread_setrun(T, rq) ==
    \E D \in SUBSET T : \E f \in [D -> IdleProcessors] : SetrunTo(T, rq, D, f)

\* Mutants of Asleep: threads that run, or are suspended, are woken too.
Asleep_Running(s) == "SUSP" \in s => "UNINT" \in s
Asleep_Suspended(s) == "RUN" \notin s

\* Waiting, off the processor, and not to be stopped by a suspension.
Asleep(s) == "RUN" \notin s /\ ("SUSP" \in s => "UNINT" \in s)

\* Mutant: the timer stays set.
Awaken_KeepsTimer(T, st, rq) ==
    /\ state' = [t \in Threads |->
          IF t \notin T THEN st[t]
          ELSE (st[t] \ {"WAIT"}) \cup (IF Asleep(st[t]) THEN {"RUN"} ELSE {})]
    /\ timer' = timer
    /\ thread_setrun({t \in T : Asleep(st[t])}, rq)

\* The switch shared by clear_wait, thread_wakeup_prim and thread_go, and the
\* reset of the timer before it, for the threads of T, which wait, from the
\* states st and run queues rq.
Awaken(T, st, rq) ==
    /\ state' = [t \in Threads |->
          IF t \notin T THEN st[t]
          ELSE (st[t] \ {"WAIT"}) \cup (IF Asleep(st[t]) THEN {"RUN"} ELSE {})]
    /\ timer' = [t \in Threads |-> timer[t] /\ t \notin T]
    /\ thread_setrun({t \in T : Asleep(st[t])}, rq)

\* End the waits of the threads of T, which leave the wait queues.
EndWait(T, st, rq) ==
    /\ Awaken(T, st, rq)
    /\ wait_event' = [t \in Threads |-> IF t \in T THEN Null ELSE wait_event[t]]
    /\ late' = late \ T

Sleepers(e) == {t \in Threads : wait_event[t] = e}
\* thread_wakeup_prim panics when a thread of the wait queue does not wait.  A
\* panic stops the system, and is no step here.
AllWait(T) == \A t \in T : "WAIT" \in state[t]

thread_wakeup(e) ==
    /\ Sleepers(e) # {} /\ AllWait(Sleepers(e))
    /\ EndWait(Sleepers(e), state, runq)
    /\ UNCHANGED <<ipcvars, clearing, suspvars, cpuvars, swapvars>>

thread_wakeup_one(e) == \E t \in Sleepers(e) :
    /\ AllWait({t})
    /\ EndWait({t}, state, runq)
    /\ UNCHANGED <<ipcvars, clearing, suspvars, cpuvars, swapvars>>

-----------------------------------------------------------------------------
(* Waiting *)

\* The caller next calls thread_set_timeout or thread_block.  Panics when the
\* thread has an event already.
assert_wait(t, e, interruptible) ==
    /\ Free(t) /\ wait_event[t] = Null
    /\ wait_event' = [wait_event EXCEPT ![t] = e]
    /\ state' = [state EXCEPT ![t] =
                   @ \cup {"WAIT"} \cup (IF interruptible THEN {} ELSE {"UNINT"})]
    /\ Goto(t, "asserted")
    /\ UNCHANGED <<timer, late, ipcvars, clearing, suspvars, dispvars,
                   cur, sel, old, swapvars>>

\* thread_will_wait, or thread_will_wait_with_timeout: the thread has put
\* itself on a queue of IPC threads.
thread_will_wait(t, timeout) ==
    /\ Free(t)
    /\ state' = [state EXCEPT ![t] = @ \cup {"WAIT"}]
    /\ timer' = [timer EXCEPT ![t] = timeout]
    /\ ipcq' = ipcq \cup {t}
    /\ Goto(t, "block")
    /\ UNCHANGED <<wait_event, owed, late, clearing, suspvars, dispvars,
                   cur, sel, old, swapvars>>

\* A sender or receiver takes t off the queue (bound: one call of thread_go is
\* owed to a thread at a time).
ipc_thread_rmqueue_first(t) ==
    /\ t \in ipcq /\ t \notin owed
    /\ ipcq' = ipcq \ {t} /\ owed' = owed \cup {t}
    /\ UNCHANGED <<state, waitvars, clearing, suspvars, dispvars,
                   cpuvars, swapvars>>

\* Back from thread_block, t finds that it is still queued.
ipc_thread_rmqueue(t) ==
    /\ At(t, "run") /\ t \in ipcq
    /\ ipcq' = ipcq \ {t}
    /\ UNCHANGED <<state, waitvars, owed, clearing, suspvars, dispvars,
                   cpuvars, swapvars>>

\* The timer is set if the wait has not already ended.
thread_set_timeout(t) ==
    /\ At(t, "asserted")
    /\ timer' = [timer EXCEPT ![t] = "WAIT" \in state[t]]
    /\ Goto(t, "block")
    /\ UNCHANGED <<state, wait_event, late, ipcvars, clearing, suspvars, dispvars,
                   cur, sel, old, swapvars>>

\* softclock takes an expired element off the timer queue and unlocks it.
softclock(t) ==
    /\ timer[t] /\ clearing["softclock"] = NoCall
    /\ ppc[master] \in {"run", "asserted", "block"}
    /\ timer' = [timer EXCEPT ![t] = FALSE]
    /\ clearing' = [clearing EXCEPT !["softclock"] =
                      [stage |-> "call", thread |-> t, event |-> Null]]
    /\ UNCHANGED <<state, wait_event, late, ipcvars, suspvars, dispvars,
                   cpuvars, swapvars>>

\* A caller with interrupt_only, as in thread_halt(t), is about to call
\* clear_wait.
thread_halt_clears(t) ==
    /\ "WAIT" \in state[t] /\ clearing["halt"] = NoCall
    /\ clearing' = [clearing EXCEPT !["halt"] =
                      [stage |-> "call", thread |-> t, event |-> Null]]
    /\ UNCHANGED <<state, waitvars, ipcvars, suspvars, dispvars, cpuvars, swapvars>>

\* End the wait of t, if it waits; in any case it is on no wait queue.
EndWaitIfAny(t) ==
    IF "WAIT" \in state[t]
    THEN EndWait({t}, state, runq)
    ELSE /\ timer' = [timer EXCEPT ![t] = FALSE]
         /\ wait_event' = [wait_event EXCEPT ![t] = Null]
         /\ late' = late \ {t}
         /\ UNCHANGED <<state, dispvars>>

\* The IPC system starts t.  It looks at the state only: if the wait for which
\* it was called has ended, by a timeout, then what it ends is the next wait of
\* t, and when that is for an event then t stays on the wait queue.
thread_go(t) ==
    /\ t \in owed /\ owed' = owed \ {t}
    /\ IF "WAIT" \in state[t]
       THEN /\ Awaken({t}, state, runq)
            /\ late' = IF wait_event[t] # Null THEN late \cup {t} ELSE late
       ELSE /\ timer' = [timer EXCEPT ![t] = FALSE]
            /\ UNCHANGED <<state, late, dispvars>>
    /\ UNCHANGED <<wait_event, ipcq, clearing, suspvars, cpuvars, swapvars>>

\* First lock of clear_wait: spare an uninterruptible thread, note the event,
\* or end a wait without event.
clear_wait(c) == LET t == clearing[c].thread IN
    /\ clearing[c].stage = "call"
    /\ \/ /\ c = "halt" /\ "UNINT" \in state[t]
          /\ clearing' = [clearing EXCEPT ![c] = NoCall]
          /\ UNCHANGED <<state, waitvars, dispvars>>
       \/ /\ c = "halt" => "UNINT" \notin state[t]
          /\ wait_event[t] # Null
          /\ clearing' = [clearing EXCEPT ![c] =
                   [stage |-> "locked", thread |-> t, event |-> wait_event[t]]]
          /\ UNCHANGED <<state, waitvars, dispvars>>
       \/ /\ c = "halt" => "UNINT" \notin state[t]
          /\ wait_event[t] = Null
          /\ clearing' = [clearing EXCEPT ![c] = NoCall]
          /\ EndWaitIfAny(t)
    /\ UNCHANGED <<ipcvars, suspvars, cpuvars, swapvars>>

\* Second lock: if the thread waits for another event, or for none, then
\* "someone else did our job for us".
clear_wait_locked(c) == LET t == clearing[c].thread IN
    /\ clearing[c].stage = "locked"
    /\ clearing' = [clearing EXCEPT ![c] = NoCall]
    /\ IF wait_event[t] = clearing[c].event
       THEN EndWaitIfAny(t)
       ELSE UNCHANGED <<state, waitvars, dispvars>>
    /\ UNCHANGED <<ipcvars, suspvars, cpuvars, swapvars>>

-----------------------------------------------------------------------------
(* Context switches *)

LocalQueue(p) == {t \in Threads : runq[t] = p}
GlobalQueue == {t \in Threads : runq[t] = "pset"}
StaysRunnable(p) ==
    /\ cur[p] # Null
    /\ state[cur[p]] = {"RUN"} /\ RunsOn(cur[p], p)

Take(p, t) ==
    /\ runq' = [runq EXCEPT ![t] = Null]
    /\ sel' = [sel EXCEPT ![p] = t]
    /\ ppc' = [ppc EXCEPT ![p] = "invoke"]

\* The local run queue, then that of the processor set, then the current
\* thread, else idle.  Idle even if the current thread could stay, when
\* rem_runq empties the local queue between thread_select and choose_thread.
thread_select(p) ==
    /\ \/ \E t \in LocalQueue(p) : Take(p, t)
       \/ LocalQueue(p) = {} /\ \E t \in GlobalQueue : Take(p, t)
       \/ /\ LocalQueue(p) = {} /\ GlobalQueue = {} /\ StaysRunnable(p)
          /\ sel' = [sel EXCEPT ![p] = cur[p]]
          /\ ppc' = [ppc EXCEPT ![p] = "invoke"]
          /\ UNCHANGED runq
       \/ /\ LocalQueue(p) = {} /\ GlobalQueue = {}
          /\ ~StaysRunnable(p) \/ \E t \in Threads : BoundTo[t] = p
          /\ ppc' = [ppc EXCEPT ![p] = "setidle"]
          /\ UNCHANGED <<runq, sel>>
    /\ UNCHANGED <<state, waitvars, ipcvars, clearing, suspvars, pstate, next_thread,
                   cur, old, swapvars>>

\* The thread blocks, yields, or is preempted (not inside the kernel).
thread_block(p) ==
    /\ cur[p] # Null /\ ~Interrupted(p)
    /\ \/ ppc[p] \in {"asserted", "block"}
       \/ ppc[p] = "run" /\ ~Engaged(cur[p])
    /\ thread_select(p)

\* thread_invoke has failed, or the idle thread calls thread_block.
thread_select_again(p) == ppc[p] = "select" /\ thread_select(p)

\* The end of choose_pset_thread, under the idle lock: the run queue was
\* empty when its lock was released.
choose_pset_thread(p) ==
    /\ ppc[p] = "setidle"
    /\ pstate' = [pstate EXCEPT ![p] = IF @ = "RUNNING" THEN "IDLE" ELSE @]
    /\ sel' = [sel EXCEPT ![p] = Null]
    /\ ppc' = [ppc EXCEPT ![p] = "invoke"]
    /\ UNCHANGED <<state, waitvars, ipcvars, clearing, suspvars, runq, next_thread,
                   cur, old, swapvars>>

\* The thread that gets the processor becomes interruptible.
MarkInterruptible(t) ==
    state' = IF t = Null THEN state ELSE [state EXCEPT ![t] = @ \ {"UNINT"}]

thread_invoke(p) == LET t == sel[p] IN
    /\ ppc[p] = "invoke"
    /\ \/ /\ t = cur[p]
          /\ MarkInterruptible(t)
          /\ ppc' = [ppc EXCEPT ![p] = "run"]
          /\ sel' = [sel EXCEPT ![p] = Null]
          /\ UNCHANGED <<cur, old, swapvars>>
       \/ /\ t # cur[p] /\ t \in swapped    \* no stack can be had
          /\ swapped' = swapped \ {t} /\ swapin' = swapin \cup {t}
          /\ ppc' = [ppc EXCEPT ![p] = "select"]
          /\ sel' = [sel EXCEPT ![p] = Null]
          /\ UNCHANGED <<state, cur, old>>
       \/ /\ t # cur[p]
          /\ MarkInterruptible(t)
          /\ cur' = [cur EXCEPT ![p] = t]
          /\ old' = [old EXCEPT ![p] = cur[p]]
          /\ sel' = [sel EXCEPT ![p] = Null]
          /\ ppc' = [ppc EXCEPT ![p] = "dispatch"]
          /\ swapped' = swapped \ {t} /\ UNCHANGED swapin
    /\ UNCHANGED <<waitvars, ipcvars, clearing, suspvars, dispvars>>

\* The suspension may stop the thread in this state.
MayStop(s) == "SUSP" \in s /\ "UNINT" \notin s

\* Mutant: the thread that waits for t to stop is not woken.
Stop_NoWakeup(p, t) ==
    /\ state' = [state EXCEPT ![t] = @ \ {"RUN"}]
    /\ wake_active' = [wake_active EXCEPT ![t] = FALSE]
    /\ old' = [old EXCEPT ![p] = Null]
    /\ ppc' = [ppc EXCEPT ![p] = "run"]

\* On processor p, thread t stops; whoever waits for that in thread_dowait is
\* woken once t is unlocked.
Stop(p, t) ==
    /\ state' = [state EXCEPT ![t] = @ \ {"RUN"}]
    /\ wake_active' = [wake_active EXCEPT ![t] = FALSE]
    /\ old' = [old EXCEPT ![p] = IF wake_active[t] THEN t ELSE Null]
    /\ ppc' = [ppc EXCEPT ![p] = IF wake_active[t] THEN "wakeup" ELSE "run"]

\* The old thread, not stopped, stays runnable or is left waiting.
Leave(p, t) ==
    /\ ppc' = [ppc EXCEPT ![p] = "run"]
    /\ old' = [old EXCEPT ![p] = Null]
    /\ UNCHANGED wake_active
    /\ IF "WAIT" \in state[t]
       THEN /\ state' = [state EXCEPT ![t] = @ \ {"RUN"}]
            /\ UNCHANGED dispvars
       ELSE /\ thread_setrun({t}, runq)
            /\ UNCHANGED state

thread_dispatch(p) == LET t == old[p] IN
    /\ ppc[p] = "dispatch"
    /\ \/ /\ t = Null                           \* the idle thread
          /\ ppc' = [ppc EXCEPT ![p] = "run"]
          /\ UNCHANGED <<state, dispvars, wake_active, old>>
       \/ /\ t # Null /\ MayStop(state[t])
          /\ Stop(p, t)
          /\ UNCHANGED dispvars
       \/ /\ t # Null /\ ~MayStop(state[t])
          /\ Leave(p, t)
    /\ \E discard \in Continuations :
          swapped' = IF discard /\ t # Null THEN swapped \cup {t} ELSE swapped
    /\ UNCHANGED <<waitvars, ipcvars, clearing, suspend_count, user_stop_count,
                   dowaiting, cur, sel, swapin>>

\* thread_wakeup(&old->wake_active).
wakeup_active(p) ==
    /\ ppc[p] = "wakeup" /\ ~Interrupted(p)
    /\ AllWait(Sleepers(old[p]))
    /\ EndWait(Sleepers(old[p]), state, runq)
    /\ ppc' = [ppc EXCEPT ![p] = "run"]
    /\ old' = [old EXCEPT ![p] = Null]
    /\ UNCHANGED <<ipcvars, clearing, suspvars, cur, sel, swapvars>>

thread_doswapin(t) ==
    /\ t \in swapin
    /\ swapin' = swapin \ {t}
    /\ thread_setrun({t}, runq)
    /\ UNCHANGED <<state, waitvars, ipcvars, clearing, suspvars, cpuvars, swapped>>

idle_thread_dispatched(p) ==
    /\ ppc[p] = "run" /\ cur[p] = Null /\ ~Interrupted(p) /\ pstate[p] = "DISPATCHING"
    /\ sel' = [sel EXCEPT ![p] = next_thread[p]]
    /\ next_thread' = [next_thread EXCEPT ![p] = Null]
    /\ pstate' = [pstate EXCEPT ![p] = "RUNNING"]
    /\ ppc' = [ppc EXCEPT ![p] = "invoke"]
    /\ UNCHANGED <<state, waitvars, ipcvars, clearing, suspvars, runq,
                   cur, old, swapvars>>

\* The run queues the idle loop looks at; the mutant leaves out gcount.
IdleLooksAt_Local(p) == LocalQueue(p)
IdleLooksAt(p) == LocalQueue(p) \cup GlobalQueue

\* The processor was not dispatched, but a run queue is not empty.
idle_thread_not_dispatched(p) ==
    /\ ppc[p] = "run" /\ cur[p] = Null /\ ~Interrupted(p) /\ pstate[p] = "IDLE"
    /\ IdleLooksAt(p) # {}
    /\ pstate' = [pstate EXCEPT ![p] = "RUNNING"]
    /\ ppc' = [ppc EXCEPT ![p] = "select"]
    /\ UNCHANGED <<state, waitvars, ipcvars, clearing, suspvars, runq, next_thread,
                   cur, sel, old, swapvars>>

-----------------------------------------------------------------------------
(* Suspension *)

\* A thread that suspends itself is to call thread_block on its way out.
thread_suspend(t, u) ==
    /\ Free(t) /\ user_stop_count[u] < MaxStops
    /\ user_stop_count' = [user_stop_count EXCEPT ![u] = @ + 1]
    /\ IF user_stop_count[u] = 0
       THEN /\ suspend_count' = [suspend_count EXCEPT ![u] = @ + 1]
            /\ state' = [state EXCEPT ![u] = @ \cup {"SUSP"}]
            /\ dowaiting' = [dowaiting EXCEPT ![t] = IF t = u THEN Null ELSE u]
            /\ IF t = u THEN Goto(t, "block") ELSE UNCHANGED ppc
       ELSE UNCHANGED <<suspend_count, state, dowaiting, ppc>>
    /\ UNCHANGED <<waitvars, ipcvars, clearing, wake_active, dispvars,
                   cur, sel, old, swapvars>>

\* One turn of the loop of thread_dowait(u), with must_halt set.  A thread on
\* a run queue is stopped here; for one that still runs, or may not be
\* stopped, wake_active asks it to wake us.
thread_dowait(t) == LET u == dowaiting[t]
                        s == Sched(state[u]) IN
    /\ At(t, "run") /\ u # Null
    /\ \/ /\ s = {"RUN", "SUSP"} /\ runq[u] # Null
          /\ runq' = [runq EXCEPT ![u] = Null]
          /\ dowaiting' = [dowaiting EXCEPT ![t] = Null]
          /\ \E p \in Processors : cur[p] = t /\ Stop(p, u)
          /\ UNCHANGED <<waitvars, pstate, next_thread>>
       \/ /\ \/ s = {"RUN", "SUSP"} /\ runq[u] = Null
             \/ {"RUN", "SUSP", "UNINT"} \subseteq s
             \/ {"WAIT", "SUSP", "UNINT"} \subseteq s
             \/ s = {"RUN", "WAIT", "SUSP"}
          /\ wait_event[t] = Null          \* or assert_wait panics
          /\ wake_active' = [wake_active EXCEPT ![u] = TRUE]
          /\ state' = [state EXCEPT ![t] = @ \cup {"WAIT"}]
          /\ wait_event' = [wait_event EXCEPT ![t] = u]
          /\ Goto(t, "block")
          /\ UNCHANGED <<timer, late, dispvars, dowaiting, old>>
       \/ /\ "SUSP" \notin s \/ s \in {{"SUSP"}, {"WAIT", "SUSP"}}
          /\ dowaiting' = [dowaiting EXCEPT ![t] = Null]
          /\ UNCHANGED <<state, waitvars, dispvars, wake_active, old, ppc>>
    /\ UNCHANGED <<ipcvars, clearing, suspend_count, user_stop_count,
                   cur, sel, swapvars>>

\* Mutant: a thread is marked TH_RUN and left off the run queues.
Unsuspend_NoSetrun(t) ==
    LET s == state[t] \ {"SUSP", "HALTED"}
        stopped == s \cap {"RUN", "WAIT"} = {} IN
    /\ state' = [state EXCEPT ![t] = s \cup (IF stopped THEN {"RUN"} ELSE {})]
    /\ UNCHANGED dispvars

\* The last hold on t is released.
Unsuspend(t) ==
    LET s == state[t] \ {"SUSP", "HALTED"}
        stopped == s \cap {"RUN", "WAIT"} = {} IN
    /\ state' = [state EXCEPT ![t] = s \cup (IF stopped THEN {"RUN"} ELSE {})]
    /\ thread_setrun(IF stopped THEN {t} ELSE {}, runq)

thread_resume(t, u) ==
    /\ Free(t) /\ user_stop_count[u] > 0
    /\ user_stop_count' = [user_stop_count EXCEPT ![u] = @ - 1]
    /\ IF user_stop_count[u] = 1
       THEN /\ suspend_count' = [suspend_count EXCEPT ![u] = @ - 1]
            /\ IF suspend_count[u] = 1 THEN Unsuspend(u)
                                       ELSE UNCHANGED <<state, dispvars>>
       ELSE UNCHANGED <<suspend_count, state, dispvars>>
    /\ UNCHANGED <<waitvars, ipcvars, clearing, wake_active, dowaiting,
                   cpuvars, swapvars>>

-----------------------------------------------------------------------------
Switch(p) ==
    \/ thread_block(p) \/ thread_select_again(p) \/ choose_pset_thread(p)
    \/ thread_invoke(p) \/ thread_dispatch(p) \/ wakeup_active(p)
    \/ idle_thread_dispatched(p) \/ idle_thread_not_dispatched(p)

Wait(t) == \E e \in Events, interruptible \in BOOLEAN :
    assert_wait(t, e, interruptible)
WaitForMessage(t) ==
    \/ thread_will_wait(t, FALSE) \/ ipc_thread_rmqueue_first(t) \/ thread_go(t)
Wakeup == \E e \in Events : thread_wakeup(e) \/ thread_wakeup_one(e)
SwapIn == \E t \in Threads : thread_doswapin(t)
\* Waits that clear_wait may end.  One without event ends in no other way.
Timeout(t) ==
    \/ \E interruptible \in BOOLEAN : assert_wait(t, Null, interruptible)
    \/ thread_set_timeout(t) \/ thread_will_wait(t, TRUE) \/ softclock(t)
    \/ thread_halt_clears(t) \/ ipc_thread_rmqueue(t)
ClearWait(c) == clear_wait(c) \/ clear_wait_locked(c)
Suspend(t) == (\E u \in Threads : thread_suspend(t, u)) \/ thread_dowait(t)
Resume(t) == \E u \in Threads : thread_resume(t, u)

\* Parts of Next that are checked on larger instances: waits and wakeups
\* without suspension, suspension and resumption without timeouts and messages,
\* and suspension without timeouts and resumption.
WaitNext ==
    \/ \E p \in Processors : Switch(p)
    \/ \E t \in Threads : Wait(t) \/ WaitForMessage(t) \/ Timeout(t)
    \/ \E c \in Clearers : ClearWait(c)
    \/ Wakeup \/ SwapIn
SuspendNext ==
    \/ \E p \in Processors : Switch(p)
    \/ \E t \in Threads : Wait(t) \/ Suspend(t) \/ Resume(t)
    \/ Wakeup \/ SwapIn
StopNext ==
    \/ \E p \in Processors : Switch(p)
    \/ \E t \in Threads : Wait(t) \/ WaitForMessage(t) \/ Suspend(t)
    \/ Wakeup \/ SwapIn

Next == WaitNext \/ SuspendNext

WaitSpec == Init /\ [][WaitNext]_vars
SuspendSpec == Init /\ [][SuspendNext]_vars
Spec == Init /\ [][Next]_vars

\* A processor goes on executing the kernel and its idle loop, and the swapin
\* thread runs.  A thread that has an AST because it is suspended may sleep in
\* the kernel a number of times, but not for ever return there before it takes
\* the AST and calls thread_block.  Otherwise a thread may compute for ever.
Executes(p) ==
    \/ thread_select_again(p) \/ choose_pset_thread(p) \/ thread_invoke(p)
    \/ thread_dispatch(p) \/ wakeup_active(p)
    \/ idle_thread_dispatched(p) \/ idle_thread_not_dispatched(p)
    \/ ppc[p] # "run" /\ thread_block(p)
TakesAst(p) ==
    /\ ppc[p] = "run" /\ cur[p] # Null /\ "SUSP" \in state[cur[p]]
    /\ thread_block(p)
Progress ==
    /\ \A p \in Processors : WF_vars(Executes(p)) /\ SF_vars(TakesAst(p))
    /\ \A t \in Threads : WF_vars(thread_dowait(t)) /\ WF_vars(thread_doswapin(t))

\* And every wait ends, by a wakeup or by a message.
StopSpec == /\ Init /\ [][StopNext]_vars /\ Progress
            /\ \A e \in Events : WF_vars(thread_wakeup(e))
            /\ \A t \in Threads : WF_vars(ipc_thread_rmqueue_first(t))
                                  /\ WF_vars(thread_go(t))

-----------------------------------------------------------------------------
(* Properties *)

\* The places where a runnable thread can be.
OnCpu(t, p) == t \in {cur[p], sel[p]} \/ (t = old[p] /\ ppc[p] = "dispatch")
Places(t) ==
    {<<"cpu", p>> : p \in {q \in Processors : OnCpu(t, q)}}
    \cup {<<"next", p>> : p \in {q \in Processors : next_thread[q] = t}}
    \cup (IF runq[t] # Null THEN {<<"runq", runq[t]>>} ELSE {})
    \cup (IF t \in swapin THEN {<<"swapin", Null>>} ELSE {})

\* "TH_RUN: thread is running or on runq" (thread.h): a thread marked TH_RUN
\* is in one place, never on two processors, nor on a processor and on a run
\* queue, nor dispatched twice (thread_setrun asserts th->runq ==
\* RUN_QUEUE_NULL, and nothing tests the rest); one that is not marked is
\* nowhere.
InOnePlace == \A t \in Threads :
    Cardinality(Places(t)) = IF "RUN" \in state[t] THEN 1 ELSE 0

\* A bound thread is only ever on its own processor.
BoundStaysPut == \A t \in Threads : BoundTo[t] # Null =>
    \A x \in Places(t) : x[2] \in {BoundTo[t], Null}

\* Every way out of a wait leaves the wait queue and resets the timer, except
\* one.  A thread_go that comes after the wait it was called for has ended
\* (ipc_mqueue_send calls it after imq_unlock, and the receiver may have timed
\* out meanwhile) leaves a thread that sleeps on an event runnable and on the
\* wait queue; until clear_wait takes it off, thread_wakeup of that event and
\* assert_wait by that thread panic.  In no other way does thread_wakeup find a
\* thread that does not wait, or assert_wait one that has an event.  No thread
\* returns from thread_block still waiting.  And no timer is in the timer queue
\* unless its thread waits, so set_timeout, which does not test timer.set,
\* inserts no element twice.  The comment on softclock ("thread_timeout finally
\* runs and clears timer_set, then thread_set_timeout tries to put the timer on
\* the queue again and corrupts it") describes a thread_timeout that this one is
\* not: it calls clear_wait, whose reset_timeout takes the element off.
WaitsEndCleanly ==
    /\ \A t \in Threads : timer[t] => "WAIT" \in state[t]
    /\ \A t \in Threads : wait_event[t] # Null =>
          "WAIT" \in state[t] \/ t \in late
    /\ \A p \in Processors : cur[p] # Null /\ ppc[p] = "run" =>
          "WAIT" \notin state[cur[p]]

\* The thread_suspend that takes the first hold on a thread returns only when
\* the thread has stopped, unless the hold was released meanwhile; a nested
\* one returns at once, and promises nothing of the kind.  A thread that has
\* stopped runs again only after the last hold on it is released: a wakeup, a
\* timeout or the end of a nested hold in between leaves it stopped.
Stopped(u) == MayStop(state[u]) /\ Places(u) = {}
SuspendedStaysStopped == [][\A u \in Threads : "SUSP" \in state'[u] =>
    /\ \A t \in Threads : dowaiting[t] = u /\ dowaiting'[t] = Null => Stopped(u)'
    /\ Stopped(u) => Stopped(u)']_vars

\* The idle loop looks at the run queues, although thread_setrun dispatches
\* threads to idle processors: a thread may be enqueued between the moment a
\* processor finds the run queues empty and the moment it is marked idle.  No
\* processor stays idle for ever while a thread waits on its run queues.
NoStrandedThread == \A p \in Processors :
    ~<>[](pstate[p] = "IDLE" /\ LocalQueue(p) \cup GlobalQueue # {})

\* thread_suspend returns, unless its caller is itself suspended: the target
\* stops, and the wakeup on wake_active is not lost.
SuspendReturns == \A t \in Threads :
    (dowaiting[t] # Null) ~> (dowaiting[t] = Null \/ "SUSP" \in state[t])
=============================================================================
