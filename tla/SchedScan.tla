------------------------------ MODULE SchedScan ------------------------------
(***************************************************************************)
(* The scheduler thread's search for threads that have been on a run queue *)
(* for too long without a priority update: do_runq_scan and do_thread_scan *)
(* of kern/sched_prim.c, beside the rest of SchedPrim.  Pass 1 takes stuck *)
(* threads off the run queues, under the run queue lock only; pass 2 puts  *)
(* them back, under the thread lock.                                       *)
(***************************************************************************)
EXTENDS SchedPrim

CONSTANT MAX_STUCK_THREADS

ASSUME ScanAssumption == MAX_STUCK_THREADS \in Nat \ {0}

VARIABLES
    stuck,      \* stuck_threads
    restart,    \* restart_needed: pass 1 ran out of space
    pass,       \* 0: asleep; 1, 2: scanning the run queue of the processor
                \* set, of the master processor; 3: pass 2
    left        \* history: the threads pass 2 did not put back

scanvars == <<stuck, restart, pass, left>>

ScanInit == Init /\ stuck = {} /\ restart = FALSE /\ pass = 0 /\ left = {}

sched_thread ==
    /\ pass = 0 /\ pass' = 1
    /\ UNCHANGED <<vars, stuck, restart, left>>

\* Threads that are runnable and have an old sched_stamp: any of them may.
Candidates(q) == {t \in Threads : runq[t] = q /\ Sched(state[t]) = {"RUN"}}

\* Mutant: threads for which there is no room are taken off as well.
do_runq_scan_NoRoom(q) == \E T \in SUBSET Candidates(q) :
    LET room == MAX_STUCK_THREADS - Cardinality(stuck) IN
    \E S \in SUBSET T :
        /\ Cardinality(S) = IF Cardinality(T) <= room THEN Cardinality(T) ELSE room
        /\ stuck' = stuck \cup S
        /\ restart' = (S # T)
        /\ runq' = [t \in Threads |-> IF t \in T THEN Null ELSE runq[t]]
        /\ UNCHANGED <<state, waitvars, ipcvars, clearing, suspvars, pstate, next_thread,
                       cpuvars, swapvars>>

\* Of the stuck threads T of the run queue, as many as there is room for.
do_runq_scan(q) == \E T \in SUBSET Candidates(q) :
    LET room == MAX_STUCK_THREADS - Cardinality(stuck) IN
    \E S \in SUBSET T :
        /\ Cardinality(S) = IF Cardinality(T) <= room THEN Cardinality(T) ELSE room
        /\ stuck' = stuck \cup S
        /\ restart' = (S # T)
        /\ runq' = [t \in Threads |-> IF t \in S THEN Null ELSE runq[t]]
        /\ UNCHANGED <<state, waitvars, ipcvars, clearing, suspvars, pstate, next_thread,
                       cpuvars, swapvars>>

do_thread_scan_pass1 ==
    /\ UNCHANGED left
    /\ \/ /\ pass = 1
          /\ do_runq_scan("pset")
          /\ pass' = IF restart' THEN 3 ELSE 2
       \/ /\ pass = 2
          /\ do_runq_scan(master)
          /\ pass' = 3

\* A thread that is no longer just runnable is left alone.
do_thread_scan_pass2 ==
    /\ pass = 3
    /\ \/ \E t \in stuck :
            /\ stuck' = stuck \ {t}
            /\ IF Sched(state[t]) = {"RUN"}
                  THEN thread_setrun({t}, runq) /\ UNCHANGED left
                  ELSE thread_setrun({}, runq) /\ left' = left \cup {t}
            /\ UNCHANGED <<state, waitvars, ipcvars, clearing, suspvars, cpuvars, swapvars,
                           restart, pass>>
       \/ /\ stuck = {}
          /\ pass' = IF restart THEN 1 ELSE 0
          /\ restart' = FALSE
          /\ UNCHANGED <<vars, stuck, left>>

do_thread_scan == do_thread_scan_pass1 \/ do_thread_scan_pass2

ScanNext ==
    \/ (SuspendNext \/ StopNext) /\ UNCHANGED scanvars
    \/ sched_thread \/ do_thread_scan
ScanSpec == ScanInit /\ [][ScanNext]_<<vars, scanvars>>

-----------------------------------------------------------------------------
ScanPlaces(t) == Places(t) \cup (IF t \in stuck THEN {<<"stuck", Null>>} ELSE {})

\* A thread that the scan has taken off a run queue is nowhere else: nothing
\* that happens to it before do_thread_scan comes back puts it on a run queue
\* or on a processor as well (thread_setrun would then find it enqueued).  And
\* a thread marked TH_RUN "is running or on runq" (thread.h), or is one the
\* scan holds, however small stuck_threads is and wherever the scan starts
\* again.  The exception is a thread suspended while the scan held it: pass 2
\* finds TH_RUN | TH_SUSP and nobody puts it back.
ScanOnePlace == \A t \in Threads :
    /\ \A x, y \in ScanPlaces(t) : x = y
    /\ "RUN" \in state[t] /\ t \notin left => ScanPlaces(t) # {}
=============================================================================
