---------------------------- MODULE SchedProofs -----------------------------
(***************************************************************************)
(* Safety of kern/sched_prim.c for any number of threads, processors and   *)
(* events, with waits, timeouts, suspension and the stack swapper at once. *)
(*                                                                         *)
(* InOnePlace counts places; Once says the same with predicates, one for   *)
(* each kind of place, and adds a set H of threads that something outside  *)
(* SchedPrim holds: the scan of SchedScan takes threads off the run queues *)
(* and keeps them in a table.                                              *)
(***************************************************************************)
EXTENDS SchedScan, FiniteSetTheorems, TLAPS

\* The types of the variables that say where a thread is.
PlaceTypes ==
    /\ state \in [Threads -> SUBSET Bits]
    /\ runq \in [Threads -> Processors \cup {"pset", Null}]
    /\ pstate \in [Processors -> {"RUNNING", "IDLE", "DISPATCHING"}]
    /\ next_thread \in [Processors -> Threads \cup {Null}]
    /\ cur \in [Processors -> Threads \cup {Null}]
    /\ sel \in [Processors -> Threads \cup {Null}]
    /\ old \in [Processors -> Threads \cup {Null}]
    /\ ppc \in [Processors -> Stages]
    /\ swapped \subseteq Threads /\ swapin \subseteq Threads

\* The types of the others.
WaitTypes ==
    /\ wait_event \in [Threads -> WaitEvents]
    /\ timer \in [Threads -> BOOLEAN]
    /\ dowaiting \in [Threads -> Threads \cup {Null}]
    /\ clearing \in [Clearers -> [stage : {"none", "call", "locked"},
                                  thread : Threads \cup {Null},
                                  event : WaitEvents]]
    /\ \A c \in Clearers : clearing[c].stage # "none" => clearing[c].thread \in Threads

\* sel, old and next_thread are used where the code uses them, and only there.
Switches == \A p \in Processors :
    /\ sel[p] # Null => ppc[p] = "invoke"
    /\ old[p] # Null => ppc[p] \in {"dispatch", "wakeup"}
    /\ ppc[p] = "dispatch" /\ old[p] # Null => old[p] # cur[p]
    /\ next_thread[p] # Null <=> pstate[p] = "DISPATCHING"

OnACpu(t) == \E p \in Processors : OnCpu(t, p)
IsNext(t) == \E p \in Processors : next_thread[p] = t

\* t is on one processor at most, and in one kind of place at most.
NotTwice(t, H) ==
    /\ \A p, q \in Processors : OnCpu(t, p) /\ OnCpu(t, q) => p = q
    /\ \A p, q \in Processors : next_thread[p] = t /\ next_thread[q] = t => p = q
    /\ OnACpu(t) => ~IsNext(t) /\ runq[t] = Null /\ t \notin swapin /\ t \notin H
    /\ IsNext(t) => runq[t] = Null /\ t \notin swapin /\ t \notin H
    /\ runq[t] # Null => t \notin swapin /\ t \notin H
    /\ t \in swapin => t \notin H

Somewhere(t, H) ==
    OnACpu(t) \/ IsNext(t) \/ runq[t] # Null \/ t \in swapin \/ t \in H

Once(H) == \A t \in Threads :
    NotTwice(t, H) /\ ("RUN" \in state[t] <=> Somewhere(t, H))

\* The inductive invariant for the places.
PInv(H) == PlaceTypes /\ WaitTypes /\ Switches /\ Once(H)

\* On processor p, t is between asserting a wait and leaving p.
Going(t, p) ==
    \/ /\ cur[p] = t /\ sel[p] # t
       /\ ppc[p] \in {"asserted", "block", "select", "setidle", "invoke"}
    \/ old[p] = t /\ ppc[p] = "dispatch"

\* Nobody else is marked both TH_RUN and TH_WAIT.
WaitersGo == \A t \in Threads :
    {"RUN", "WAIT"} \subseteq state[t] => \E p \in Processors : Going(t, p)

\* Who has a timer is marked TH_WAIT, and so is who waits for an event, unless
\* a late thread_go has taken the mark away.
WaitersMarked == \A t \in Threads :
    /\ timer[t] => "WAIT" \in state[t]
    /\ wait_event[t] # Null => "WAIT" \in state[t] \/ t \in late

-----------------------------------------------------------------------------
\* A membership test is a value a timer's flag can hold.
LEMMA MemberIsBoolean == \A x, S : (x \in S) \in BOOLEAN
  BY SMTT(30)

\* thread_setrun puts each thread of T on a run queue, or makes it the next
\* thread of one processor, and touches no other thread.
LEMMA Setrun ==
    ASSUME NEW T \in SUBSET Threads, PlaceTypes, Switches, thread_setrun(T, runq),
           \A t \in T : runq[t] = Null /\ ~IsNext(t)
    PROVE  /\ runq' \in [Threads -> Processors \cup {"pset", Null}]
           /\ pstate' \in [Processors -> {"RUNNING", "IDLE", "DISPATCHING"}]
           /\ next_thread' \in [Processors -> Threads \cup {Null}]
           /\ \A p \in Processors : next_thread'[p] # Null <=> pstate'[p] = "DISPATCHING"
           /\ \A t \in Threads \ T : /\ runq'[t] = runq[t]
                                     /\ \A p \in Processors : next_thread'[p] = t <=> next_thread[p] = t
           /\ \A t \in T : /\ runq'[t] # Null <=> ~IsNext(t)'
                           /\ \A p, q \in Processors : next_thread'[p] = t /\ next_thread'[q] = t => p = q
<1> USE SchedAssumption
<1>0. PICK D \in SUBSET T : \E f \in [D -> IdleProcessors] : SetrunTo(T, runq, D, f)
  BY Zenon DEF thread_setrun
<1> PICK f \in [D -> IdleProcessors] : SetrunTo(T, runq, D, f)
  BY <1>0, Zenon
<1>1. /\ \A t, u \in D : f[t] = f[u] => t = u
      /\ runq' = [t \in Threads |->
            IF t \notin T \ D THEN runq[t]
            ELSE IF BoundTo[t] = Null THEN "pset" ELSE BoundTo[t]]
      /\ pstate' = [p \in Processors |->
            IF p \in {f[t] : t \in D} THEN "DISPATCHING" ELSE pstate[p]]
      /\ next_thread' = [p \in Processors |->
            IF p \in {f[t] : t \in D} THEN CHOOSE t \in D : f[t] = p ELSE next_thread[p]]
  BY Zenon DEF SetrunTo
<1>2. \A t \in D : f[t] \in Processors /\ pstate[f[t]] = "IDLE" /\ next_thread[f[t]] = Null
  BY Zenon DEF IdleProcessors, Switches
<1>3. \A t \in D : next_thread'[f[t]] = t
  BY <1>1, <1>2, Zenon
<1>4. \A p \in Processors : p \notin {f[t] : t \in D} => next_thread'[p] = next_thread[p]
  BY <1>1, Zenon
<1>5. \A t \in Threads, p \in Processors :
        next_thread'[p] = t <=> (t \in D /\ f[t] = p) \/ next_thread[p] = t
  <2> TAKE t \in Threads, p \in Processors
  <2>1. CASE p \in {f[u] : u \in D}
    <3>1. PICK u \in D : p = f[u]
      BY <2>1, Zenon
    <3>2. next_thread'[p] = u /\ next_thread[p] = Null
      BY <1>2, <1>3, <3>1, Zenon
    <3> QED
      BY <1>1, <3>1, <3>2, Zenon
  <2>2. CASE p \notin {f[u] : u \in D}
    BY <1>4, <2>2, Zenon
  <2> QED
    BY <2>1, <2>2, Zenon
<1>6. /\ runq' \in [Threads -> Processors \cup {"pset", Null}]
      /\ pstate' \in [Processors -> {"RUNNING", "IDLE", "DISPATCHING"}]
  BY <1>1, Zenon DEF PlaceTypes
<1>7. next_thread' \in [Processors -> Threads \cup {Null}]
  <2>1. \A p \in Processors : next_thread'[p] \in Threads \cup {Null}
    <3> TAKE p \in Processors
    <3>1. CASE p \in {f[u] : u \in D}
      BY <1>3, <3>1, SMTT(30)
    <3>2. CASE p \notin {f[u] : u \in D}
      BY <1>4, <3>2, Zenon DEF PlaceTypes
    <3> QED
      BY <3>1, <3>2, Zenon
  <2> QED
    BY <1>1, <2>1, Zenon
<1>8. \A p \in Processors : next_thread'[p] # Null <=> pstate'[p] = "DISPATCHING"
  <2> TAKE p \in Processors
  <2>1. CASE p \in {f[u] : u \in D}
    BY <1>1, <1>3, <2>1, Zenon
  <2>2. CASE p \notin {f[u] : u \in D}
    BY <1>1, <1>4, <2>2, Zenon DEF Switches
  <2> QED
    BY <2>1, <2>2, Zenon
<1>9. \A t \in Threads \ T : /\ runq'[t] = runq[t]
                             /\ \A p \in Processors : next_thread'[p] = t <=> next_thread[p] = t
  BY <1>1, <1>5, Zenon
<1>10. \A t \in T : /\ runq'[t] # Null <=> ~IsNext(t)'
                    /\ \A p, q \in Processors : next_thread'[p] = t /\ next_thread'[q] = t => p = q
  <2> TAKE t \in T
  <2>1. \A p \in Processors : next_thread'[p] = t <=> t \in D /\ f[t] = p
    BY <1>5, Zenon DEF IsNext
  <2>2. runq'[t] # Null <=> t \notin D
    BY <1>1, Zenon
  <2> QED
    BY <1>2, <2>1, <2>2, SMTT(30) DEF IsNext
<1> QED
  BY <1>6, <1>7, <1>8, <1>9, <1>10, Zenon

\* A step that calls thread_setrun for threads that it has taken from where
\* they were, or that were nowhere, leaves every thread in one place.
LEMMA SetrunOnce ==
    ASSUME NEW H, PInv(H), NEW T \in SUBSET Threads, thread_setrun(T, runq),
           \A t \in Threads \ T :
               /\ \A p \in Processors : OnCpu(t, p)' <=> OnCpu(t, p)
               /\ t \in swapin' <=> t \in swapin
               /\ "RUN" \in state'[t] <=> "RUN" \in state[t],
           \A t \in T : /\ runq[t] = Null /\ ~IsNext(t) /\ t \notin H
                        /\ ~OnACpu(t)' /\ t \notin swapin' /\ "RUN" \in state'[t]
    PROVE  Once(H)'
<1>1. /\ \A t \in Threads \ T : /\ runq'[t] = runq[t]
                                /\ \A p \in Processors : next_thread'[p] = t <=> next_thread[p] = t
      /\ \A t \in T : /\ runq'[t] # Null <=> ~IsNext(t)'
                      /\ \A p, q \in Processors : next_thread'[p] = t /\ next_thread'[q] = t => p = q
  BY Setrun, Zenon DEF PInv
<1>2. ASSUME NEW t \in Threads \ T
      PROVE  NotTwice(t, H)' /\ ("RUN" \in state'[t] <=> Somewhere(t, H)')
  <2>1. (OnACpu(t)' <=> OnACpu(t)) /\ (IsNext(t)' <=> IsNext(t))
    BY <1>1, <1>2, Zenon DEF OnACpu, IsNext
  <2> QED
    BY <1>1, <1>2, <2>1, SMTT(30) DEF PInv, Once, NotTwice, Somewhere
<1>3. ASSUME NEW t \in T
      PROVE  NotTwice(t, H)' /\ ("RUN" \in state'[t] <=> Somewhere(t, H)')
  BY <1>1, <1>3, Zenon DEF NotTwice, Somewhere, OnACpu
<1> QED
  BY <1>2, <1>3, Zenon DEF Once

\* A step that moves no thread leaves every thread in one place.
LEMMA SameOnce ==
    ASSUME NEW H, Once(H), UNCHANGED <<runq, next_thread, swapin>>,
           \A t \in Threads : /\ \A p \in Processors : OnCpu(t, p)' <=> OnCpu(t, p)
                              /\ "RUN" \in state'[t] <=> "RUN" \in state[t]
    PROVE  Once(H)'
<1> SUFFICES ASSUME NEW t \in Threads
             PROVE  NotTwice(t, H)' /\ ("RUN" \in state'[t] <=> Somewhere(t, H)')
  BY Zenon DEF Once
<1>1. (OnACpu(t)' <=> OnACpu(t)) /\ (IsNext(t)' <=> IsNext(t))
  BY Zenon DEF OnACpu, IsNext
<1> QED
  BY <1>1, Zenon DEF Once, NotTwice, Somewhere

\* A thread that is not marked TH_RUN is nowhere.
LEMMA Nowhere ==
    ASSUME NEW H, Once(H), NEW t \in Threads, "RUN" \notin state[t]
    PROVE  runq[t] = Null /\ ~IsNext(t) /\ t \notin H /\ ~OnACpu(t) /\ t \notin swapin
  BY Zenon DEF Once, Somewhere

\* A thread that runs on p is nowhere else, and on no other processor.
LEMMA OnOneCpu ==
    ASSUME NEW H, Once(H), NEW t \in Threads, NEW p \in Processors, OnCpu(t, p)
    PROVE  /\ runq[t] = Null /\ ~IsNext(t) /\ t \notin H /\ t \notin swapin
           /\ "RUN" \in state[t] /\ \A q \in Processors : OnCpu(t, q) => q = p
  BY Zenon DEF Once, Somewhere, NotTwice, OnACpu

-----------------------------------------------------------------------------
(***************************************************************************)
(* Each routine leaves every thread in one place.                          *)
(***************************************************************************)
\* A thread that goes on inside its processor stays where it is.
LEMMA GotoMovesNobody ==
    ASSUME NEW H, PInv(H), NEW t \in Threads, At(t, "run") \/ At(t, "asserted"),
           NEW stage \in {"asserted", "block"}, Goto(t, stage), UNCHANGED <<cur, sel, old>>
    PROVE  /\ ppc' \in [Processors -> Stages]
           /\ \A u \in Threads : \A p \in Processors : OnCpu(u, p)' <=> OnCpu(u, p)
           /\ \A p \in Processors :
                /\ sel[p] # Null => ppc'[p] = "invoke"
                /\ old[p] # Null => ppc'[p] \in {"dispatch", "wakeup"}
                /\ ppc'[p] = "dispatch" => ppc[p] = "dispatch"
<1>1. PICK q \in Processors : cur[q] = t /\ ppc[q] \in {"run", "asserted"}
  BY Zenon DEF At
<1>2. \A p \in Processors : cur[p] = t => p = q
  BY <1>1, OnOneCpu, ZenonT(60) DEF PInv, OnCpu
<1>3. ppc' = [ppc EXCEPT ![q] = stage]
  BY <1>1, <1>2, Zenon DEF Goto, PInv, PlaceTypes
<1> QED
  BY <1>1, <1>3, Zenon DEF PInv, PlaceTypes, Switches, Stages, OnCpu

\* The routines that only mark threads, or move them on in their processor.
LEMMA MarkInv ==
    ASSUME NEW H, PInv(H),
           state' \in [Threads -> SUBSET Bits],
           \A t \in Threads : "RUN" \in state'[t] <=> "RUN" \in state[t],
           UNCHANGED <<dispvars, cur, sel, old, swapvars>>, WaitTypes',
           \/ UNCHANGED ppc
           \/ \E t \in Threads, stage \in {"asserted", "block"} :
                 (At(t, "run") \/ At(t, "asserted")) /\ Goto(t, stage)
    PROVE  PInv(H)'
<1> USE DEF dispvars, swapvars
<1>1. /\ ppc' \in [Processors -> Stages]
      /\ \A u \in Threads : \A p \in Processors : OnCpu(u, p)' <=> OnCpu(u, p)
      /\ \A p \in Processors :
           /\ sel[p] # Null => ppc'[p] = "invoke"
           /\ old[p] # Null => ppc'[p] \in {"dispatch", "wakeup"}
           /\ ppc'[p] = "dispatch" => ppc[p] = "dispatch"
  <2>1. CASE UNCHANGED ppc
    BY <2>1, Zenon DEF PInv, PlaceTypes, Switches, OnCpu
  <2>2. CASE \E t \in Threads, stage \in {"asserted", "block"} :
               (At(t, "run") \/ At(t, "asserted")) /\ Goto(t, stage)
    BY <2>2, GotoMovesNobody, Zenon
  <2> QED
    BY <2>1, <2>2, Zenon
<1>2. PlaceTypes' /\ Switches'
  BY <1>1, Zenon DEF PInv, PlaceTypes, Switches
<1>3. Once(H)'
  BY <1>1, SameOnce, Zenon DEF PInv
<1> QED
  BY <1>2, <1>3, Zenon DEF PInv

\* Starting threads that wait: those that become runnable were nowhere.
LEMMA AwakenInv ==
    ASSUME NEW H, PInv(H), NEW T \in SUBSET Threads, Awaken(T, state, runq),
           \A t \in Threads : \A p \in Processors : OnCpu(t, p)' <=> OnCpu(t, p),
           UNCHANGED swapin
    PROVE  /\ Once(H)' /\ state' \in [Threads -> SUBSET Bits]
           /\ timer' \in [Threads -> BOOLEAN]
           /\ runq' \in [Threads -> Processors \cup {"pset", Null}]
           /\ pstate' \in [Processors -> {"RUNNING", "IDLE", "DISPATCHING"}]
           /\ next_thread' \in [Processors -> Threads \cup {Null}]
           /\ \A p \in Processors : next_thread'[p] # Null <=> pstate'[p] = "DISPATCHING"
<1> DEFINE S == {t \in T : Asleep(state[t])}
<1>1. S \in SUBSET Threads /\ thread_setrun(S, runq)
  BY Zenon DEF Awaken
<1>2. \A t \in S : "RUN" \notin state[t]
  BY Zenon DEF Asleep
<1>3. \A t \in S : runq[t] = Null /\ ~IsNext(t) /\ t \notin H /\ ~OnACpu(t) /\ t \notin swapin
  BY <1>1, <1>2, Nowhere, Zenon DEF PInv
<1>4. state' \in [Threads -> SUBSET Bits]
  BY Zenon DEF Awaken, PInv, PlaceTypes, Bits
<1>5. \A t \in Threads : "RUN" \in state'[t] <=> "RUN" \in state[t] \/ t \in S
  BY Zenon DEF Awaken, PInv, PlaceTypes
<1>6. timer' \in [Threads -> BOOLEAN]
  BY Zenon DEF Awaken, PInv, WaitTypes
<1>7. \A t \in S : ~OnACpu(t)'
  BY <1>1, <1>3, Zenon DEF OnACpu
<1> HIDE DEF S
<1>8. Once(H)'
  BY <1>1, <1>3, <1>5, <1>7, SetrunOnce, Zenon
<1> QED
  BY <1>1, <1>3, <1>4, <1>6, <1>8, Setrun, Zenon DEF PInv

\* Threads whose waits end have no event.
LEMMA EndWaitTypes ==
    ASSUME WaitTypes, NEW T, EndWait(T, state, runq)
    PROVE  wait_event' \in [Threads -> WaitEvents]
  BY Zenon DEF EndWait, WaitTypes, WaitEvents

\* The same for clear_wait and thread_go, which may find the wait ended.
LEMMA EndWaitIfAnyInv ==
    ASSUME NEW H, PInv(H), NEW t \in Threads,
           \/ Awaken({t}, state, runq)
           \/ UNCHANGED <<state, dispvars>> /\ timer' \in [Threads -> BOOLEAN],
           wait_event' \in [Threads -> WaitEvents],
           UNCHANGED <<cpuvars, swapvars, dowaiting>>,
           \/ UNCHANGED clearing
           \/ \E c \in Clearers : clearing' = [clearing EXCEPT ![c] = NoCall]
           \/ \E c \in Clearers : clearing' = [clearing EXCEPT ![c] =
                   [stage |-> "locked", thread |-> t, event |-> wait_event[t]]]
    PROVE  PInv(H)'
<1> USE DEF cpuvars, swapvars, dispvars
<1>1. \A u \in Threads : \A p \in Processors : OnCpu(u, p)' <=> OnCpu(u, p)
  BY Zenon DEF OnCpu
<1>2. /\ clearing' \in [Clearers -> [stage : {"none", "call", "locked"},
                                     thread : Threads \cup {Null}, event : WaitEvents]]
      /\ \A c \in Clearers : clearing'[c].stage # "none" => clearing'[c].thread \in Threads
  BY SMTT(30) DEF PInv, WaitTypes, NoCall, WaitEvents
<1>3. CASE Awaken({t}, state, runq)
  BY <1>1, <1>2, <1>3, AwakenInv, Zenon DEF PInv, PlaceTypes, WaitTypes, Switches
<1>4. CASE UNCHANGED <<state, dispvars>> /\ timer' \in [Threads -> BOOLEAN]
  <2>1. WaitTypes'
    BY <1>2, <1>4, Zenon DEF PInv, WaitTypes
  <2> QED
    BY <1>4, <2>1, MarkInv, Zenon DEF PInv, PlaceTypes
<1> QED
  BY <1>3, <1>4, Zenon

\* thread_select takes at most one thread off a run queue, for its processor.
LEMMA SelectInv ==
    ASSUME NEW H, PInv(H), NEW p \in Processors, thread_select(p),
           ppc[p] \in {"run", "asserted", "block", "select"}
    PROVE  PInv(H)'
<1> USE SchedAssumption DEF waitvars, suspvars, swapvars
<1>0. sel[p] = Null /\ old[p] = Null
  BY Zenon DEF PInv, Switches
<1>1. WaitTypes'
  BY Zenon DEF thread_select, PInv, WaitTypes
<1>2. ASSUME NEW t \in Threads, runq[t] # Null, Take(p, t) PROVE PInv(H)'
  <2> USE <1>2 DEF Take, thread_select
  <2>1. PlaceTypes' /\ Switches'
    BY <1>0, ZenonT(60) DEF PInv, PlaceTypes, Switches, Stages
  <2>2. \A u \in Threads, q \in Processors :
          OnCpu(u, q)' <=> OnCpu(u, q) \/ (u = t /\ q = p)
    BY <1>0, SMTT(30) DEF OnCpu, PInv, PlaceTypes
  <2>3. \A u \in Threads : OnACpu(u)' <=> OnACpu(u) \/ u = t
    BY <2>2, Zenon DEF OnACpu
  <2>4. \A u \in Threads : IsNext(u)' <=> IsNext(u)
    BY Zenon DEF IsNext
  <2>5. \A u \in Threads : runq'[u] = IF u = t THEN Null ELSE runq[u]
    BY Zenon DEF PInv, PlaceTypes
  <2>6. ~OnACpu(t) /\ ~IsNext(t) /\ t \notin swapin /\ t \notin H /\ "RUN" \in state[t]
    BY Zenon DEF PInv, Once, NotTwice, Somewhere
  <2>7. ASSUME NEW u \in Threads
        PROVE  NotTwice(u, H)' /\ ("RUN" \in state'[u] <=> Somewhere(u, H)')
    <3>1. CASE u = t
      BY <2>2, <2>3, <2>4, <2>5, <2>6, <3>1, Zenon DEF PInv, Once, NotTwice, Somewhere, OnACpu, IsNext
    <3>2. CASE u # t
      BY <2>2, <2>3, <2>4, <2>5, <3>2, Zenon DEF PInv, Once, NotTwice, Somewhere
    <3> QED
      BY <3>1, <3>2, Zenon
  <2> QED
    BY <1>1, <2>1, <2>7, Zenon DEF PInv, Once
<1>3. CASE /\ UNCHANGED runq /\ ppc' = [ppc EXCEPT ![p] = "invoke"]
           /\ cur[p] # Null /\ sel' = [sel EXCEPT ![p] = cur[p]]
  <2> USE <1>3 DEF thread_select
  <2>1. PlaceTypes' /\ Switches'
    BY <1>0, Zenon DEF PInv, PlaceTypes, Switches, Stages
  <2>2. \A u \in Threads : \A q \in Processors : OnCpu(u, q)' <=> OnCpu(u, q)
    BY <1>0, Zenon DEF OnCpu, PInv, PlaceTypes
  <2> QED
    BY <1>1, <2>1, <2>2, SameOnce, Zenon DEF PInv
<1>4. CASE UNCHANGED <<runq, sel>> /\ ppc' = [ppc EXCEPT ![p] = "setidle"]
  <2> USE <1>4 DEF thread_select
  <2>1. PlaceTypes' /\ Switches'
    BY <1>0, Zenon DEF PInv, PlaceTypes, Switches, Stages
  <2>2. \A u \in Threads : \A q \in Processors : OnCpu(u, q)' <=> OnCpu(u, q)
    BY <1>0, Zenon DEF OnCpu, PInv, PlaceTypes
  <2> QED
    BY <1>1, <2>1, <2>2, SameOnce, Zenon DEF PInv
<1> QED
  BY <1>2, <1>3, <1>4, Zenon DEF thread_select, LocalQueue, GlobalQueue, StaysRunnable

\* Marking the processor idle, and the idle thread's return to thread_block,
\* move nobody.
LEMMA IdleInv ==
    ASSUME NEW H, PInv(H), NEW p \in Processors,
           choose_pset_thread(p) \/ idle_thread_not_dispatched(p)
    PROVE  PInv(H)'
<1> USE SchedAssumption DEF waitvars, suspvars, swapvars, choose_pset_thread, idle_thread_not_dispatched
<1>0. sel[p] = Null /\ old[p] = Null
  BY Zenon DEF PInv, Switches
<1>1. PlaceTypes' /\ WaitTypes'
  BY Zenon DEF PInv, PlaceTypes, WaitTypes, Stages
<1>2. Switches'
  BY <1>0, SMTT(30) DEF PInv, PlaceTypes, Switches
<1>3. \A u \in Threads : \A q \in Processors : OnCpu(u, q)' <=> OnCpu(u, q)
  BY <1>0, ZenonT(60) DEF OnCpu, PInv, PlaceTypes
<1>4. Once(H)'
  BY <1>3, SameOnce, Zenon DEF PInv
<1> QED
  BY <1>1, <1>2, <1>4, Zenon DEF PInv

\* The idle thread hands its processor to the thread dispatched to it.
LEMMA DispatchedInv ==
    ASSUME NEW H, PInv(H), NEW p \in Processors, idle_thread_dispatched(p)
    PROVE  PInv(H)'
<1> USE SchedAssumption DEF waitvars, suspvars, swapvars, idle_thread_dispatched
<1>0. sel[p] = Null /\ old[p] = Null /\ next_thread[p] \in Threads
  BY Zenon DEF PInv, Switches, PlaceTypes
<1> DEFINE t == next_thread[p]
<1>1. PlaceTypes' /\ WaitTypes' /\ Switches'
  BY <1>0, Zenon DEF PInv, PlaceTypes, WaitTypes, Switches, Stages
<1>2. \A u \in Threads, q \in Processors :
        OnCpu(u, q)' <=> OnCpu(u, q) \/ (u = t /\ q = p)
  BY <1>0, Zenon DEF OnCpu, PInv, PlaceTypes
<1>3. ~OnACpu(t) /\ runq[t] = Null /\ t \notin swapin /\ t \notin H
      /\ "RUN" \in state[t] /\ \A q \in Processors : next_thread[q] = t => q = p
  BY <1>0, Zenon DEF PInv, Once, NotTwice, Somewhere, IsNext
<1>4. \A u \in Threads, q \in Processors : next_thread'[q] = u <=> next_thread[q] = u /\ u # t
  BY <1>3, Zenon DEF PInv, PlaceTypes
<1>5. \A u \in Threads : /\ OnACpu(u)' <=> OnACpu(u) \/ u = t
                         /\ IsNext(u)' <=> IsNext(u) /\ u # t
  BY <1>2, <1>4, Zenon DEF OnACpu, IsNext
<1> HIDE DEF t
<1>6. ASSUME NEW u \in Threads
      PROVE  NotTwice(u, H)' /\ ("RUN" \in state'[u] <=> Somewhere(u, H)')
  <2>1. CASE u = t
    BY <1>2, <1>3, <1>4, <1>5, <2>1, Zenon DEF PInv, Once, NotTwice, Somewhere, OnACpu
  <2>2. CASE u # t
    BY <1>2, <1>4, <1>5, <2>2, SMTT(30) DEF PInv, Once, NotTwice, Somewhere
  <2> QED
    BY <2>1, <2>2, Zenon
<1> QED
  BY <1>1, <1>6, Zenon DEF PInv, Once

\* A step that moves only t leaves every thread in one place if it leaves t
\* in one, or, with TH_RUN cleared, in none.
LEMMA MoveOnce ==
    ASSUME NEW H, Once(H), NEW t \in Threads,
           \A u \in Threads \ {t} :
              /\ \A q \in Processors : OnCpu(u, q)' <=> OnCpu(u, q)
              /\ \A q \in Processors : next_thread'[q] = u <=> next_thread[q] = u
              /\ runq'[u] = runq[u]
              /\ u \in swapin' <=> u \in swapin
              /\ "RUN" \in state'[u] <=> "RUN" \in state[u],
           NotTwice(t, H)', "RUN" \in state'[t] <=> Somewhere(t, H)'
    PROVE  Once(H)'
<1> SUFFICES ASSUME NEW u \in Threads \ {t}
             PROVE  NotTwice(u, H)' /\ ("RUN" \in state'[u] <=> Somewhere(u, H)')
  BY Zenon DEF Once
<1>1. (OnACpu(u)' <=> OnACpu(u)) /\ (IsNext(u)' <=> IsNext(u))
  BY Zenon DEF OnACpu, IsNext
<1>2. NotTwice(u, H) /\ ("RUN" \in state[u] <=> Somewhere(u, H))
  BY Zenon DEF Once
<1>3. NotTwice(u, H)'
  BY <1>1, <1>2, Zenon DEF NotTwice
<1>4. Somewhere(u, H)' <=> Somewhere(u, H)
  BY <1>1, Zenon DEF Somewhere
<1> QED
  BY <1>2, <1>3, <1>4, Zenon

\* thread_invoke swaps the roles of the two threads of its processor, or
\* hands the new one to the swapin thread.
LEMMA InvokeInv ==
    ASSUME NEW H, PInv(H), NEW p \in Processors, thread_invoke(p)
    PROVE  PInv(H)'
<1> USE SchedAssumption DEF waitvars, suspvars, dispvars, swapvars, thread_invoke
<1>t. PICK t \in Threads \cup {Null} : t = sel[p]
  BY Zenon DEF PInv, PlaceTypes
<1> USE <1>t
<1>0. ppc[p] = "invoke" /\ old[p] = Null /\ t \in Threads \cup {Null}
  BY Zenon DEF PInv, Switches, PlaceTypes
<1>1. WaitTypes'
  BY Zenon DEF PInv, WaitTypes
<1>2. MarkInterruptible(t) => /\ state' \in [Threads -> SUBSET Bits]
                              /\ \A u \in Threads : "RUN" \in state'[u] <=> "RUN" \in state[u]
  BY SMTT(30) DEF MarkInterruptible, PInv, PlaceTypes
<1>3. CASE /\ t = cur[p] /\ MarkInterruptible(t)
           /\ ppc' = [ppc EXCEPT ![p] = "run"] /\ sel' = [sel EXCEPT ![p] = Null]
           /\ UNCHANGED <<cur, old, swapvars>>
  <2>1. PlaceTypes' /\ Switches'
    BY <1>0, <1>2, <1>3, Zenon DEF PInv, PlaceTypes, Switches, Stages
  <2>2. \A u \in Threads : \A q \in Processors : OnCpu(u, q)' <=> OnCpu(u, q)
    BY <1>0, <1>3, Zenon DEF OnCpu, PInv, PlaceTypes
  <2> QED
    BY <1>1, <1>2, <1>3, <2>1, <2>2, SameOnce, Zenon DEF PInv
<1>4. CASE /\ t # cur[p] /\ t \in swapped
           /\ swapped' = swapped \ {t} /\ swapin' = swapin \cup {t}
           /\ ppc' = [ppc EXCEPT ![p] = "select"] /\ sel' = [sel EXCEPT ![p] = Null]
           /\ UNCHANGED <<state, cur, old>>
  <2>0. t \in Threads
    BY <1>4, Zenon DEF PInv, PlaceTypes
  <2>1. PlaceTypes' /\ Switches'
    BY <1>0, <1>4, <2>0, ZenonT(60) DEF PInv, PlaceTypes, Switches, Stages
  <2>2. OnCpu(t, p)
    BY Zenon DEF OnCpu
  <2>3. /\ runq[t] = Null /\ ~IsNext(t) /\ t \notin H /\ t \notin swapin
        /\ "RUN" \in state[t] /\ \A q \in Processors : OnCpu(t, q) => q = p
    BY <2>0, <2>2, OnOneCpu, SMTT(30) DEF PInv
  <2>4. \A u \in Threads, q \in Processors : OnCpu(u, q)' <=> OnCpu(u, q) /\ u # t
    BY <1>0, <1>4, <2>3, ZenonT(60) DEF OnCpu, PInv, PlaceTypes
  <2>5. ~OnACpu(t)' /\ ~IsNext(t)'
    BY <2>0, <2>3, <2>4, Zenon DEF OnACpu, IsNext
  <2>6. NotTwice(t, H)' /\ ("RUN" \in state'[t] <=> Somewhere(t, H)')
    BY <1>4, <2>0, <2>3, <2>5, Zenon DEF NotTwice, Somewhere, OnACpu, IsNext
  <2>7. \A u \in Threads \ {t} :
           /\ \A q \in Processors : OnCpu(u, q)' <=> OnCpu(u, q)
           /\ \A q \in Processors : next_thread'[q] = u <=> next_thread[q] = u
           /\ runq'[u] = runq[u]
           /\ u \in swapin' <=> u \in swapin
           /\ "RUN" \in state'[u] <=> "RUN" \in state[u]
    BY <1>4, <2>4, Zenon
  <2>8. Once(H)'
    BY <2>0, <2>6, <2>7, MoveOnce, Zenon DEF PInv
  <2> QED
    BY <1>1, <2>1, <2>8, Zenon DEF PInv
<1>5. CASE /\ t # cur[p] /\ MarkInterruptible(t)
           /\ cur' = [cur EXCEPT ![p] = t] /\ old' = [old EXCEPT ![p] = cur[p]]
           /\ sel' = [sel EXCEPT ![p] = Null] /\ ppc' = [ppc EXCEPT ![p] = "dispatch"]
           /\ swapped' = swapped \ {t} /\ UNCHANGED swapin
  <2>1. PlaceTypes' /\ Switches'
    BY <1>0, <1>2, <1>5, ZenonT(60) DEF PInv, PlaceTypes, Switches, Stages
  <2>2. \A u \in Threads : \A q \in Processors : OnCpu(u, q)' <=> OnCpu(u, q)
    BY <1>0, <1>5, Zenon DEF OnCpu, PInv, PlaceTypes
  <2> QED
    BY <1>1, <1>2, <1>5, <2>1, <2>2, SameOnce, Zenon DEF PInv
<1> QED
  BY <1>3, <1>4, <1>5, Zenon

\* thread_dispatch leaves the old thread stopped or waiting, and nowhere, or
\* makes it runnable again.
LEMMA ThreadDispatchInv ==
    ASSUME NEW H, PInv(H), NEW p \in Processors, thread_dispatch(p)
    PROVE  PInv(H)'
<1> USE SchedAssumption DEF waitvars, suspvars, thread_dispatch
<1>t. PICK t \in Threads \cup {Null} : t = old[p]
  BY Zenon DEF PInv, PlaceTypes
<1> USE <1>t
<1>0. ppc[p] = "dispatch" /\ sel[p] = Null /\ t \in Threads \cup {Null} /\ (t # Null => t # cur[p])
  BY Zenon DEF PInv, Switches, PlaceTypes
<1>1. WaitTypes' /\ swapped' \subseteq Threads
  BY <1>0, Zenon DEF PInv, WaitTypes, PlaceTypes
<1>2. CASE t = Null
  <2> USE <1>2
  <2>1. PlaceTypes' /\ Switches'
    BY <1>0, <1>1, ZenonT(60) DEF PInv, PlaceTypes, Switches, Stages, dispvars
  <2>2. \A u \in Threads : \A q \in Processors : OnCpu(u, q)' <=> OnCpu(u, q)
    BY <1>0, ZenonT(60) DEF OnCpu, PInv, PlaceTypes, dispvars
  <2> QED
    BY <1>1, <2>1, <2>2, SameOnce, Zenon DEF PInv, dispvars
<1>3. CASE t # Null
  <2>0. t \in Threads /\ OnCpu(t, p)
    BY <1>0, <1>3, Zenon DEF OnCpu
  <2>1. /\ runq[t] = Null /\ ~IsNext(t) /\ t \notin H /\ t \notin swapin
        /\ "RUN" \in state[t] /\ \A q \in Processors : OnCpu(t, q) => q = p
    BY <2>0, OnOneCpu, Zenon DEF PInv
  <2>2. /\ ppc' \in [Processors -> Stages] /\ old' \in [Processors -> Threads \cup {Null}]
        /\ \A q \in Processors \ {p} : ppc'[q] = ppc[q] /\ old'[q] = old[q]
        /\ ppc'[p] \in {"run", "wakeup"} /\ (old'[p] # Null => ppc'[p] = "wakeup")
    BY <1>3, <2>0, ZenonT(60) DEF PInv, PlaceTypes, Stop, Leave, Stages
  <2>3. \A u \in Threads, q \in Processors : OnCpu(u, q)' <=> OnCpu(u, q) /\ u # t
    <3> TAKE u \in Threads, q \in Processors
    <3>1. CASE q = p
      BY <1>0, <2>2, <3>1, Zenon DEF OnCpu
    <3>2. CASE q # p
      BY <2>1, <2>2, <3>2, Zenon DEF OnCpu
    <3> QED
      BY <3>1, <3>2, Zenon
  <2>4. CASE UNCHANGED dispvars /\ state' = [state EXCEPT ![t] = @ \ {"RUN"}]
    <3> USE <2>4 DEF dispvars
    <3>1. PlaceTypes' /\ Switches'
      BY <1>1, <2>0, <2>2, Zenon DEF PInv, PlaceTypes, Switches, Stages
    <3>2. \A u \in Threads : "RUN" \in state'[u] <=> "RUN" \in state[u] /\ u # t
      BY Zenon DEF PInv, PlaceTypes
    <3>3. ~OnACpu(t)' /\ ~IsNext(t)'
      BY <2>0, <2>1, <2>3, Zenon DEF OnACpu, IsNext
    <3>4. NotTwice(t, H)' /\ ("RUN" \in state'[t] <=> Somewhere(t, H)')
      BY <2>0, <2>1, <3>2, <3>3, Zenon DEF NotTwice, Somewhere, OnACpu, IsNext
    <3>5. \A u \in Threads \ {t} :
             /\ \A q \in Processors : OnCpu(u, q)' <=> OnCpu(u, q)
             /\ \A q \in Processors : next_thread'[q] = u <=> next_thread[q] = u
             /\ runq'[u] = runq[u]
             /\ u \in swapin' <=> u \in swapin
             /\ "RUN" \in state'[u] <=> "RUN" \in state[u]
      BY <2>3, <3>2, Zenon
    <3>6. Once(H)'
      BY <2>0, <3>4, <3>5, MoveOnce, Zenon DEF PInv
    <3> QED
      BY <1>1, <3>1, <3>6, Zenon DEF PInv
  <2>5. CASE UNCHANGED state /\ thread_setrun({t}, runq)
    <3>1. /\ runq' \in [Threads -> Processors \cup {"pset", Null}]
          /\ pstate' \in [Processors -> {"RUNNING", "IDLE", "DISPATCHING"}]
          /\ next_thread' \in [Processors -> Threads \cup {Null}]
          /\ \A q \in Processors : next_thread'[q] # Null <=> pstate'[q] = "DISPATCHING"
      <4>1. {t} \in SUBSET Threads /\ \A u \in {t} : runq[u] = Null /\ ~IsNext(u)
        BY <2>0, <2>1, Zenon
      <4> QED
        BY <2>5, <4>1, Setrun, Zenon DEF PInv
    <3>2. PlaceTypes' /\ Switches'
      BY <1>0, <1>1, <2>2, <2>5, <3>1, Zenon DEF PInv, PlaceTypes, Switches
    <3>3. ~OnACpu(t)'
      BY <2>0, <2>3, Zenon DEF OnACpu
    <3>4. Once(H)'
      <4>1. {t} \in SUBSET Threads
        BY <2>0, Zenon
      <4>2. \A u \in Threads \ {t} :
               /\ \A q \in Processors : OnCpu(u, q)' <=> OnCpu(u, q)
               /\ u \in swapin' <=> u \in swapin
               /\ "RUN" \in state'[u] <=> "RUN" \in state[u]
        BY <2>3, <2>5, Zenon
      <4>3. \A u \in {t} : /\ runq[u] = Null /\ ~IsNext(u) /\ u \notin H
                           /\ ~OnACpu(u)' /\ u \notin swapin' /\ "RUN" \in state'[u]
        BY <2>1, <2>5, <3>3, Zenon
      <4> QED
        BY <2>5, <4>1, <4>2, <4>3, SetrunOnce, Zenon
    <3> QED
      BY <1>1, <3>2, <3>4, Zenon DEF PInv
  <2> QED
    BY <1>3, <2>4, <2>5, Zenon DEF Stop, Leave
<1> QED
  BY <1>2, <1>3, Zenon

\* The wakeup of the threads that wait for another to stop.
LEMMA WakeupActiveInv ==
    ASSUME NEW H, PInv(H), NEW p \in Processors, wakeup_active(p)
    PROVE  PInv(H)'
<1> USE SchedAssumption DEF suspvars, swapvars, wakeup_active
<1>1. Sleepers(old[p]) \in SUBSET Threads
  BY Zenon DEF Sleepers
<1>2. \A u \in Threads : \A q \in Processors : OnCpu(u, q)' <=> OnCpu(u, q)
  BY Zenon DEF OnCpu, PInv, PlaceTypes
<1>3. /\ Once(H)' /\ state' \in [Threads -> SUBSET Bits]
      /\ wait_event' \in [Threads -> WaitEvents] /\ timer' \in [Threads -> BOOLEAN]
      /\ runq' \in [Threads -> Processors \cup {"pset", Null}]
      /\ pstate' \in [Processors -> {"RUNNING", "IDLE", "DISPATCHING"}]
      /\ next_thread' \in [Processors -> Threads \cup {Null}]
      /\ \A q \in Processors : next_thread'[q] # Null <=> pstate'[q] = "DISPATCHING"
  <2>1. PICK T \in SUBSET Threads : T = Sleepers(old[p])
    BY <1>1, Zenon
  <2>2. EndWait(T, state, runq)
    BY <2>1, Zenon
  <2>3. Awaken(T, state, runq)
    BY <2>2, Zenon DEF EndWait
  <2> QED
    BY <1>2, <2>2, <2>3, AwakenInv, EndWaitTypes, Zenon DEF PInv
<1>4. PlaceTypes' /\ WaitTypes' /\ Switches'
  BY <1>3, Zenon DEF PInv, PlaceTypes, WaitTypes, Switches, Stages
<1> QED
  BY <1>3, <1>4, Zenon DEF PInv

\* thread_wakeup and thread_wakeup_one.
LEMMA WakeupInv ==
    ASSUME NEW H, PInv(H), NEW T \in SUBSET Threads, EndWait(T, state, runq),
           UNCHANGED <<clearing, suspvars, cpuvars, swapvars>>
    PROVE  PInv(H)'
<1> USE DEF suspvars, cpuvars, swapvars
<1>1. \A u \in Threads : \A q \in Processors : OnCpu(u, q)' <=> OnCpu(u, q)
  BY Zenon DEF OnCpu
<1>2. Awaken(T, state, runq)
  BY Zenon DEF EndWait
<1>3. wait_event' \in [Threads -> WaitEvents]
  BY EndWaitTypes, Zenon DEF PInv
<1> QED
  BY <1>1, <1>2, <1>3, AwakenInv, Zenon DEF PInv, PlaceTypes, WaitTypes, Switches

\* A thread that is taken from the swapin queue, or whose suspension ends
\* while it is stopped, becomes runnable.
LEMMA SetrunInv ==
    ASSUME NEW H, PInv(H), NEW T \in SUBSET Threads, thread_setrun(T, runq),
           \A t \in Threads \ T :
               /\ t \in swapin' <=> t \in swapin
               /\ "RUN" \in state'[t] <=> "RUN" \in state[t],
           \A t \in T : /\ runq[t] = Null /\ ~IsNext(t) /\ t \notin H /\ ~OnACpu(t)
                        /\ t \notin swapin' /\ "RUN" \in state'[t],
           state' \in [Threads -> SUBSET Bits], swapin' \subseteq Threads,
           UNCHANGED <<waitvars, clearing, dowaiting, cpuvars, swapped>>
    PROVE  PInv(H)'
<1> USE DEF cpuvars, waitvars
<1>1. \A u \in Threads : \A q \in Processors : OnCpu(u, q)' <=> OnCpu(u, q)
  BY Zenon DEF OnCpu
<1>2. \A t \in T : ~OnACpu(t)'
  BY <1>1, Zenon DEF OnACpu
<1>3. Once(H)'
  BY <1>1, <1>2, SetrunOnce, Zenon
<1>4. /\ runq' \in [Threads -> Processors \cup {"pset", Null}]
      /\ pstate' \in [Processors -> {"RUNNING", "IDLE", "DISPATCHING"}]
      /\ next_thread' \in [Processors -> Threads \cup {Null}]
      /\ \A q \in Processors : next_thread'[q] # Null <=> pstate'[q] = "DISPATCHING"
  BY Setrun, Zenon DEF PInv
<1> QED
  BY <1>3, <1>4, Zenon DEF PInv, PlaceTypes, WaitTypes, Switches

\* thread_doswapin.
LEMMA SwapinInv ==
    ASSUME NEW H, PInv(H), NEW t \in Threads, thread_doswapin(t)
    PROVE  PInv(H)'
<1> USE DEF thread_doswapin, suspvars
<1>1. /\ runq[t] = Null /\ ~IsNext(t) /\ t \notin H /\ ~OnACpu(t) /\ "RUN" \in state[t]
  BY Zenon DEF PInv, Once, NotTwice, Somewhere
<1>2. {t} \in SUBSET Threads /\ thread_setrun({t}, runq)
  BY Zenon
<1>3. state' \in [Threads -> SUBSET Bits] /\ swapin' \subseteq Threads
  BY Zenon DEF PInv, PlaceTypes
<1>4. \A u \in {t} : /\ runq[u] = Null /\ ~IsNext(u) /\ u \notin H /\ ~OnACpu(u)
                     /\ u \notin swapin' /\ "RUN" \in state'[u]
  BY <1>1, Zenon
<1>5. \A u \in Threads \ {t} : /\ u \in swapin' <=> u \in swapin
                               /\ "RUN" \in state'[u] <=> "RUN" \in state[u]
  BY Zenon
<1> QED
  BY <1>2, <1>3, <1>4, <1>5, SetrunInv, Zenon

\* thread_resume.
LEMMA ResumeInv ==
    ASSUME NEW H, PInv(H), NEW t \in Threads, NEW u \in Threads, thread_resume(t, u)
    PROVE  PInv(H)'
<1> USE DEF thread_resume
<1>1. CASE UNCHANGED <<state, dispvars>>
  <2>1. WaitTypes'
    BY Zenon DEF PInv, WaitTypes, waitvars
  <2> QED
    BY <1>1, <2>1, MarkInv, Zenon DEF PInv, PlaceTypes, cpuvars
<1>2. CASE Unsuspend(u)
  <2>1. PICK T \in SUBSET Threads :
          T = IF (state[u] \ {"SUSP", "HALTED"}) \cap {"RUN", "WAIT"} = {} THEN {u} ELSE {}
    BY Zenon
  <2>2. thread_setrun(T, runq)
    BY <1>2, <2>1, Zenon DEF Unsuspend
  <2>3. state' \in [Threads -> SUBSET Bits] /\ swapin' \subseteq Threads
    BY <1>2, Zenon DEF Unsuspend, PInv, PlaceTypes, Bits, swapvars
  <2>4. \A v \in Threads : "RUN" \in state'[v] <=> "RUN" \in state[v] \/ v \in T
    BY <1>2, <2>1, Zenon DEF Unsuspend, PInv, PlaceTypes
  <2>5. \A v \in T : "RUN" \notin state[v]
    BY <2>1, Zenon
  <2>6. \A v \in T : runq[v] = Null /\ ~IsNext(v) /\ v \notin H /\ ~OnACpu(v) /\ v \notin swapin
    BY <2>5, Nowhere, Zenon DEF PInv
  <2>7. UNCHANGED <<waitvars, clearing, dowaiting, cpuvars, swapped, swapin>>
    BY Zenon DEF swapvars
  <2> QED
    BY <2>2, <2>3, <2>4, <2>6, <2>7, SetrunInv, Zenon
<1> QED
  BY <1>1, <1>2, Zenon

\* A thread on a run queue that thread_dowait stops is taken off it, and is
\* nowhere.
LEMMA DowaitInv ==
    ASSUME NEW H, PInv(H), NEW t \in Threads, thread_dowait(t)
    PROVE  PInv(H)'
<1> USE SchedAssumption
<1>0. PICK u \in Threads : u = dowaiting[t]
  BY Zenon DEF thread_dowait, PInv, WaitTypes
<1>1. CASE /\ At(t, "run") /\ runq[u] # Null
           /\ runq' = [runq EXCEPT ![u] = Null]
           /\ dowaiting' = [dowaiting EXCEPT ![t] = Null]
           /\ \E p \in Processors : cur[p] = t /\ Stop(p, u)
           /\ UNCHANGED <<waitvars, pstate, next_thread, clearing, cur, sel, swapvars>>
  <2> USE DEF waitvars, swapvars
  <2>0. PICK p \in Processors : cur[p] = t /\ Stop(p, u)
    BY <1>1, Zenon
  <2>1. ppc[p] = "run" /\ sel[p] = Null /\ old[p] = Null
    <3>1. PICK q \in Processors : cur[q] = t /\ ppc[q] = "run"
      BY <1>1, Zenon DEF At
    <3>2. p = q
      BY <2>0, <3>1, OnOneCpu, SMTT(30) DEF PInv, OnCpu
    <3> QED
      BY <3>1, <3>2, Zenon DEF PInv, Switches
  <2>2. PlaceTypes' /\ WaitTypes' /\ Switches'
    BY <1>1, <2>0, <2>1, Zenon DEF Stop, PInv, PlaceTypes, WaitTypes, Switches, Stages
  <2>3. \A v \in Threads : \A q \in Processors : OnCpu(v, q)' <=> OnCpu(v, q)
    BY <1>1, <2>0, <2>1, Zenon DEF Stop, OnCpu, PInv, PlaceTypes
  <2>4. ~OnACpu(u) /\ ~IsNext(u) /\ u \notin swapin /\ u \notin H
    BY <1>1, Zenon DEF PInv, Once, NotTwice
  <2>5. ~OnACpu(u)' /\ ~IsNext(u)'
    BY <1>1, <2>3, <2>4, Zenon DEF OnACpu, IsNext
  <2>6. \A v \in Threads : /\ "RUN" \in state'[v] <=> "RUN" \in state[v] /\ v # u
                           /\ runq'[v] = IF v = u THEN Null ELSE runq[v]
    BY <1>1, <2>0, Zenon DEF Stop, PInv, PlaceTypes
  <2>7. NotTwice(u, H)' /\ ("RUN" \in state'[u] <=> Somewhere(u, H)')
    BY <1>1, <2>4, <2>5, <2>6, Zenon DEF NotTwice, Somewhere, OnACpu, IsNext
  <2>8. \A v \in Threads \ {u} :
           /\ \A q \in Processors : OnCpu(v, q)' <=> OnCpu(v, q)
           /\ \A q \in Processors : next_thread'[q] = v <=> next_thread[q] = v
           /\ runq'[v] = runq[v]
           /\ v \in swapin' <=> v \in swapin
           /\ "RUN" \in state'[v] <=> "RUN" \in state[v]
    BY <1>1, <2>3, <2>6, Zenon
  <2>9. Once(H)'
    BY <2>7, <2>8, MoveOnce, Zenon DEF PInv
  <2> QED
    BY <2>2, <2>9, Zenon DEF PInv
<1>2. CASE /\ At(t, "run") /\ state' = [state EXCEPT ![t] = @ \cup {"WAIT"}]
           /\ wait_event' = [wait_event EXCEPT ![t] = u] /\ Goto(t, "block")
           /\ UNCHANGED <<timer, dispvars, dowaiting, old, clearing, cur, sel, swapvars>>
  <2>1. /\ state' \in [Threads -> SUBSET Bits]
        /\ \A v \in Threads : "RUN" \in state'[v] <=> "RUN" \in state[v]
    BY <1>2, Zenon DEF PInv, PlaceTypes, Bits
  <2>2. WaitTypes'
    BY <1>2, Zenon DEF PInv, WaitTypes, WaitEvents
  <2> QED
    BY <1>2, <2>1, <2>2, MarkInv, Zenon
<1>3. CASE /\ dowaiting' = [dowaiting EXCEPT ![t] = Null]
           /\ UNCHANGED <<state, waitvars, dispvars, old, ppc, clearing, cur, sel, swapvars>>
  <2>1. WaitTypes'
    BY <1>3, Zenon DEF PInv, WaitTypes, waitvars
  <2> QED
    BY <1>3, <2>1, MarkInv, Zenon DEF PInv, PlaceTypes
<1> QED
  BY <1>0, <1>1, <1>2, <1>3, Zenon DEF thread_dowait

-----------------------------------------------------------------------------
\* At the start every thread is on a run queue.
LEMMA InitPlaces == Init => PInv({})
<1> SUFFICES ASSUME Init PROVE PInv({})
  BY Zenon
<1> USE SchedAssumption DEF Init
<1>1. PlaceTypes /\ WaitTypes /\ Switches
  BY Zenon DEF PlaceTypes, WaitTypes, Switches, Bits, Stages, WaitEvents, NoCall, Clearers
<1>2. Once({})
  BY Zenon DEF Once, NotTwice, Somewhere, OnACpu, IsNext, OnCpu
<1> QED
  BY <1>1, <1>2, Zenon DEF PInv

\* Every step leaves every thread in one place.
LEMMA NextPlaces ==
    ASSUME NEW H, PInv(H), [Next]_vars
    PROVE  PInv(H)'
<1> USE SchedAssumption
<1>1. ASSUME NEW p \in Processors, Switch(p) PROVE PInv(H)'
  <2>1. CASE thread_block(p) \/ thread_select_again(p)
    BY <2>1, SelectInv, Zenon DEF thread_block, thread_select_again
  <2>2. CASE choose_pset_thread(p) \/ idle_thread_not_dispatched(p)
    BY <2>2, IdleInv, Zenon
  <2> QED
    BY <1>1, <2>1, <2>2, InvokeInv, ThreadDispatchInv, WakeupActiveInv, DispatchedInv, Zenon DEF Switch
<1>2. ASSUME NEW t \in Threads, NEW e \in Events \cup {Null}, NEW i \in BOOLEAN, assert_wait(t, e, i)
      PROVE  PInv(H)'
  <2> USE <1>2 DEF assert_wait, suspvars
  <2>1. /\ state' \in [Threads -> SUBSET Bits] /\ WaitTypes'
        /\ \A u \in Threads : "RUN" \in state'[u] <=> "RUN" \in state[u]
    BY Zenon DEF PInv, PlaceTypes, WaitTypes, WaitEvents, Bits
  <2> QED
    BY <2>1, MarkInv, Zenon DEF Free
<1>3. ASSUME NEW t \in Threads, NEW timeout \in BOOLEAN, thread_will_wait(t, timeout)
      PROVE  PInv(H)'
  <2> USE <1>3 DEF thread_will_wait, suspvars
  <2>1. /\ state' \in [Threads -> SUBSET Bits] /\ WaitTypes'
        /\ \A u \in Threads : "RUN" \in state'[u] <=> "RUN" \in state[u]
    BY Zenon DEF PInv, PlaceTypes, WaitTypes, Bits
  <2> QED
    BY <2>1, MarkInv, Zenon DEF Free
<1>4. ASSUME NEW t \in Threads, thread_set_timeout(t) PROVE PInv(H)'
  <2> USE <1>4 DEF thread_set_timeout, suspvars
  <2>1. WaitTypes'
    <3>1. ("WAIT" \in state[t]) \in BOOLEAN
      BY MemberIsBoolean, Zenon
    <3>2. timer' \in [Threads -> BOOLEAN]
      BY <3>1, Zenon DEF PInv, WaitTypes
    <3> QED
      BY <3>2, Zenon DEF PInv, WaitTypes
  <2> QED
    BY <2>1, MarkInv, Zenon DEF PInv, PlaceTypes
<1>5. ASSUME NEW t \in Threads, softclock(t) \/ thread_halt_clears(t) PROVE PInv(H)'
  <2> USE <1>5 DEF softclock, thread_halt_clears, suspvars, waitvars, cpuvars
  <2>1. PICK c \in Clearers : clearing' = [clearing EXCEPT ![c] =
                                 [stage |-> "call", thread |-> t, event |-> Null]]
    BY Zenon DEF Clearers
  <2>2. timer' \in [Threads -> BOOLEAN]
    BY Zenon DEF PInv, WaitTypes
  <2>3. WaitTypes'
    BY <2>1, <2>2, ZenonT(60) DEF PInv, WaitTypes, WaitEvents
  <2> QED
    BY <2>3, MarkInv, Zenon DEF PInv, PlaceTypes
<1>6. ASSUME NEW t \in Threads, thread_go(t) PROVE PInv(H)'
  <2>1. /\ \/ Awaken({t}, state, runq)
           \/ UNCHANGED <<state, dispvars>> /\ timer' \in [Threads -> BOOLEAN]
        /\ wait_event' \in [Threads -> WaitEvents]
    <3>1. wait_event' = wait_event
      BY <1>6, Zenon DEF thread_go
    <3>2. \/ Awaken({t}, state, runq)
          \/ UNCHANGED <<state, dispvars>> /\ timer' = [timer EXCEPT ![t] = FALSE]
      BY <1>6, Zenon DEF thread_go
    <3>3. [timer EXCEPT ![t] = FALSE] \in [Threads -> BOOLEAN]
      BY Zenon DEF PInv, WaitTypes
    <3> QED
      BY <3>1, <3>2, <3>3, Zenon DEF PInv, WaitTypes
  <2>2. UNCHANGED <<cpuvars, swapvars, dowaiting, clearing>>
    BY <1>6, Zenon DEF thread_go, suspvars
  <2> QED
    BY <2>1, <2>2, EndWaitIfAnyInv, Zenon
<1>7. ASSUME NEW c \in Clearers, ClearWait(c) PROVE PInv(H)'
  <2>1. PICK t \in Threads : t = clearing[c].thread
    BY <1>7, Zenon DEF ClearWait, clear_wait, clear_wait_locked, PInv, WaitTypes
  <2>0. /\ UNCHANGED <<cpuvars, swapvars, dowaiting>>
        /\ \/ \E d \in Clearers : clearing' = [clearing EXCEPT ![d] = NoCall]
           \/ \E d \in Clearers : clearing' = [clearing EXCEPT ![d] =
                   [stage |-> "locked", thread |-> t, event |-> wait_event[t]]]
    BY <1>7, <2>1, Zenon DEF ClearWait, clear_wait, clear_wait_locked, suspvars
  <2>2. CASE EndWait({t}, state, runq)
    <3>1. wait_event' \in [Threads -> WaitEvents]
      BY <2>2, EndWaitTypes, Zenon DEF PInv
    <3>2. Awaken({t}, state, runq)
      BY <2>2, Zenon DEF EndWait
    <3> QED
      BY <2>0, <3>1, <3>2, EndWaitIfAnyInv, Zenon
  <2>3. CASE UNCHANGED <<state, dispvars>> /\ timer' \in [Threads -> BOOLEAN]
             /\ wait_event' \in [Threads -> WaitEvents]
    BY <2>0, <2>3, EndWaitIfAnyInv, Zenon
  <2>4. CASE UNCHANGED <<state, waitvars, dispvars>>
    BY <2>3, <2>4, Zenon DEF waitvars, PInv, WaitTypes
  <2>5. CASE EndWaitIfAny(t)
    <3>1. [timer EXCEPT ![t] = FALSE] \in [Threads -> BOOLEAN]
      BY Zenon DEF PInv, WaitTypes
    <3>2. [wait_event EXCEPT ![t] = Null] \in [Threads -> WaitEvents]
      BY Zenon DEF PInv, WaitTypes, WaitEvents
    <3> QED
      BY <2>2, <2>3, <2>5, <3>1, <3>2, Zenon DEF EndWaitIfAny
  <2>6. EndWaitIfAny(t) \/ UNCHANGED <<state, waitvars, dispvars>>
    BY <1>7, <2>1, Zenon DEF ClearWait, clear_wait, clear_wait_locked
  <2> QED
    BY <2>4, <2>5, <2>6, Zenon
<1>8. CASE Wakeup
  <2>1. PICK e \in Events : thread_wakeup(e) \/ thread_wakeup_one(e)
    BY <1>8, Zenon DEF Wakeup
  <2>2. PICK T \in SUBSET Threads : EndWait(T, state, runq) /\ UNCHANGED <<clearing, suspvars, cpuvars, swapvars>>
    <3>1. Sleepers(e) \in SUBSET Threads
      BY Zenon DEF Sleepers
    <3>2. CASE thread_wakeup(e)
      BY <3>1, <3>2, Zenon DEF thread_wakeup
    <3>3. CASE thread_wakeup_one(e)
      <4>1. PICK t \in Sleepers(e) : EndWait({t}, state, runq) /\ UNCHANGED <<clearing, suspvars, cpuvars, swapvars>>
        BY <3>3, Zenon DEF thread_wakeup_one
      <4>2. {t} \in SUBSET Threads
        BY <3>1, Zenon
      <4> QED
        BY <4>1, <4>2, Zenon
    <3> QED
      BY <2>1, <3>2, <3>3, Zenon
  <2> QED
    BY <2>2, WakeupInv, Zenon
<1>9. CASE SwapIn
  BY <1>9, SwapinInv, Zenon DEF SwapIn
<1>10. ASSUME NEW t \in Threads, NEW u \in Threads, thread_suspend(t, u) PROVE PInv(H)'
  <2> USE <1>10 DEF thread_suspend, waitvars
  <2>1. /\ state' \in [Threads -> SUBSET Bits]
        /\ \A v \in Threads : "RUN" \in state'[v] <=> "RUN" \in state[v]
    BY SMTT(30) DEF PInv, PlaceTypes, Bits
  <2>2. WaitTypes'
    BY SMTT(30) DEF PInv, WaitTypes
  <2> QED
    BY <2>1, <2>2, MarkInv, Zenon DEF Free
<1>11. ASSUME NEW t \in Threads, thread_dowait(t) PROVE PInv(H)'
  BY <1>11, DowaitInv, Zenon
<1>12. ASSUME NEW t \in Threads, NEW u \in Threads, thread_resume(t, u) PROVE PInv(H)'
  BY <1>12, ResumeInv, Zenon
<1>13. CASE UNCHANGED vars
  <2>1. WaitTypes'
    BY <1>13, Zenon DEF vars, waitvars, suspvars, PInv, WaitTypes
  <2> QED
    BY <1>13, <2>1, MarkInv, Zenon DEF vars, cpuvars, PInv, PlaceTypes
<1>16. ASSUME NEW t \in Threads, ipc_thread_rmqueue_first(t) \/ ipc_thread_rmqueue(t) PROVE PInv(H)'
  <2> USE <1>16 DEF ipc_thread_rmqueue_first, ipc_thread_rmqueue
  <2>1. WaitTypes'
    BY Zenon DEF waitvars, suspvars, PInv, WaitTypes
  <2> QED
    BY <2>1, MarkInv, Zenon DEF cpuvars, PInv, PlaceTypes
<1>14. ASSUME NEW t \in Threads, Wait(t) \/ WaitForMessage(t) \/ Timeout(t) PROVE PInv(H)'
  BY <1>2, <1>3, <1>4, <1>5, <1>6, <1>14, <1>16, Zenon DEF Wait, WaitForMessage, Timeout
<1>15. ASSUME NEW t \in Threads, Suspend(t) \/ Resume(t) PROVE PInv(H)'
  BY <1>10, <1>11, <1>12, <1>15, Zenon DEF Suspend, Resume
<1> QED
  BY <1>1, <1>7, <1>8, <1>9, <1>13, <1>14, <1>15, Zenon DEF Next, WaitNext, SuspendNext, StopNext

\* The places of a thread are all the same place.
LEMMA PlacesSame ==
    ASSUME NEW H, PInv(H), NEW t \in Threads
    PROVE  /\ \A x, y \in Places(t) : x = y
           /\ Places(t) # {} <=> OnACpu(t) \/ IsNext(t) \/ runq[t] # Null \/ t \in swapin
           /\ t \in H => Places(t) = {}
<1>1. NotTwice(t, H)
  BY Zenon DEF PInv, Once
<1>2. \A x \in Places(t) :
         \/ \E p \in Processors : x = <<"cpu", p>> /\ OnCpu(t, p)
         \/ \E p \in Processors : x = <<"next", p>> /\ next_thread[p] = t
         \/ x = <<"runq", runq[t]>> /\ runq[t] # Null
         \/ x = <<"swapin", Null>> /\ t \in swapin
  BY Zenon DEF Places
<1>3. \A x, y \in Places(t) : x = y
  BY <1>1, <1>2, Zenon DEF NotTwice, OnACpu, IsNext
<1>4. OnACpu(t) \/ IsNext(t) \/ runq[t] # Null \/ t \in swapin => Places(t) # {}
  BY Zenon DEF Places, OnACpu, IsNext
<1>5. Places(t) # {} => OnACpu(t) \/ IsNext(t) \/ runq[t] # Null \/ t \in swapin
  BY <1>2, Zenon DEF OnACpu, IsNext
<1>6. t \in H => Places(t) = {}
  BY <1>1, <1>5, Zenon DEF NotTwice
<1> QED
  BY <1>3, <1>4, <1>5, <1>6, Zenon

\* Once is InOnePlace when nothing outside holds threads.
LEMMA OnceInOnePlace == PInv({}) => InOnePlace
<1> SUFFICES ASSUME PInv({}), NEW t \in Threads
             PROVE  Cardinality(Places(t)) = IF "RUN" \in state[t] THEN 1 ELSE 0
  BY Zenon DEF InOnePlace
<1>1. "RUN" \in state[t] <=> Places(t) # {}
  BY PlacesSame, Zenon DEF PInv, Once, Somewhere
<1>2. CASE Places(t) = {}
  BY <1>1, <1>2, FS_EmptySet, Zenon
<1>3. CASE Places(t) # {}
  <2>1. PICK x : Places(t) = {x}
    BY <1>3, PlacesSame, SMTT(30)
  <2> QED
    BY <1>1, <1>3, <2>1, FS_Singleton, Zenon
<1> QED
  BY <1>2, <1>3, Zenon

\* For any number of threads, processors and events, and with timeouts,
\* suspension, wakeups and swapping at once: a thread marked TH_RUN is in one
\* place, and one that is not is nowhere.
THEOREM OnePlace == Spec => []InOnePlace
<1>1. PInv({}) /\ [Next]_vars => PInv({})'
  BY NextPlaces, Zenon
<1> QED
  BY <1>1, InitPlaces, OnceInOnePlace, PTL DEF Spec

-----------------------------------------------------------------------------
\* In terms of the bits of its state, a thread has stopped.
Halted(s) == "SUSP" \in s /\ "UNINT" \notin s /\ "RUN" \notin s

StoppedMeansHalted == \A u \in Threads : Stopped(u) <=> Halted(state[u])

\* A thread without TH_RUN is nowhere, so that is what Stopped says.
LEMMA StoppedIs == PInv({}) => StoppedMeansHalted
<1> SUFFICES ASSUME PInv({}), NEW u \in Threads PROVE Stopped(u) <=> Halted(state[u])
  BY Zenon DEF StoppedMeansHalted
<1>1. "RUN" \in state[u] <=> Places(u) # {}
  BY PlacesSame, Zenon DEF PInv, Once, Somewhere
<1> QED
  BY <1>1, Zenon DEF Stopped, Halted, MayStop

\* Ending waits starts no thread that has stopped.
LEMMA AwakenHalted ==
    ASSUME NEW T, Awaken(T, state, runq), NEW u \in Threads, Halted(state[u])
    PROVE  Halted(state'[u])
  BY Zenon DEF Awaken, Halted, Asleep

\* The thread at a stage of its processor is marked TH_RUN.
LEMMA AtRuns ==
    ASSUME NEW H, PInv(H), NEW t \in Threads, NEW stage, At(t, stage)
    PROVE  "RUN" \in state[t]
  BY OnOneCpu, Zenon DEF At, PInv, OnCpu

\* No step but the last thread_resume starts a thread that has stopped.
LEMMA HaltedStays ==
    ASSUME PInv({}), [Next]_vars, NEW u \in Threads, Halted(state[u]), "SUSP" \in state'[u]
    PROVE  Halted(state'[u])
<1>0. CASE UNCHANGED state
  BY <1>0, Zenon
<1>1. ASSUME NEW p \in Processors, Switch(p) PROVE Halted(state'[u])
  <2>1. CASE thread_invoke(p)
    BY <2>1, SMTT(30) DEF thread_invoke, MarkInterruptible, Halted, PInv, PlaceTypes
  <2>2. CASE thread_dispatch(p)
    BY <2>2, SMTT(30) DEF thread_dispatch, Stop, Leave, Halted, PInv, PlaceTypes
  <2>3. CASE wakeup_active(p)
    BY <2>3, AwakenHalted, Zenon DEF wakeup_active, EndWait
  <2> QED
    BY <1>0, <1>1, <2>1, <2>2, <2>3, Zenon DEF Switch, thread_block, thread_select_again, thread_select,
       choose_pset_thread, idle_thread_dispatched, idle_thread_not_dispatched
<1>2. ASSUME NEW t \in Threads, Wait(t) \/ WaitForMessage(t) \/ Timeout(t) PROVE Halted(state'[u])
  <2>1. ASSUME NEW e \in Events \cup {Null}, NEW i \in BOOLEAN, assert_wait(t, e, i)
        PROVE  Halted(state'[u])
    BY <2>1, AtRuns, Zenon DEF assert_wait, Free, Halted, PInv, PlaceTypes
  <2>2. ASSUME NEW timeout \in BOOLEAN, thread_will_wait(t, timeout) PROVE Halted(state'[u])
    BY <2>2, Zenon DEF thread_will_wait, Halted, PInv, PlaceTypes
  <2>3. CASE thread_go(t)
    BY <1>0, <2>3, AwakenHalted, Zenon DEF thread_go
  <2> QED
    BY <1>0, <1>2, <2>1, <2>2, <2>3, Zenon DEF Wait, WaitForMessage, Timeout, thread_set_timeout,
       softclock, thread_halt_clears, ipc_thread_rmqueue_first, ipc_thread_rmqueue
<1>3. ASSUME NEW c \in Clearers, ClearWait(c) PROVE Halted(state'[u])
  BY <1>0, <1>3, AwakenHalted, Zenon DEF ClearWait, clear_wait, clear_wait_locked, EndWaitIfAny, EndWait
<1>4. CASE Wakeup
  BY <1>4, AwakenHalted, Zenon DEF Wakeup, thread_wakeup, thread_wakeup_one, EndWait
<1>5. CASE SwapIn
  BY <1>0, <1>5, Zenon DEF SwapIn, thread_doswapin
<1>6. ASSUME NEW t \in Threads, Suspend(t) PROVE Halted(state'[u])
  <2>1. ASSUME NEW v \in Threads, thread_suspend(t, v) PROVE Halted(state'[u])
    BY <2>1, SMTT(30) DEF thread_suspend, Halted, PInv, PlaceTypes
  <2>2. CASE thread_dowait(t)
    BY <2>2, SMTT(30) DEF thread_dowait, Stop, Halted, PInv, PlaceTypes
  <2> QED
    BY <1>6, <2>1, <2>2, Zenon DEF Suspend
<1>7. ASSUME NEW t \in Threads, Resume(t) PROVE Halted(state'[u])
  BY <1>0, <1>7, SMTT(30) DEF Resume, thread_resume, Unsuspend, Halted, PInv, PlaceTypes
<1>8. CASE UNCHANGED vars
  BY <1>0, <1>8, Zenon DEF vars
<1> QED
  BY <1>1, <1>2, <1>3, <1>4, <1>5, <1>6, <1>7, <1>8, Zenon DEF Next, WaitNext, SuspendNext, StopNext

\* thread_dowait returns only when its target has stopped.
LEMMA DowaitReturns ==
    ASSUME PInv({}), [Next]_vars, NEW t \in Threads, NEW u \in Threads,
           dowaiting[t] = u, dowaiting'[t] = Null, "SUSP" \in state'[u]
    PROVE  Halted(state'[u])
<1> USE SchedAssumption
<1>1. CASE \E v, w \in Threads : thread_suspend(v, w)
  BY <1>1, Zenon DEF thread_suspend, Free, Engaged, PInv, WaitTypes
<1>2. CASE \E v \in Threads : thread_dowait(v)
  <2>1. thread_dowait(t)
    <3>1. PICK v \in Threads : thread_dowait(v)
      BY <1>2, Zenon
    <3>2. dowaiting' = [dowaiting EXCEPT ![v] = Null] \/ UNCHANGED dowaiting
      BY <3>1, Zenon DEF thread_dowait
    <3> QED
      BY <3>1, <3>2, Zenon DEF PInv, WaitTypes
  <2>2. CASE /\ Sched(state[u]) = {"RUN", "SUSP"}
             /\ \E p \in Processors : cur[p] = t /\ Stop(p, u)
    BY <2>2, SMTT(30) DEF Stop, Sched, Halted, PInv, PlaceTypes
  <2>3. CASE UNCHANGED state /\ Sched(state[u]) \in {{"SUSP"}, {"WAIT", "SUSP"}}
    BY <2>3, SMTT(30) DEF Sched, Halted
  <2> QED
    BY <2>1, <2>2, <2>3, Zenon DEF thread_dowait, Sched
<1>3. CASE UNCHANGED dowaiting
  BY <1>3, Zenon
<1>4. ASSUME NEW p \in Processors, Switch(p) PROVE UNCHANGED dowaiting
  BY <1>4, Zenon DEF Switch, thread_block, thread_select_again, thread_select, choose_pset_thread,
     thread_invoke, thread_dispatch, wakeup_active, idle_thread_dispatched,
     idle_thread_not_dispatched, suspvars
<1>5. ASSUME NEW v \in Threads, Wait(v) \/ WaitForMessage(v) \/ Timeout(v) \/ Resume(v)
      PROVE  UNCHANGED dowaiting
  BY <1>5, Zenon DEF Wait, WaitForMessage, Timeout, Resume, assert_wait, thread_will_wait, thread_go,
     thread_set_timeout, softclock, thread_halt_clears, thread_resume, suspvars,
     ipc_thread_rmqueue_first, ipc_thread_rmqueue
<1>6. ASSUME NEW c \in Clearers, ClearWait(c) PROVE UNCHANGED dowaiting
  BY <1>6, Zenon DEF ClearWait, clear_wait, clear_wait_locked, suspvars
<1>7. CASE Wakeup \/ SwapIn \/ UNCHANGED vars
  BY <1>3, <1>7, Zenon DEF Wakeup, SwapIn, thread_wakeup, thread_wakeup_one, thread_doswapin, vars, suspvars
<1> QED
  BY <1>1, <1>2, <1>3, <1>4, <1>5, <1>6, <1>7, Zenon DEF Next, WaitNext, SuspendNext, StopNext, Suspend

\* The thread_suspend that takes the first hold on its target returns only when
\* the target has stopped (a nested one does not wait), and a stopped target
\* stays stopped until the last hold on it is released, whatever wakeups,
\* timeouts and nested holds come in between.
THEOREM StaysStopped == Spec => SuspendedStaysStopped
<1>1. PInv({}) /\ [Next]_vars => PInv({})'
  BY NextPlaces, Zenon
<1>2. PInv({})' => StoppedMeansHalted'
  BY StoppedIs, PTL
<1>3. PInv({}) /\ PInv({})' /\ [Next]_vars =>
        [\A u \in Threads : "SUSP" \in state'[u] =>
            /\ \A t \in Threads : dowaiting[t] = u /\ dowaiting'[t] = Null => Stopped(u)'
            /\ Stopped(u) => Stopped(u)']_vars
  BY <1>2, StoppedIs, HaltedStays, DowaitReturns, Zenon DEF StoppedMeansHalted
<1> QED
  BY <1>1, <1>3, InitPlaces, PTL DEF Spec, SuspendedStaysStopped

-----------------------------------------------------------------------------
\* Who is going to wait on p is on p, and nowhere else.
LEMMA GoingOnCpu ==
    ASSUME NEW H, PInv(H), NEW t \in Threads, NEW p \in Processors, Going(t, p)
    PROVE  /\ runq[t] = Null /\ ~IsNext(t) /\ t \notin swapin
           /\ \A q \in Processors : OnCpu(t, q) => q = p
<1>1. OnCpu(t, p)
  BY Zenon DEF Going, OnCpu
<1> QED
  BY <1>1, OnOneCpu, Zenon DEF PInv

\* A step that keeps a thread's TH_WAIT and TH_RUN keeps it going.
LEMMA KeepGoing ==
    ASSUME WaitersGo,
           \A t \in Threads : {"RUN", "WAIT"} \subseteq state'[t] => {"RUN", "WAIT"} \subseteq state[t],
           \A t \in Threads : \A p \in Processors : "WAIT" \in state[t] /\ Going(t, p) => Going(t, p)'
    PROVE  WaitersGo'
  BY Zenon DEF WaitersGo

\* Ending waits leaves nobody with a timer or an event that does not wait.
LEMMA EndWaitWaits ==
    ASSUME PInv({}), WaitersGo, WaitersMarked, NEW T \in SUBSET Threads, EndWait(T, state, runq),
           \A t \in Threads : \A p \in Processors : Going(t, p) => Going(t, p)'
    PROVE  WaitersGo' /\ WaitersMarked'
<1>1. WaitersMarked'
  BY Zenon DEF EndWait, Awaken, WaitersMarked, PInv, PlaceTypes, WaitTypes
<1>2. \A t \in Threads : {"RUN", "WAIT"} \subseteq state'[t] => {"RUN", "WAIT"} \subseteq state[t]
  BY Zenon DEF EndWait, Awaken, PInv, PlaceTypes
<1> QED
  BY <1>1, <1>2, KeepGoing, Zenon

\* The routines of a processor keep the invariant for waits.
LEMMA SwitchWaits ==
    ASSUME PInv({}), WaitersGo, WaitersMarked, NEW p \in Processors, Switch(p)
    PROVE  WaitersGo' /\ WaitersMarked'
<1> USE SchedAssumption
<1>1. CASE thread_block(p) \/ thread_select_again(p)
  <2>0. thread_select(p) /\ ppc[p] \in {"run", "asserted", "block", "select"}
    BY <1>1, Zenon DEF thread_block, thread_select_again
  <2>1. UNCHANGED <<state, timer, wait_event, late, cur, old>>
    BY <2>0, Zenon DEF thread_select, waitvars
  <2>2. ppc' \in {[ppc EXCEPT ![p] = "invoke"], [ppc EXCEPT ![p] = "setidle"]}
    BY <2>0, Zenon DEF thread_select, Take
  <2>3. sel' = sel \/ \E t \in Threads : sel' = [sel EXCEPT ![p] = t] /\ (runq[t] # Null \/ state[t] = {"RUN"})
    BY <2>0, Zenon DEF thread_select, Take, LocalQueue, GlobalQueue, StaysRunnable, PInv, PlaceTypes
  <2>4. ASSUME NEW t \in Threads, NEW q \in Processors, "WAIT" \in state[t], Going(t, q)
        PROVE  Going(t, q)'
    <3>1. sel'[q] # t \/ old[q] = t
      BY <2>3, <2>4, GoingOnCpu, SMTT(30) DEF Going, PInv, PlaceTypes
    <3> QED
      BY <2>0, <2>1, <2>2, <2>4, <3>1, Zenon DEF Going, PInv, PlaceTypes, Switches
  <2> QED
    BY <2>1, <2>4, KeepGoing, Zenon DEF WaitersMarked
<1>2. CASE choose_pset_thread(p) \/ idle_thread_not_dispatched(p)
  <2> USE <1>2 DEF choose_pset_thread, idle_thread_not_dispatched, waitvars
  <2>1. ASSUME NEW t \in Threads, NEW q \in Processors, Going(t, q) PROVE Going(t, q)'
    BY <2>1, Zenon DEF Going, PInv, PlaceTypes
  <2> QED
    BY <2>1, KeepGoing, Zenon DEF WaitersMarked
<1>3. CASE thread_invoke(p)
  <2>0. ppc[p] = "invoke" /\ UNCHANGED <<timer, wait_event, late>>
    BY <1>3, Zenon DEF thread_invoke, waitvars
  <2>1. \A t \in Threads : {"RUN", "WAIT"} \cap state'[t] = {"RUN", "WAIT"} \cap state[t]
    BY <1>3, SMTT(30) DEF thread_invoke, MarkInterruptible, PInv, PlaceTypes
  <2>2. ASSUME NEW t \in Threads, NEW q \in Processors, Going(t, q) PROVE Going(t, q)'
    BY <1>3, <2>2, SMTT(30) DEF thread_invoke, Going, PInv, PlaceTypes
  <2>3. WaitersMarked'
    BY <2>0, <2>1, Zenon DEF WaitersMarked
  <2> QED
    BY <2>1, <2>2, <2>3, KeepGoing, Zenon
<1>4. CASE thread_dispatch(p)
  <2>0. ppc[p] = "dispatch" /\ UNCHANGED <<timer, wait_event, late, cur, sel>>
    BY <1>4, Zenon DEF thread_dispatch, waitvars
  <2>1. \A q \in Processors \ {p} : ppc'[q] = ppc[q] /\ old'[q] = old[q]
    BY <1>4, Zenon DEF thread_dispatch, Stop, Leave, PInv, PlaceTypes
  <2>2. \A t \in Threads : "WAIT" \in state'[t] <=> "WAIT" \in state[t]
    BY <1>4, SMTT(30) DEF thread_dispatch, Stop, Leave, PInv, PlaceTypes
  <2>3. \A t \in Threads : {"RUN", "WAIT"} \subseteq state'[t] => {"RUN", "WAIT"} \subseteq state[t] /\ t # old[p]
    BY <1>4, SMTT(30) DEF thread_dispatch, Stop, Leave, PInv, PlaceTypes
  <2>4. WaitersMarked'
    BY <2>0, <2>2, Zenon DEF WaitersMarked
  <2>5. ASSUME NEW t \in Threads, {"RUN", "WAIT"} \subseteq state'[t]
        PROVE  \E q \in Processors : Going(t, q)'
    <3>1. PICK q \in Processors : Going(t, q)
      BY <2>3, <2>5, Zenon DEF WaitersGo
    <3>2. q # p
      BY <2>0, <2>3, <2>5, <3>1, Zenon DEF Going
    <3> QED
      BY <2>0, <2>1, <3>1, <3>2, Zenon DEF Going
  <2> QED
    BY <2>4, <2>5, Zenon DEF WaitersGo
<1>5. CASE wakeup_active(p)
  <2> USE <1>5 DEF wakeup_active
  <2>1. Sleepers(old[p]) \in SUBSET Threads
    BY Zenon DEF Sleepers
  <2>2. ASSUME NEW t \in Threads, NEW q \in Processors, Going(t, q) PROVE Going(t, q)'
    BY <2>2, Zenon DEF Going, PInv, PlaceTypes
  <2>3. PICK T \in SUBSET Threads : T = Sleepers(old[p])
    BY <2>1, Zenon
  <2>4. EndWait(T, state, runq)
    BY <2>3, Zenon
  <2> QED
    BY <2>2, <2>4, EndWaitWaits, Zenon
<1>6. CASE idle_thread_dispatched(p)
  <2> USE <1>6 DEF idle_thread_dispatched, waitvars
  <2>1. ASSUME NEW t \in Threads, NEW q \in Processors, Going(t, q) PROVE Going(t, q)'
    BY <2>1, Zenon DEF Going, PInv, PlaceTypes
  <2> QED
    BY <2>1, KeepGoing, Zenon DEF WaitersMarked
<1> QED
  BY <1>1, <1>2, <1>3, <1>4, <1>5, <1>6, Zenon DEF Switch

\* A thread that asserts a wait, or moves on to block, is going.
LEMMA GotoWaits ==
    ASSUME PInv({}), WaitersGo, NEW t \in Threads, At(t, "run") \/ At(t, "asserted"),
           NEW stage \in {"asserted", "block"}, Goto(t, stage), UNCHANGED <<cur, sel, old>>,
           \A u \in Threads \ {t} :
              {"RUN", "WAIT"} \subseteq state'[u] => {"RUN", "WAIT"} \subseteq state[u]
    PROVE  WaitersGo'
<1>1. PICK q \in Processors : cur[q] = t /\ ppc[q] \in {"run", "asserted"}
  BY Zenon DEF At
<1>2. sel[q] = Null /\ ppc'[q] = stage
  BY <1>1, Zenon DEF Goto, PInv, Switches
<1>3. Going(t, q)'
  BY <1>1, <1>2, SchedAssumption, Zenon DEF Going
<1>4. ASSUME NEW u \in Threads, u # t, NEW p \in Processors, Going(u, p) PROVE Going(u, p)'
  <2>1. CASE cur[p] = t
    <3>1. old[p] = u /\ ppc[p] = "dispatch"
      BY <1>4, <2>1, Zenon DEF Going
    <3>2. p = q
      BY <1>1, <2>1, OnOneCpu, SMTT(30) DEF PInv, OnCpu
    <3> QED
      BY <1>1, <3>1, <3>2, Zenon
  <2>2. CASE cur[p] # t
    BY <1>4, <2>2, Zenon DEF Going, Goto
  <2> QED
    BY <2>1, <2>2, Zenon
<1> QED
  BY <1>3, <1>4, Zenon DEF WaitersGo

\* Every step keeps the invariant for waits.
LEMMA NextWaits ==
    ASSUME PInv({}), WaitersGo, WaitersMarked, [Next]_vars
    PROVE  WaitersGo' /\ WaitersMarked'
<1> USE SchedAssumption
<1>0. UNCHANGED cpuvars => \A t \in Threads : \A p \in Processors : Going(t, p) => Going(t, p)'
  BY Zenon DEF Going, cpuvars
<1>1. ASSUME NEW t \in Threads, NEW e \in Events \cup {Null}, NEW i \in BOOLEAN, assert_wait(t, e, i)
      PROVE  WaitersGo' /\ WaitersMarked'
  <2> USE <1>1 DEF assert_wait
  <2>1. WaitersMarked'
    BY Zenon DEF WaitersMarked, PInv, PlaceTypes, WaitTypes
  <2>2. \A u \in Threads \ {t} : state'[u] = state[u]
    BY Zenon DEF PInv, PlaceTypes
  <2> QED
    BY <2>1, <2>2, GotoWaits, Zenon DEF Free
<1>2. ASSUME NEW t \in Threads, NEW timeout \in BOOLEAN, thread_will_wait(t, timeout)
      PROVE  WaitersGo' /\ WaitersMarked'
  <2> USE <1>2 DEF thread_will_wait
  <2>1. WaitersMarked'
    BY Zenon DEF WaitersMarked, PInv, PlaceTypes, WaitTypes
  <2>2. \A u \in Threads \ {t} : state'[u] = state[u]
    BY Zenon DEF PInv, PlaceTypes
  <2> QED
    BY <2>1, <2>2, GotoWaits, Zenon DEF Free
<1>3. ASSUME NEW t \in Threads, thread_set_timeout(t) PROVE WaitersGo' /\ WaitersMarked'
  <2> USE <1>3 DEF thread_set_timeout
  <2>1. WaitersMarked'
    BY Zenon DEF WaitersMarked, PInv, PlaceTypes, WaitTypes
  <2> QED
    BY <2>1, GotoWaits, Zenon
<1>4. ASSUME NEW t \in Threads, softclock(t) \/ thread_halt_clears(t) PROVE WaitersGo' /\ WaitersMarked'
  <2> USE <1>4 DEF softclock, thread_halt_clears, waitvars
  <2>1. WaitersMarked'
    BY Zenon DEF WaitersMarked, PInv, WaitTypes
  <2> QED
    BY <1>0, <2>1, KeepGoing, Zenon
<1>5. ASSUME NEW t \in Threads, UNCHANGED cpuvars,
             EndWait({t}, state, runq) \/ EndWaitIfAny(t) \/ UNCHANGED <<state, waitvars, dispvars>>
      PROVE  WaitersGo' /\ WaitersMarked'
  <2>1. CASE EndWait({t}, state, runq)
    <3>1. {t} \in SUBSET Threads
      BY Zenon
    <3> QED
      BY <1>0, <1>5, <2>1, <3>1, EndWaitWaits, Zenon
  <2>2. CASE /\ UNCHANGED state
             /\ UNCHANGED timer \/ timer' = [timer EXCEPT ![t] = FALSE]
             /\ \/ UNCHANGED <<wait_event, late>>
                \/ wait_event' = [wait_event EXCEPT ![t] = Null] /\ late' = late \ {t}
    <3>1. WaitersMarked'
      BY <2>2, Zenon DEF WaitersMarked, PInv, WaitTypes
    <3> QED
      BY <1>0, <1>5, <2>2, <3>1, KeepGoing, Zenon
  <2> QED
    BY <1>5, <2>1, <2>2, Zenon DEF EndWaitIfAny, waitvars
<1>6. ASSUME NEW c \in Clearers, ClearWait(c) PROVE WaitersGo' /\ WaitersMarked'
  <2>1. PICK t \in Threads : t = clearing[c].thread
    BY <1>6, Zenon DEF ClearWait, clear_wait, clear_wait_locked, PInv, WaitTypes
  <2> QED
    BY <1>5, <1>6, <2>1, Zenon DEF ClearWait, clear_wait, clear_wait_locked
<1>7. CASE Wakeup
  <2>1. PICK e \in Events : thread_wakeup(e) \/ thread_wakeup_one(e)
    BY <1>7, Zenon DEF Wakeup
  <2>2. Sleepers(e) \in SUBSET Threads
    BY Zenon DEF Sleepers
  <2>3. CASE thread_wakeup(e)
    BY <1>0, <2>2, <2>3, EndWaitWaits, Zenon DEF thread_wakeup
  <2>4. CASE thread_wakeup_one(e)
    BY <1>5, <2>2, <2>4, Zenon DEF thread_wakeup_one
  <2> QED
    BY <2>1, <2>3, <2>4, Zenon
<1>8. CASE SwapIn \/ UNCHANGED vars
  BY <1>0, <1>8, KeepGoing, Zenon DEF SwapIn, thread_doswapin, vars, waitvars, WaitersMarked
<1>9. ASSUME NEW t \in Threads, NEW u \in Threads, thread_suspend(t, u)
      PROVE  WaitersGo' /\ WaitersMarked'
  <2> USE <1>9 DEF thread_suspend, waitvars
  <2>1. \A v \in Threads : {"RUN", "WAIT"} \cap state'[v] = {"RUN", "WAIT"} \cap state[v]
    BY SMTT(30) DEF PInv, PlaceTypes
  <2>2. WaitersMarked'
    BY <2>1, Zenon DEF WaitersMarked
  <2>3. CASE UNCHANGED ppc
    BY <1>0, <2>1, <2>2, <2>3, KeepGoing, Zenon DEF cpuvars
  <2>4. CASE Goto(t, "block")
    BY <2>1, <2>2, <2>4, GotoWaits, Zenon DEF Free
  <2> QED
    BY <2>3, <2>4, Zenon
<1>10. ASSUME NEW t \in Threads, thread_dowait(t) PROVE WaitersGo' /\ WaitersMarked'
  <2>1. PICK u \in Threads : u = dowaiting[t]
    BY <1>10, Zenon DEF thread_dowait, PInv, WaitTypes
  <2>2. ASSUME NEW p \in Processors, cur[p] = t, At(t, "run"), Stop(p, u),
               UNCHANGED <<waitvars, cur, sel>>
        PROVE  WaitersGo' /\ WaitersMarked'
    <3> USE <2>2 DEF waitvars
    <3>1. ppc[p] = "run" /\ old[p] = Null
      <4>1. PICK q \in Processors : cur[q] = t /\ ppc[q] = "run"
        BY Zenon DEF At
      <4>2. p = q
        BY <4>1, OnOneCpu, SMTT(30) DEF PInv, OnCpu
      <4> QED
        BY <4>1, <4>2, Zenon DEF PInv, Switches
    <3>2. ASSUME NEW v \in Threads, NEW q \in Processors, Going(v, q) PROVE Going(v, q)'
      BY <3>1, <3>2, Zenon DEF Going, Stop, PInv, PlaceTypes
    <3>3. \A v \in Threads : /\ {"RUN", "WAIT"} \subseteq state'[v] => {"RUN", "WAIT"} \subseteq state[v]
                             /\ "WAIT" \in state[v] => "WAIT" \in state'[v]
      BY Zenon DEF Stop, PInv, PlaceTypes
    <3>4. WaitersMarked'
      BY <3>3, Zenon DEF WaitersMarked
    <3> QED
      BY <3>2, <3>3, <3>4, KeepGoing, Zenon
  <2>3. CASE /\ At(t, "run") /\ state' = [state EXCEPT ![t] = @ \cup {"WAIT"}]
             /\ wait_event' = [wait_event EXCEPT ![t] = u] /\ Goto(t, "block")
             /\ UNCHANGED <<timer, late, old, cur, sel>>
    <3>1. WaitersMarked'
      BY <2>3, Zenon DEF WaitersMarked, PInv, PlaceTypes, WaitTypes
    <3>2. \A v \in Threads \ {t} : state'[v] = state[v]
      BY <2>3, Zenon DEF PInv, PlaceTypes
    <3> QED
      BY <2>3, <3>1, <3>2, GotoWaits, Zenon
  <2>4. CASE UNCHANGED <<state, waitvars, old, ppc, cur, sel>>
    BY <1>0, <2>4, KeepGoing, Zenon DEF cpuvars, waitvars, WaitersMarked
  <2> QED
    BY <1>10, <2>1, <2>2, <2>3, <2>4, Zenon DEF thread_dowait
<1>11. ASSUME NEW t \in Threads, NEW u \in Threads, thread_resume(t, u)
       PROVE  WaitersGo' /\ WaitersMarked'
  <2> USE <1>11 DEF thread_resume, waitvars
  <2>1. \A v \in Threads :
          /\ {"RUN", "WAIT"} \subseteq state'[v] => {"RUN", "WAIT"} \subseteq state[v]
          /\ "WAIT" \in state[v] => "WAIT" \in state'[v]
    BY SMTT(30) DEF Unsuspend, PInv, PlaceTypes
  <2>2. WaitersMarked'
    BY <2>1, Zenon DEF WaitersMarked
  <2> QED
    BY <1>0, <2>1, <2>2, KeepGoing, Zenon
<1>14. ASSUME NEW t \in Threads, thread_go(t) PROVE WaitersGo' /\ WaitersMarked'
  <2>1. CASE Awaken({t}, state, runq) /\ late' = IF wait_event[t] # Null THEN late \cup {t} ELSE late
    <3>1. WaitersMarked'
      BY <1>14, <2>1, Zenon DEF thread_go, Awaken, WaitersMarked, PInv, PlaceTypes, WaitTypes
    <3>2. \A u \in Threads : {"RUN", "WAIT"} \subseteq state'[u] => {"RUN", "WAIT"} \subseteq state[u]
      BY <2>1, Zenon DEF Awaken, PInv, PlaceTypes
    <3> QED
      BY <1>0, <1>14, <3>1, <3>2, KeepGoing, Zenon DEF thread_go
  <2>2. CASE timer' = [timer EXCEPT ![t] = FALSE] /\ UNCHANGED <<state, late>>
    <3>1. WaitersMarked'
      BY <1>14, <2>2, Zenon DEF thread_go, WaitersMarked, PInv, WaitTypes
    <3> QED
      BY <1>0, <1>14, <2>2, <3>1, KeepGoing, Zenon DEF thread_go
  <2> QED
    BY <1>14, <2>1, <2>2, Zenon DEF thread_go
<1>15. ASSUME NEW t \in Threads, ipc_thread_rmqueue_first(t) \/ ipc_thread_rmqueue(t)
       PROVE  WaitersGo' /\ WaitersMarked'
  BY <1>0, <1>15, KeepGoing, Zenon
  DEF ipc_thread_rmqueue_first, ipc_thread_rmqueue, waitvars, WaitersMarked
<1>12. ASSUME NEW t \in Threads, Wait(t) \/ WaitForMessage(t) \/ Timeout(t)
       PROVE  WaitersGo' /\ WaitersMarked'
  BY <1>1, <1>2, <1>3, <1>4, <1>12, <1>14, <1>15, Zenon DEF Wait, WaitForMessage, Timeout
<1>13. ASSUME NEW t \in Threads, Suspend(t) \/ Resume(t) PROVE WaitersGo' /\ WaitersMarked'
  BY <1>9, <1>10, <1>11, <1>13, Zenon DEF Suspend, Resume
<1> QED
  BY <1>6, <1>7, <1>8, <1>12, <1>13, SwitchWaits, Zenon DEF Next, WaitNext, SuspendNext, StopNext

\* However a wait ends, it leaves no timer behind, and no event either unless a
\* late thread_go ended it; and a thread that runs does not wait.  So a late
\* thread_go is the one way to the panics of thread_wakeup and assert_wait, and
\* set_timeout inserts no element twice.
THEOREM WaitsClean == Spec => []WaitsEndCleanly
<1> DEFINE I == PInv({}) /\ WaitersGo /\ WaitersMarked
<1>1. Init => I
  BY InitPlaces, SMTT(30) DEF Init, WaitersGo, WaitersMarked
<1>2. I /\ [Next]_vars => I'
  BY NextPlaces, NextWaits, Zenon
<1>3. I => WaitsEndCleanly
  <2> SUFFICES ASSUME I PROVE WaitsEndCleanly
    BY Zenon
  <2>1. ASSUME NEW p \in Processors, cur[p] # Null, ppc[p] = "run", "WAIT" \in state[cur[p]]
        PROVE  FALSE
    <3>1. cur[p] \in Threads /\ OnCpu(cur[p], p)
      BY <2>1, Zenon DEF PInv, PlaceTypes, OnCpu
    <3>2. "RUN" \in state[cur[p]]
      BY <3>1, OnOneCpu, Zenon DEF PInv
    <3>3. PICK q \in Processors : Going(cur[p], q)
      BY <2>1, <3>1, <3>2, Zenon DEF WaitersGo
    <3>4. p = q
      BY <3>1, <3>3, GoingOnCpu, Zenon
    <3> QED
      BY <2>1, <3>3, <3>4, Zenon DEF Going
  <2> QED
    BY <2>1, Zenon DEF WaitsEndCleanly, WaitersMarked
<1> QED
  BY <1>1, <1>2, <1>3, PTL DEF Spec

-----------------------------------------------------------------------------
(***************************************************************************)
(* ScanOnePlace for any number of threads, processors and events and any   *)
(* size of stuck_threads.  The threads the scan holds, and the ones it did *)
(* not put back, are the set H of the theorems above: no step of SchedPrim *)
(* moves a thread of H, so what is left is to show that the scan itself    *)
(* moves threads between the run queues and H.                             *)
(***************************************************************************)

\* The inductive invariant.
SInv == /\ \E H : H = stuck \cup left /\ PInv(H)
        /\ stuck \subseteq Threads /\ stuck \cap left = {}

\* Pass 1 takes the threads S off the run queues, and holds them.
LEMMA TakeOff ==
    ASSUME NEW H, PInv(H), NEW S \in SUBSET Threads, \A t \in S : runq[t] # Null,
           runq' = [t \in Threads |-> IF t \in S THEN Null ELSE runq[t]],
           UNCHANGED <<state, waitvars, clearing, suspvars, pstate, next_thread,
                       cpuvars, swapvars>>
    PROVE  PInv(H \cup S)'
<1> USE SchedAssumption DEF waitvars, suspvars, cpuvars, swapvars
<1>1. PlaceTypes' /\ WaitTypes' /\ Switches'
  <2>1. runq' \in [Threads -> Processors \cup {"pset", Null}]
    BY Zenon DEF PInv, PlaceTypes
  <2> QED
    BY <2>1, Zenon DEF PInv, PlaceTypes, WaitTypes, Switches
<1>2. ASSUME NEW t \in Threads
      PROVE  NotTwice(t, H \cup S)' /\ ("RUN" \in state'[t] <=> Somewhere(t, H \cup S)')
  <2>1. \A p \in Processors : OnCpu(t, p)' <=> OnCpu(t, p)
    BY Zenon DEF OnCpu
  <2>2. (OnACpu(t)' <=> OnACpu(t)) /\ (IsNext(t)' <=> IsNext(t))
    BY <2>1, Zenon DEF OnACpu, IsNext
  <2>3. NotTwice(t, H) /\ ("RUN" \in state[t] <=> Somewhere(t, H))
    BY Zenon DEF PInv, Once
  <2>4. CASE t \in S
    <3>1. runq[t] # Null /\ runq'[t] = Null
      BY <2>4, Zenon
    <3>2. NotTwice(t, H \cup S)'
      BY <2>1, <2>2, <2>3, <3>1, Zenon DEF NotTwice
    <3>3. Somewhere(t, H \cup S)' /\ Somewhere(t, H)
      BY <2>4, <3>1, Zenon DEF Somewhere
    <3> QED
      BY <2>3, <3>2, <3>3, Zenon
  <2>5. CASE t \notin S
    <3>1. runq'[t] = runq[t]
      BY <2>5, Zenon
    <3>2. NotTwice(t, H \cup S)'
      BY <2>1, <2>2, <2>3, <2>5, <3>1, Zenon DEF NotTwice
    <3>3. Somewhere(t, H \cup S)' <=> Somewhere(t, H)
      BY <2>2, <2>5, <3>1, Zenon DEF Somewhere
    <3> QED
      BY <2>3, <3>2, <3>3, Zenon
  <2> QED
    BY <2>4, <2>5, Zenon
<1>3. Once(H \cup S)'
  BY <1>2, Zenon DEF Once
<1> QED
  BY <1>1, <1>3, Zenon DEF PInv

\* Pass 2 makes t, which it held, runnable.
LEMMA PutBack ==
    ASSUME NEW H, PInv(H), NEW t \in Threads, t \in H, thread_setrun({t}, runq),
           UNCHANGED <<state, waitvars, clearing, suspvars, cpuvars, swapvars>>
    PROVE  PInv(H \ {t})'
<1> USE SchedAssumption DEF waitvars, suspvars, cpuvars, swapvars
<1>1. /\ runq[t] = Null /\ ~IsNext(t) /\ ~OnACpu(t) /\ t \notin swapin
      /\ "RUN" \in state[t]
  BY Zenon DEF PInv, Once, NotTwice, Somewhere
<1>2. /\ {t} \in SUBSET Threads /\ \A u \in {t} : runq[u] = Null /\ ~IsNext(u)
      /\ PlaceTypes /\ Switches
  BY <1>1, Zenon DEF PInv
<1>3. /\ runq' \in [Threads -> Processors \cup {"pset", Null}]
      /\ pstate' \in [Processors -> {"RUNNING", "IDLE", "DISPATCHING"}]
      /\ next_thread' \in [Processors -> Threads \cup {Null}]
      /\ \A p \in Processors : next_thread'[p] # Null <=> pstate'[p] = "DISPATCHING"
      /\ \A u \in Threads \ {t} :
            /\ runq'[u] = runq[u]
            /\ \A p \in Processors : next_thread'[p] = u <=> next_thread[p] = u
      /\ \A u \in {t} :
            /\ runq'[u] # Null <=> ~IsNext(u)'
            /\ \A p, q \in Processors : next_thread'[p] = u /\ next_thread'[q] = u => p = q
  BY <1>2, Setrun, Zenon
<1>4. PlaceTypes' /\ WaitTypes' /\ Switches'
  BY <1>3, Zenon DEF PInv, PlaceTypes, WaitTypes, Switches
<1>5. \A u \in Threads : \A p \in Processors : OnCpu(u, p)' <=> OnCpu(u, p)
  BY Zenon DEF OnCpu
<1>6. ASSUME NEW u \in Threads
      PROVE  NotTwice(u, H \ {t})' /\ ("RUN" \in state'[u] <=> Somewhere(u, H \ {t})')
  <2>1. OnACpu(u)' <=> OnACpu(u)
    BY <1>5, Zenon DEF OnACpu
  <2>2. NotTwice(u, H) /\ ("RUN" \in state[u] <=> Somewhere(u, H))
    BY Zenon DEF PInv, Once
  <2>3. CASE u = t
    <3>1. /\ ~OnACpu(u)' /\ u \notin swapin' /\ u \notin H \ {t} /\ "RUN" \in state'[u]
          /\ runq'[u] # Null <=> ~IsNext(u)'
          /\ \A p, q \in Processors : next_thread'[p] = u /\ next_thread'[q] = u => p = q
      BY <1>1, <1>3, <2>1, <2>3, Zenon
    <3>2. NotTwice(u, H \ {t})'
      BY <3>1, Zenon DEF NotTwice, OnACpu
    <3> QED
      BY <3>1, <3>2, Zenon DEF Somewhere
  <2>4. CASE u # t
    <3>1. /\ runq'[u] = runq[u]
          /\ \A p \in Processors : next_thread'[p] = u <=> next_thread[p] = u
      BY <1>3, <2>4, Zenon
    <3>2. IsNext(u)' <=> IsNext(u)
      BY <3>1, Zenon DEF IsNext
    <3>3. u \in H \ {t} <=> u \in H
      BY <2>4, Zenon
    <3>4. NotTwice(u, H \ {t})'
      BY <1>5, <2>1, <2>2, <3>1, <3>2, <3>3, Zenon DEF NotTwice
    <3>5. Somewhere(u, H \ {t})' <=> Somewhere(u, H)
      BY <2>1, <3>1, <3>2, <3>3, Zenon DEF Somewhere
    <3> QED
      BY <2>2, <3>4, <3>5, Zenon
  <2> QED
    BY <2>3, <2>4, Zenon
<1>7. Once(H \ {t})'
  BY <1>6, Zenon DEF Once
<1> QED
  BY <1>4, <1>7, Zenon DEF PInv

\* Pass 2 leaves t where it is: thread_setrun of nobody changes nothing.
LEMMA LeaveAlone ==
    ASSUME NEW H, PInv(H), thread_setrun({}, runq),
           UNCHANGED <<state, waitvars, clearing, suspvars, cpuvars, swapvars>>
    PROVE  PInv(H)'
<1> USE DEF suspvars, swapvars
<1>1. /\ \A t \in {} : /\ runq[t] = Null /\ ~IsNext(t) /\ t \notin H /\ ~OnACpu(t)
                       /\ t \notin swapin' /\ "RUN" \in state'[t]
      /\ \A t \in Threads \ {} : /\ t \in swapin' <=> t \in swapin
                                 /\ "RUN" \in state'[t] <=> "RUN" \in state[t]
      /\ {} \in SUBSET Threads
      /\ state' \in [Threads -> SUBSET Bits] /\ swapin' \subseteq Threads
  BY Zenon DEF PInv, PlaceTypes
<1> QED
  BY <1>1, SetrunInv, Zenon

\* Pass 1 keeps the invariant.
LEMMA Pass1Inv == SInv /\ do_thread_scan_pass1 => SInv'
<1> SUFFICES ASSUME SInv, do_thread_scan_pass1 PROVE SInv'
  OBVIOUS
<1>1. PICK H : H = stuck \cup left /\ PInv(H)
  BY Zenon DEF SInv
<1>2. left' = left /\ \E q \in {"pset", master} : do_runq_scan(q)
  BY Zenon DEF do_thread_scan_pass1
<1>3. PICK q : q \in {"pset", master} /\ do_runq_scan(q)
  BY <1>2, Zenon
<1>4. PICK S \in SUBSET Candidates(q) :
        /\ stuck' = stuck \cup S
        /\ runq' = [t \in Threads |-> IF t \in S THEN Null ELSE runq[t]]
        /\ UNCHANGED <<state, waitvars, clearing, suspvars, pstate, next_thread,
                       cpuvars, swapvars>>
  BY <1>3, Zenon DEF do_runq_scan
<1>5. S \in SUBSET Threads /\ \A t \in S : runq[t] # Null
  BY <1>3, SchedAssumption, Zenon DEF Candidates
<1>6. PInv(H \cup S)'
  BY <1>1, <1>4, <1>5, TakeOff, Zenon
<1>7. \A t \in S : t \notin H
  BY <1>1, <1>5, Zenon DEF PInv, Once, NotTwice
<1>8. H \cup S = stuck' \cup left'
  BY <1>1, <1>2, <1>4, Zenon
<1>9. stuck' \subseteq Threads /\ stuck' \cap left' = {}
  BY <1>1, <1>2, <1>4, <1>5, <1>7, Zenon DEF SInv
<1> QED
  BY <1>6, <1>8, <1>9, Zenon DEF SInv

\* So does pass 2.
LEMMA Pass2Inv == SInv /\ do_thread_scan_pass2 => SInv'
<1> SUFFICES ASSUME SInv, do_thread_scan_pass2 PROVE SInv'
  OBVIOUS
<1>1. PICK H : H = stuck \cup left /\ PInv(H)
  BY Zenon DEF SInv
<1>2. CASE UNCHANGED <<vars, stuck, left>>
  <2>1. [Next]_vars
    BY <1>2, Zenon
  <2>2. PInv(H)'
    BY <1>1, <2>1, NextPlaces, Zenon
  <2> QED
    BY <1>1, <1>2, <2>2, Zenon DEF SInv
<1>3. ASSUME NEW t \in stuck, stuck' = stuck \ {t},
             IF Sched(state[t]) = {"RUN"}
                THEN thread_setrun({t}, runq) /\ UNCHANGED left
                ELSE thread_setrun({}, runq) /\ left' = left \cup {t},
             UNCHANGED <<state, waitvars, clearing, suspvars, cpuvars, swapvars>>
      PROVE  SInv'
  <2>1. t \in Threads /\ t \in H /\ t \notin left
    BY <1>1, <1>3, Zenon DEF SInv
  <2>2. CASE thread_setrun({t}, runq) /\ UNCHANGED left
    <3>1. PInv(H \ {t})'
      BY <1>1, <1>3, <2>1, <2>2, PutBack, Zenon
    <3>2. H \ {t} = stuck' \cup left'
      BY <1>1, <1>3, <2>1, <2>2, Zenon
    <3>3. stuck' \subseteq Threads /\ stuck' \cap left' = {}
      BY <1>3, <2>2, Zenon DEF SInv
    <3> QED
      BY <3>1, <3>2, <3>3, Zenon DEF SInv
  <2>3. CASE thread_setrun({}, runq) /\ left' = left \cup {t}
    <3>1. PInv(H)'
      BY <1>1, <1>3, <2>3, LeaveAlone, Zenon
    <3>2. H = stuck' \cup left'
      BY <1>1, <1>3, <2>1, <2>3, Zenon
    <3>3. stuck' \subseteq Threads /\ stuck' \cap left' = {}
      BY <1>3, <2>3, Zenon DEF SInv
    <3> QED
      BY <3>1, <3>2, <3>3, Zenon DEF SInv
  <2> QED
    BY <1>3, <2>2, <2>3, Zenon
<1> QED
  BY <1>2, <1>3, Zenon DEF do_thread_scan_pass2

\* What happens beside the scan is part of what SchedPrim does.
LEMMA StopsAreSteps == StopNext => Next
  BY Zenon DEF StopNext, Next, WaitNext, SuspendNext

\* Every step keeps the invariant.
LEMMA ScanNextInv == SInv /\ [ScanNext]_<<vars, scanvars>> => SInv'
<1> SUFFICES ASSUME SInv, [ScanNext]_<<vars, scanvars>> PROVE SInv'
  OBVIOUS
<1>1. CASE [Next]_vars /\ UNCHANGED <<stuck, left>>
  <2>1. PICK H : H = stuck \cup left /\ PInv(H)
    BY Zenon DEF SInv
  <2>2. PInv(H)'
    BY <1>1, <2>1, NextPlaces, Zenon
  <2> QED
    BY <1>1, <2>1, <2>2, Zenon DEF SInv
<1> QED
  BY <1>1, StopsAreSteps, Pass1Inv, Pass2Inv, Zenon
  DEF ScanNext, Next, sched_thread, do_thread_scan, scanvars

\* The invariant is ScanOnePlace, in other words.
LEMMA ScanInvPlaces == SInv => ScanOnePlace
<1> SUFFICES ASSUME SInv, NEW t \in Threads
             PROVE  /\ \A x, y \in ScanPlaces(t) : x = y
                    /\ "RUN" \in state[t] /\ t \notin left => ScanPlaces(t) # {}
  BY Zenon DEF ScanOnePlace
<1>1. PICK H : H = stuck \cup left /\ PInv(H)
  BY Zenon DEF SInv
<1>2. /\ \A x, y \in Places(t) : x = y
      /\ Places(t) # {} <=> OnACpu(t) \/ IsNext(t) \/ runq[t] # Null \/ t \in swapin
      /\ t \in H => Places(t) = {}
  BY <1>1, PlacesSame, Zenon
<1>3. "RUN" \in state[t] => Places(t) # {} \/ t \in H
  BY <1>1, <1>2, Zenon DEF PInv, Once, Somewhere
<1>4. CASE t \in stuck
  <2>1. ScanPlaces(t) = {<<"stuck", Null>>}
    BY <1>1, <1>2, <1>4, Zenon DEF ScanPlaces
  <2> QED
    BY <2>1, Zenon
<1>5. CASE t \notin stuck
  <2>1. ScanPlaces(t) = Places(t)
    BY <1>5, Zenon DEF ScanPlaces
  <2> QED
    BY <1>1, <1>2, <1>3, <1>5, <2>1, Zenon
<1> QED
  BY <1>4, <1>5, Zenon

\* With the scan of the run queues going on, whatever the size of its table: a
\* thread is in one place, and none that is marked TH_RUN is lost, except one
\* that was suspended while the scan held it.
THEOREM ScanPlacesOnce == ScanSpec => []ScanOnePlace
<1>1. ScanInit => SInv
  <2> SUFFICES ASSUME ScanInit PROVE SInv
    OBVIOUS
  <2>1. PInv({}) /\ stuck \cup left = {} /\ stuck \subseteq Threads /\ stuck \cap left = {}
    BY InitPlaces, Zenon DEF ScanInit
  <2> QED
    BY <2>1, Zenon DEF SInv
<1> QED
  BY <1>1, ScanNextInv, ScanInvPlaces, PTL DEF ScanSpec

-----------------------------------------------------------------------------
\* The inductive invariant for bound threads.
Home == \A t \in Threads : BoundTo[t] # Null =>
    /\ \A p \in Processors : OnCpu(t, p) \/ next_thread[p] = t => p = BoundTo[t]
    /\ runq[t] \in {Null, BoundTo[t]}

\* A bound thread comes to a processor from its run queue or next_thread only,
\* and to those of its own processor only.
CpuMoves == \A t \in Threads : BoundTo[t] # Null =>
    \A p \in Processors : OnCpu(t, p)' => OnCpu(t, p) \/ next_thread[p] = t \/ runq[t] = p
QueueMoves == \A t \in Threads : BoundTo[t] # Null =>
    /\ \A p \in Processors : next_thread'[p] = t => next_thread[p] = t \/ p = BoundTo[t]
    /\ runq'[t] \in {runq[t], BoundTo[t], Null}

\* Such moves keep bound threads at home.
LEMMA HomeMoves == Home /\ CpuMoves /\ QueueMoves => Home'
<1> SUFFICES ASSUME Home, CpuMoves, QueueMoves, NEW t \in Threads, BoundTo[t] # Null
             PROVE  /\ \A p \in Processors : OnCpu(t, p)' \/ next_thread'[p] = t => p = BoundTo[t]
                    /\ runq'[t] \in {Null, BoundTo[t]}
  BY Zenon DEF Home
<1>1. /\ \A p \in Processors : OnCpu(t, p) \/ next_thread[p] = t => p = BoundTo[t]
      /\ runq[t] \in {Null, BoundTo[t]}
      /\ \A p \in Processors : OnCpu(t, p)' => OnCpu(t, p) \/ next_thread[p] = t \/ runq[t] = p
      /\ \A p \in Processors : next_thread'[p] = t => next_thread[p] = t \/ p = BoundTo[t]
      /\ runq'[t] \in {runq[t], BoundTo[t], Null}
  BY Zenon DEF Home, CpuMoves, QueueMoves
<1>2. \A p \in Processors : p # Null
  BY SchedAssumption, Zenon
<1> QED
  BY <1>1, <1>2, Zenon

\* thread_setrun sends a bound thread to its own processor.
LEMMA SetrunMoves ==
    ASSUME NEW T \in SUBSET Threads, thread_setrun(T, runq)
    PROVE  QueueMoves
<1>1. PICK D \in SUBSET T : \E f \in [D -> IdleProcessors] : SetrunTo(T, runq, D, f)
  BY Zenon DEF thread_setrun
<1>2. PICK f \in [D -> IdleProcessors] : SetrunTo(T, runq, D, f)
  BY <1>1, Zenon
<1> SUFFICES ASSUME NEW t \in Threads, BoundTo[t] # Null
             PROVE  /\ \A p \in Processors : next_thread'[p] = t => next_thread[p] = t \/ p = BoundTo[t]
                    /\ runq'[t] \in {runq[t], BoundTo[t], Null}
  BY Zenon DEF QueueMoves
<1>3. runq'[t] = IF t \notin T \ D THEN runq[t]
                 ELSE IF BoundTo[t] = Null THEN "pset" ELSE BoundTo[t]
  BY <1>2, Zenon DEF SetrunTo
<1>4. ASSUME NEW p \in Processors, next_thread'[p] = t, next_thread[p] # t PROVE p = BoundTo[t]
  <2>1. p \in {f[u] : u \in D} /\ t = CHOOSE u \in D : f[u] = p
    BY <1>2, <1>4, Zenon DEF SetrunTo
  <2>2. t \in D /\ f[t] = p
    BY <2>1, Zenon
  <2> QED
    BY <1>2, <2>2, Zenon DEF SetrunTo, RunsOn
<1> QED
  BY <1>3, <1>4, Zenon

\* Where no queue changes, none gains a thread.
LEMMA SameQueues == UNCHANGED <<runq, next_thread>> => QueueMoves
  BY Zenon DEF QueueMoves

\* Ending waits moves threads with thread_setrun only.
LEMMA AwakenMoves ==
    ASSUME NEW T \in SUBSET Threads, Awaken(T, state, runq) PROVE QueueMoves
<1>1. {t \in T : Asleep(state[t])} \in SUBSET Threads
  BY Zenon
<1> QED
  BY <1>1, SetrunMoves, Zenon DEF Awaken

\* A processor that has nobody new has no thread that is not its own.
LEMMA SameCpus == UNCHANGED cpuvars => CpuMoves
  BY Zenon DEF CpuMoves, OnCpu, cpuvars

\* Nor does one whose thread goes on, or whose old thread has left.
LEMMA LeaveMoves ==
    ASSUME PlaceTypes, UNCHANGED <<cur, sel>>,
           \A p \in Processors :
              /\ old'[p] = old[p] \/ ppc'[p] # "dispatch"
              /\ ppc'[p] = ppc[p] \/ ppc'[p] # "dispatch"
    PROVE  CpuMoves
  BY Zenon DEF CpuMoves, OnCpu

\* The routines of a processor take bound threads from its own queues.
LEMMA SwitchMoves ==
    ASSUME NEW H, PInv(H), Home, NEW p \in Processors, Switch(p)
    PROVE  CpuMoves /\ QueueMoves
<1> USE SchedAssumption
<1>0. PlaceTypes
  BY Zenon DEF PInv
<1>1. CASE thread_select(p)
  <2>1. QueueMoves
    <3>1. next_thread' = next_thread /\ \A t \in Threads : runq'[t] \in {runq[t], Null}
      BY <1>0, <1>1, Zenon DEF thread_select, Take, LocalQueue, GlobalQueue, PlaceTypes
    <3> QED
      BY <3>1, Zenon DEF QueueMoves
  <2>2. CpuMoves
    <3> SUFFICES ASSUME NEW t \in Threads, BoundTo[t] # Null, NEW q \in Processors, OnCpu(t, q)'
                 PROVE  OnCpu(t, q) \/ next_thread[q] = t \/ runq[t] = q
      BY Zenon DEF CpuMoves
    <3>1. /\ cur' = cur /\ old' = old
          /\ \E stage \in {"invoke", "setidle"} : ppc' = [ppc EXCEPT ![p] = stage]
          /\ \/ sel' = sel
             \/ sel' = [sel EXCEPT ![p] = cur[p]]
             \/ \E u \in LocalQueue(p) \cup GlobalQueue : sel' = [sel EXCEPT ![p] = u]
      BY <1>1, Zenon DEF thread_select, Take
    <3>2. ppc'[q] = "dispatch" => ppc[q] = "dispatch"
      BY <1>0, <3>1, Zenon DEF PlaceTypes
    <3>3. CASE t = sel'[q] /\ t # sel[q] /\ t # cur[q]
      <4>0. sel' # sel /\ sel' # [sel EXCEPT ![p] = cur[p]]
        BY <1>0, <3>3 DEF PlaceTypes
      <4>1. PICK u \in LocalQueue(p) \cup GlobalQueue : sel' = [sel EXCEPT ![p] = u]
        BY <3>1, <4>0, Zenon
      <4>2. q = p /\ t = u
        BY <1>0, <3>3, <4>1, Zenon DEF PlaceTypes
      <4>3. runq[t] # "pset"
        <5>1. runq[t] \in {Null, BoundTo[t]}
          BY Zenon DEF Home
        <5>2. BoundTo[t] \in Processors \cup {Null} /\ "pset" \notin Processors \cup {Null}
          BY Zenon
        <5> QED
          BY <5>1, <5>2, Zenon
      <4> QED
        BY <4>1, <4>2, <4>3, Zenon DEF LocalQueue, GlobalQueue
    <3> QED
      BY <3>1, <3>2, <3>3, Zenon DEF OnCpu
  <2> QED
    BY <2>1, <2>2
<1>2. CASE choose_pset_thread(p)
  <2>1. QueueMoves
    BY <1>2, SameQueues, Zenon DEF choose_pset_thread
  <2>2. /\ cur' = cur /\ old' = old /\ sel' = [sel EXCEPT ![p] = Null]
        /\ ppc' = [ppc EXCEPT ![p] = "invoke"]
    BY <1>2, Zenon DEF choose_pset_thread
  <2>3. \A q \in Processors : /\ sel'[q] \in {sel[q], Null}
                              /\ ppc'[q] = "dispatch" => ppc[q] = "dispatch"
    BY <1>0, <2>2, Zenon DEF PlaceTypes
  <2> QED
    BY <2>1, <2>2, <2>3, Zenon DEF CpuMoves, OnCpu
<1>3. CASE thread_invoke(p)
  <2>1. QueueMoves
    BY <1>3, SameQueues, Zenon DEF thread_invoke, dispvars
  <2>2. \A q \in Processors \ {p} :
           cur'[q] = cur[q] /\ sel'[q] = sel[q] /\ old'[q] = old[q] /\ ppc'[q] = ppc[q]
    BY <1>0, <1>3, Zenon DEF thread_invoke, PlaceTypes
  <2>3. /\ cur'[p] \in {cur[p], sel[p]} /\ sel'[p] = Null
        /\ ppc'[p] = "dispatch" => old'[p] = cur[p]
    BY <1>0, <1>3, Zenon DEF thread_invoke, PlaceTypes
  <2> QED
    BY <2>1, <2>2, <2>3, Zenon DEF CpuMoves, OnCpu
<1>4. CASE thread_dispatch(p)
  <2>1. QueueMoves
    <3>1. CASE UNCHANGED dispvars
      BY <3>1, SameQueues, Zenon DEF dispvars
    <3>2. CASE old[p] # Null /\ Leave(p, old[p]) /\ thread_setrun({old[p]}, runq)
      <4>1. {old[p]} \in SUBSET Threads
        BY <1>0, <3>2, Zenon DEF PlaceTypes
      <4> QED
        BY <3>2, <4>1, SetrunMoves, Zenon
    <3> QED
      BY <1>4, <3>1, <3>2, Zenon DEF thread_dispatch, Leave
  <2>2. /\ cur' = cur /\ sel' = sel /\ ppc[p] = "dispatch"
        /\ \E stage \in {"run", "wakeup"} : ppc' = [ppc EXCEPT ![p] = stage]
        /\ old' = old \/ \E t : old' = [old EXCEPT ![p] = t]
    BY <1>4, Zenon DEF thread_dispatch, Stop, Leave
  <2>3. \A q \in Processors : /\ old'[q] = old[q] \/ ppc'[q] # "dispatch"
                              /\ ppc'[q] = ppc[q] \/ ppc'[q] # "dispatch"
    BY <1>0, <2>2, Zenon DEF PlaceTypes
  <2> QED
    BY <1>0, <2>1, <2>2, <2>3, LeaveMoves, Zenon
<1>5. CASE wakeup_active(p)
  <2>1. QueueMoves
    <3>1. Sleepers(old[p]) \in SUBSET Threads
      BY Zenon DEF Sleepers
    <3>2. Awaken(Sleepers(old[p]), state, runq)
      BY <1>5, Zenon DEF wakeup_active, EndWait
    <3> QED
      BY <3>1, <3>2, AwakenMoves, Zenon
  <2>2. /\ cur' = cur /\ sel' = sel
        /\ ppc' = [ppc EXCEPT ![p] = "run"] /\ old' = [old EXCEPT ![p] = Null]
    BY <1>5, Zenon DEF wakeup_active
  <2>3. \A q \in Processors : /\ old'[q] = old[q] \/ ppc'[q] # "dispatch"
                              /\ ppc'[q] = ppc[q] \/ ppc'[q] # "dispatch"
    BY <1>0, <2>2, Zenon DEF PlaceTypes
  <2> QED
    BY <1>0, <2>1, <2>2, <2>3, LeaveMoves, Zenon
<1>6. CASE idle_thread_dispatched(p)
  <2>1. /\ cur' = cur /\ old' = old /\ sel' = [sel EXCEPT ![p] = next_thread[p]]
        /\ ppc' = [ppc EXCEPT ![p] = "invoke"] /\ runq' = runq
        /\ next_thread' = [next_thread EXCEPT ![p] = Null]
    BY <1>6, Zenon DEF idle_thread_dispatched
  <2>2. \A q \in Processors : /\ sel'[q] \in {sel[q], next_thread[q]}
                              /\ ppc'[q] = "dispatch" => ppc[q] = "dispatch"
                              /\ next_thread'[q] \in {next_thread[q], Null}
    BY <1>0, <2>1, Zenon DEF PlaceTypes
  <2>3. QueueMoves
    BY <2>1, <2>2, Zenon DEF QueueMoves
  <2> QED
    BY <2>1, <2>2, <2>3, Zenon DEF CpuMoves, OnCpu
<1>7. CASE idle_thread_not_dispatched(p)
  <2>1. QueueMoves
    BY <1>7, SameQueues, Zenon DEF idle_thread_not_dispatched
  <2>2. cur' = cur /\ sel' = sel /\ old' = old /\ ppc' = [ppc EXCEPT ![p] = "select"]
    BY <1>7, Zenon DEF idle_thread_not_dispatched
  <2>3. \A q \in Processors : /\ old'[q] = old[q] \/ ppc'[q] # "dispatch"
                              /\ ppc'[q] = ppc[q] \/ ppc'[q] # "dispatch"
    BY <1>0, <2>2, Zenon DEF PlaceTypes
  <2> QED
    BY <1>0, <2>1, <2>2, <2>3, LeaveMoves, Zenon
<1> QED
  BY <1>1, <1>2, <1>3, <1>4, <1>5, <1>6, <1>7, Zenon
  DEF Switch, thread_block, thread_select_again

\* Every step of SchedPrim keeps bound threads at home.
LEMMA NextHome ==
    ASSUME NEW H, PInv(H), Home, [Next]_vars
    PROVE  Home'
<1> SUFFICES CpuMoves /\ QueueMoves
  BY HomeMoves, Zenon
<1> USE SchedAssumption
<1>0. PlaceTypes
  BY Zenon DEF PInv
<1>1. ASSUME NEW p \in Processors, Switch(p) PROVE CpuMoves /\ QueueMoves
  BY <1>1, SwitchMoves, Zenon
<1>2. ASSUME UNCHANGED <<dispvars, cur, sel, old>>,
             UNCHANGED ppc \/ \E t \in Threads, stage \in {"asserted", "block"} : Goto(t, stage)
      PROVE  CpuMoves /\ QueueMoves
  <2>1. QueueMoves
    BY <1>2, SameQueues, Zenon DEF dispvars
  <2>2. \A q \in Processors : /\ old'[q] = old[q] \/ ppc'[q] # "dispatch"
                              /\ ppc'[q] = ppc[q] \/ ppc'[q] # "dispatch"
    BY <1>2, Zenon DEF Goto
  <2> QED
    BY <1>0, <1>2, <2>1, <2>2, LeaveMoves, Zenon
<1>3. ASSUME NEW t \in Threads, Wait(t) \/ WaitForMessage(t) \/ Timeout(t)
      PROVE  CpuMoves /\ QueueMoves
  <2>1. CASE thread_go(t)
    <3>1. UNCHANGED cpuvars /\ (Awaken({t}, state, runq) \/ UNCHANGED dispvars)
      BY <2>1, Zenon DEF thread_go
    <3>2. {t} \in SUBSET Threads
      BY Zenon
    <3> QED
      BY <3>1, <3>2, SameCpus, SameQueues, AwakenMoves, Zenon DEF dispvars
  <2>2. CASE ~thread_go(t)
    BY <1>2, <1>3, <2>2, Zenon
    DEF Wait, WaitForMessage, Timeout, assert_wait, thread_will_wait, thread_set_timeout,
        softclock, thread_halt_clears, ipc_thread_rmqueue_first, ipc_thread_rmqueue, cpuvars
  <2> QED
    BY <2>1, <2>2, Zenon
<1>4. ASSUME NEW c \in Clearers, ClearWait(c) PROVE CpuMoves /\ QueueMoves
  <2>1. /\ UNCHANGED cpuvars
        /\ UNCHANGED dispvars \/ Awaken({clearing[c].thread}, state, runq)
    BY <1>4, Zenon DEF ClearWait, clear_wait, clear_wait_locked, EndWaitIfAny, EndWait
  <2>2. {clearing[c].thread} \in SUBSET Threads
    BY <1>4, Zenon DEF ClearWait, clear_wait, clear_wait_locked, PInv, WaitTypes
  <2> QED
    BY <2>1, <2>2, SameCpus, SameQueues, AwakenMoves, Zenon DEF dispvars
<1>5. ASSUME Wakeup PROVE CpuMoves /\ QueueMoves
  <2>1. PICK T \in SUBSET Threads : Awaken(T, state, runq) /\ UNCHANGED cpuvars
    <3>1. PICK e \in Events : thread_wakeup(e) \/ thread_wakeup_one(e)
      BY <1>5, Zenon DEF Wakeup
    <3>2. CASE thread_wakeup(e)
      BY <3>2, Zenon DEF thread_wakeup, Sleepers, EndWait
    <3>3. CASE thread_wakeup_one(e)
      BY <3>3, Zenon DEF thread_wakeup_one, Sleepers, EndWait
    <3> QED
      BY <3>1, <3>2, <3>3, Zenon
  <2> QED
    BY <2>1, SameCpus, AwakenMoves, Zenon
<1>6. ASSUME SwapIn PROVE CpuMoves /\ QueueMoves
  <2>1. PICK t \in Threads : thread_setrun({t}, runq) /\ UNCHANGED cpuvars
    BY <1>6, Zenon DEF SwapIn, thread_doswapin
  <2>2. {t} \in SUBSET Threads
    BY Zenon
  <2> QED
    BY <2>1, <2>2, SameCpus, SetrunMoves, Zenon
<1>7. ASSUME NEW t \in Threads, Resume(t) PROVE CpuMoves /\ QueueMoves
  <2>1. PICK u \in Threads : thread_resume(t, u)
    BY <1>7, Zenon DEF Resume
  <2>2. UNCHANGED cpuvars /\ (UNCHANGED dispvars \/ Unsuspend(u))
    BY <2>1, Zenon DEF thread_resume
  <2>3. UNCHANGED dispvars \/ \E T \in SUBSET Threads : thread_setrun(T, runq)
    BY <2>2, Zenon DEF Unsuspend
  <2> QED
    BY <2>2, <2>3, SameCpus, SameQueues, SetrunMoves, Zenon DEF dispvars
<1>8. ASSUME NEW t \in Threads, NEW u \in Threads, thread_suspend(t, u)
      PROVE  CpuMoves /\ QueueMoves
  BY <1>2, <1>8, Zenon DEF thread_suspend
<1>9. ASSUME NEW t \in Threads, thread_dowait(t) PROVE CpuMoves /\ QueueMoves
  <2>1. CASE /\ runq' = [runq EXCEPT ![dowaiting[t]] = Null]
             /\ \E p \in Processors : Stop(p, dowaiting[t])
             /\ UNCHANGED <<next_thread, cur, sel>>
    <3>1. \A u \in Threads : runq'[u] \in {runq[u], Null}
      BY <1>0, <2>1, Zenon DEF PlaceTypes
    <3>2. QueueMoves
      BY <2>1, <3>1, Zenon DEF QueueMoves
    <3>3. PICK p \in Processors :
             /\ \E stage \in {"run", "wakeup"} : ppc' = [ppc EXCEPT ![p] = stage]
             /\ \E u : old' = [old EXCEPT ![p] = u]
      BY <2>1, Zenon DEF Stop
    <3>4. \A q \in Processors : /\ old'[q] = old[q] \/ ppc'[q] # "dispatch"
                                /\ ppc'[q] = ppc[q] \/ ppc'[q] # "dispatch"
      BY <1>0, <3>3, Zenon DEF PlaceTypes
    <3> QED
      BY <1>0, <2>1, <3>2, <3>4, LeaveMoves, Zenon
  <2>2. CASE UNCHANGED <<dispvars, cur, sel, old>> /\ (UNCHANGED ppc \/ Goto(t, "block"))
    BY <1>2, <2>2, Zenon
  <2> QED
    BY <1>9, <2>1, <2>2, Zenon DEF thread_dowait
<1>10. ASSUME UNCHANGED vars PROVE CpuMoves /\ QueueMoves
  BY <1>2, <1>10, Zenon DEF vars, cpuvars
<1> QED
  BY <1>1, <1>3, <1>4, <1>5, <1>6, <1>7, <1>8, <1>9, <1>10, Zenon
  DEF Next, WaitNext, SuspendNext, StopNext, Suspend

\* So does every step of the scan.
LEMMA ScanHome == SInv /\ Home /\ [ScanNext]_<<vars, scanvars>> => Home'
<1> SUFFICES ASSUME SInv, Home, [ScanNext]_<<vars, scanvars>> PROVE Home'
  OBVIOUS
<1>1. PICK H : PInv(H)
  BY Zenon DEF SInv
<1>2. CASE [Next]_vars
  BY <1>1, <1>2, NextHome, Zenon
<1>3. CASE do_thread_scan_pass1
  <2>1. PICK q : do_runq_scan(q)
    BY <1>3, Zenon DEF do_thread_scan_pass1
  <2>2. PICK S : /\ runq' = [t \in Threads |-> IF t \in S THEN Null ELSE runq[t]]
                 /\ UNCHANGED <<next_thread, cpuvars>>
    BY <2>1, Zenon DEF do_runq_scan
  <2>3. QueueMoves
    BY <2>2, Zenon DEF QueueMoves
  <2> QED
    BY <2>2, <2>3, SameCpus, HomeMoves, Zenon
<1>4. CASE do_thread_scan_pass2
  <2>1. CASE UNCHANGED vars
    BY <1>2, <2>1, Zenon
  <2>2. CASE \E T \in SUBSET Threads : thread_setrun(T, runq) /\ UNCHANGED cpuvars
    BY <2>2, SetrunMoves, SameCpus, HomeMoves, Zenon
  <2>3. ASSUME NEW t \in stuck PROVE {t} \in SUBSET Threads /\ {} \in SUBSET Threads
    BY <2>3, Zenon DEF SInv
  <2> QED
    BY <1>4, <2>1, <2>2, <2>3, Zenon DEF do_thread_scan_pass2
<1> QED
  BY <1>2, <1>3, <1>4, StopsAreSteps, Zenon DEF ScanNext, Next, sched_thread, do_thread_scan

\* A bound thread is on its own processor or its run queue only, wherever the
\* wakeups, the suspensions, the swapper and the scan send it.
THEOREM BoundStays == ScanSpec => []BoundStaysPut
<1>1. ScanInit => SInv /\ Home
  <2> SUFFICES ASSUME ScanInit PROVE SInv /\ Home
    OBVIOUS
  <2>1. PInv({}) /\ stuck \cup left = {} /\ stuck \subseteq Threads /\ stuck \cap left = {}
    BY InitPlaces, Zenon DEF ScanInit
  <2>2. Home
    BY SchedAssumption, Zenon DEF ScanInit, Init, Home, OnCpu
  <2> QED
    BY <2>1, <2>2, Zenon DEF SInv
<1>2. SInv /\ Home => BoundStaysPut
  <2> SUFFICES ASSUME Home, NEW t \in Threads, BoundTo[t] # Null, NEW x \in Places(t)
               PROVE  x[2] \in {BoundTo[t], Null}
    BY Zenon DEF BoundStaysPut
  <2>1. \/ \E p \in Processors : x = <<"cpu", p>> /\ OnCpu(t, p)
        \/ \E p \in Processors : x = <<"next", p>> /\ next_thread[p] = t
        \/ x = <<"runq", runq[t]>> /\ runq[t] # Null
        \/ x = <<"swapin", Null>> /\ t \in swapin
    BY Zenon DEF Places
  <2>2. /\ \A p \in Processors : OnCpu(t, p) \/ next_thread[p] = t => p = BoundTo[t]
        /\ runq[t] \in {Null, BoundTo[t]}
    BY Zenon DEF Home
  <2> QED
    BY <2>1, <2>2
<1> QED
  BY <1>1, <1>2, ScanNextInv, ScanHome, PTL DEF ScanSpec
=============================================================================
