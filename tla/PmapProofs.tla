---------------------------- MODULE PmapProofs -----------------------------
(***************************************************************************)
(* The algorithm of PMAP_UPDATE_TLBS and pmap_update_interrupt is correct  *)
(* for any number of processors, pmaps and pages and any UPDATE_LIST_SIZE, *)
(* as long as no entry is changed without signalling and no request is     *)
(* taken before its interrupt is sent.                                     *)
(***************************************************************************)
EXTENDS Pmap, TLAPS

Stages == {"run", "write", "read", "want_write", "drain", "walk", "lock", "update", "signal",
           "send", "change", "rewrite", "unlock", "splx", "spin_my", "spin_kernel", "process",
           "activate", "again", "switch", "use", "used", "idling", "idle", "waking", "woken",
           "off", "launch", "launched"}
Collects == {"collect", "collect_more"}
Readers == {"remove", "enter", "change_wiring"} \cup Collects
Writers == {"page_protect", "clear", "test"}
Fns == Readers \cup Writers \cup {"none", "protect", "extract", "switch"}
Operations == [page : Pages \cup {None}, write : BOOLEAN, fn : Fns, pmap : Pmaps,
               todo : SUBSET Pmaps, target : Cpus \cup Pmaps \cup {None}, old : Pte \cup {NoPte}]

Types ==
    /\ pte \in [Pmaps -> Pte \cup {NoPte}]
    /\ tlb \in [Cpus -> [Pmaps -> Pte \cup {NoPte}]]
    /\ lock \in [Pmaps -> Cpus \cup {None}]
    /\ cpus_using \in [Pmaps -> SUBSET Cpus]
    /\ update_list \in [Cpus -> Seq(Pmaps)]
    /\ dirbase \in [Cpus -> Pmaps]
    /\ pc \in [Cpus -> Stages]
    /\ op \in [Cpus -> Operations]
    /\ users \in [Cpus -> SUBSET Cpus]

\* Where a processor holds the lock of the pmap it works on, is in cpus_active,
\* in cpus_idle, and has left cpus_using to flush its TLB when it comes back.
Holding == {"update", "signal", "send", "change", "rewrite", "unlock", "used"}
Active == {"run", "write", "again", "switch", "used", "idling", "off", "launched"}
Idle == {"idling", "idle"}
Flushing == {"switch", "use", "off", "launch", "launched"}

LockAt(c) ==
    /\ pc[c] \in Holding => lock[op[c].pmap] = c
    /\ pc[c] = "launched" => lock[kernel_pmap] = c
LockHeld == \A c \in Cpus : LockAt(c)

SetsAt(c) ==
    /\ c \in cpus_active <=> pc[c] \in Active
    /\ c \in cpus_idle <=> pc[c] \in Idle
    /\ c \in cpus_using[kernel_pmap] <=> pc[c] \notin {"off", "launch"}
    /\ \A p \in Pmaps \ {kernel_pmap} :
          c \in cpus_using[p] <=> dirbase[c] = p /\ pc[c] \notin {"switch", "use"}
    /\ pc[c] \in {"off", "launch", "launched", "idling", "idle", "waking", "woken"} => dirbase[c] = kernel_pmap
    /\ pc[c] = "use" => op[c].pmap # kernel_pmap
    /\ pc[c] = "used" => op[c].pmap = dirbase[c]
SetsMatch == \A c \in Cpus : SetsAt(c)

\* Where the system lock is held, for reading or writing.
Locked == {"lock", "update", "signal", "send", "change", "rewrite", "unlock"}
SystemAt(c) ==
    /\ pc[c] = "read" => op[c].fn \in Readers
    /\ pc[c] \in {"want_write", "drain", "walk"} => op[c].fn \in Writers
    /\ pc[c] \in Locked => op[c].fn \in Readers \cup Writers \cup {"protect", "extract"}
    /\ pc[c] \in Locked /\ op[c].fn \in Readers => c \in readers
    /\ pc[c] \in {"drain", "walk"} => writer = c
    /\ pc[c] \in Locked /\ op[c].fn \in Writers => writer = c
    /\ writer = c => pc[c] \in Locked \cup {"drain", "walk"} /\ op[c].fn \in Writers
    /\ writer = c /\ pc[c] # "drain" => readers = {}
    /\ pc[c] = "rewrite" => op[c].fn = "change_wiring"
    /\ op[c].fn = "enter" \/ op[c].fn \in Writers => op[c].page \in Pages
SystemLock == \A c \in Cpus : SystemAt(c)

\* phys_attribute_clear visits mappings of its page only.
Visiting == {"lock", "update", "signal", "send", "change"}
ClearsAt(c) == op[c].fn = "clear" /\ pc[c] \in Locked \cup {"walk"} =>
    /\ op[c].todo \subseteq PvList(op[c].page)
    /\ pc[c] \in Visiting => op[c].pmap \in PvList(op[c].page)
ClearsItsPage == \A c \in Cpus : ClearsAt(c)

\* d has been asked to update its TLB for p, and will do so before it uses p.
Asked(d, p) ==
    /\ \/ d \in interrupt /\ pc[d] \notin Idle
       \/ pc[d] = "spin_my"
       \/ pc[d] = "spin_kernel" /\ p = kernel_pmap
       \/ pc[d] \in {"idling", "idle", "waking"} /\ Requested(d, p)
    /\ Requested(d, p) \/ tlb[d][p] = NoPte

SignalAt(c, d) ==
    pc[c] \in {"update", "signal", "send"} /\ d # c /\ d \in cpus_using[op[c].pmap] =>
        \/ d \in users[c]
        \/ pc[c] \in {"signal", "send"} /\ d = op[c].target /\ Requested(d, op[c].pmap)
        \/ Asked(d, op[c].pmap)
Signalling == ~early => \A c, d \in Cpus : SignalAt(c, d)

\* Nobody uses what is about to be changed.
Quiet(c, p) ==
    /\ c \in cpus_using[p] => tlb[c][p] = NoPte
    /\ \A d \in cpus_using[p] \ {c} : Asked(d, p) /\ pc[d] # "write"

ChangeAt(c) ==
    /\ pc[c] = "change" => pte[op[c].pmap] = NoPte \/ Quiet(c, op[c].pmap)
    /\ pc[c] = "rewrite" => cpus_using[op[c].pmap] \subseteq {c} /\ op[c].old = pte[op[c].pmap]
Changing == ~early /\ ~unsignalled => \A c \in Cpus : ChangeAt(c)

WritesAt(c) == pc[c] = "write" =>
    op[c].target \in Pmaps /\ InSpace(c, op[c].target) /\ tlb[c][op[c].target] # NoPte
Writing == \A c \in Cpus : WritesAt(c)

\* What a processor has cached is what is in memory, or is to be flushed.
Taking == {"spin_my", "spin_kernel", "process", "idling", "idle", "waking"}
Flushes(d, p) ==
    \/ pc[d] \in Flushing
    \/ /\ Requested(d, p)
       /\ \/ d \in interrupt /\ pc[d] # "write"
          \/ pc[d] \in Taking
CachedAt(d, p) == InSpace(d, p) /\ tlb[d][p] # NoPte => Agrees(tlb[d][p], pte[p]) \/ Flushes(d, p)
Cached == ~early /\ ~unsignalled => \A d \in Cpus, p \in Pmaps : CachedAt(d, p)

Known(x) == x[2] \in attributes \/ (Mapped(x[1]) /\ pte[x[1]].page = x[2] /\ pte[x[1]].mod)
Marked == ~early /\ ~unsignalled => \A x \in written : Known(x)

\* What phys_attribute_clear has still to visit, or was not written since.
ClearedAt(c) == op[c].fn = "clear" /\ pc[c] \in Locked \cup {"walk"} =>
    \A p \in PvList(op[c].page) :
        \/ p \in op[c].todo \/ (p = op[c].pmap /\ pc[c] \in Visiting)
        \/ <<p, op[c].page>> \in written => pte[p].mod
Cleared == ~early /\ ~unsignalled => \A c \in Cpus : ClearedAt(c)
WrittenIn == \A x \in written : x \in Pmaps \X Pages
IInv == Types /\ LockHeld /\ SetsMatch /\ SystemLock /\ ClearsItsPage /\ Signalling /\ Changing
        /\ Writing /\ Cached /\ Marked /\ Cleared /\ WrittenIn

-----------------------------------------------------------------------------
(***************************************************************************)
(* The steps of a processor, and what they have in common.                 *)
(***************************************************************************)
\* A call of the interface, with the lock it takes first.
Begins(o, l) ==
    /\ \/ l = "read" /\ o.fn \in Readers
       \/ l = "want_write" /\ o.fn \in Writers
       \/ l = "lock" /\ o.fn \in {"protect", "extract"}
    /\ o.fn = "enter" \/ o.fn \in Writers => o.page \in Pages
Enters(c) == \E o \in Operations, l \in Stages : Call(c, o, l) /\ Begins(o, l)

\* The steps that leave all but pc, cpus_active and cpus_idle alone.
Moves(c) ==
    \/ MARK_CPU_IDLE(c) \/ MARK_CPU_ACTIVE(c) \/ launch(c) \/ SPLX(c) \/ spin_my(c)
    \/ spin_kernel(c) \/ set_active(c) \/ update_again(c) \/ interrupt_return(c)
    \/ switch_to_user(c) \/ idle(c) \/ wake_update(c) \/ wake(c) \/ wake_active(c)

\* The steps that change an entry of the page tables.
Changes(c) ==
    \/ change_remove(c) \/ change_later(c) \/ change_protect(c) \/ change_clear(c)
    \/ change_enter(c) \/ enter_retry(c)

Steps(c) ==
    \/ Enters(c) \/ Moves(c) \/ Changes(c)
    \/ \E p \in Pmaps : \/ tlb_load(c, p) \/ write_start(c, p) \/ switch_context(c, p)
                        \/ next_mapping(c, p) \/ launched(c, p)
    \/ \E d \in Cpus : signal_queue(c, d)
    \/ PMAP_DEACTIVATE_KERNEL(c) \/ write_end(c) \/ lock_read(c) \/ want_write(c)
    \/ lock_write(c) \/ lock_write_done(c) \/ simple_lock(c) \/ simple_unlock(c)
    \/ signal_check(c) \/ signal_interrupt(c) \/ update_wait(c) \/ change_wired(c)
    \/ pmap_update_interrupt(c) \/ idle_interrupt(c) \/ process_updates(c)
    \/ switch_to_kernel(c) \/ PMAP_ACTIVATE_USER(c) \/ user_activated(c)
    \/ PMAP_ACTIVATE_KERNEL(c)

\* Operations are records of these fields.
LEMMA NewOperation ==
    ASSUME NEW f \in Fns, NEW p \in Pmaps, NEW g \in Pages \cup {None}, NEW w \in BOOLEAN
    PROVE  /\ Operation(f, p, g, w) \in Operations
           /\ Operation(f, p, g, w).fn = f /\ Operation(f, p, g, w).page = g
           /\ Operation(f, p, g, w).pmap = p
  BY DEF Operation, Operations

\* A call of the interface with its arguments is one of Enters.
LEMMA EntersWith ==
    ASSUME NEW c, NEW f \in Fns, NEW p \in Pmaps, NEW g \in Pages \cup {None}, NEW w \in BOOLEAN,
           NEW l \in Stages, Call(c, Operation(f, p, g, w), l),
           \/ l = "read" /\ f \in Readers
           \/ l = "want_write" /\ f \in Writers
           \/ l = "lock" /\ f \in {"protect", "extract"},
           f = "enter" \/ f \in Writers => g \in Pages
    PROVE  Enters(c)
<1>0. /\ Operation(f, p, g, w) \in Operations
      /\ Operation(f, p, g, w).fn = f /\ Operation(f, p, g, w).page = g
  BY NewOperation
<1>1. PICK o : o = Operation(f, p, g, w)
  OBVIOUS
<1>2. o \in Operations /\ o.fn = f /\ o.page = g
  BY <1>0, <1>1, Zenon
<1>3. Call(c, o, l)
  BY <1>1, Zenon
<1>4. Begins(o, l)
  BY <1>2, Zenon DEF Begins
<1> QED
  BY <1>2, <1>3, <1>4, Zenon DEF Enters

\* Every call of the pmap interface enters with the lock of its protocol.
LEMMA CallsEnter == ASSUME Types, NEW c \in Cpus, Calls(c) PROVE Enters(c)
<1>0. /\ "read" \in Stages /\ "want_write" \in Stages /\ "lock" \in Stages
      /\ FALSE \in BOOLEAN /\ kernel_pmap \in Pmaps /\ None \in Pages \cup {None}
  BY PmapAssumption DEF Stages
<1>f. /\ "remove" \in Readers /\ "enter" \in Readers /\ "change_wiring" \in Readers
      /\ "collect" \in Readers /\ "collect_more" \in Readers
      /\ "page_protect" \in Writers /\ "clear" \in Writers /\ "test" \in Writers
      /\ "protect" \in Fns /\ "extract" \in Fns /\ Readers \subseteq Fns /\ Writers \subseteq Fns
      /\ \A f \in Readers : f \notin Writers
      /\ "protect" \notin Writers /\ "extract" \notin Writers
  BY DEF Readers, Writers, Collects, Fns
<1> USE <1>0, <1>f DEF PMAP_READ_LOCK, PMAP_WRITE_LOCK, SPLVM
<1>1. CASE collect_resume(c)
  <2>1. op[c] \in Operations /\ op[c].fn = "collect_more" /\ Call(c, op[c], "read")
    BY <1>1 DEF collect_resume, Types
  <2> QED
    BY <2>1, Zenon DEF Enters, Begins
<1>2. ASSUME NEW p \in Pmaps, pmap_remove(c, p) PROVE Enters(c)
  BY <1>2, EntersWith, Zenon DEF pmap_remove
<1>3. ASSUME NEW p \in Pmaps, pmap_protect(c, p) PROVE Enters(c)
  BY <1>2, <1>3, EntersWith, Zenon DEF pmap_protect
<1>4. ASSUME NEW p \in Pmaps, pmap_extract(c, p) PROVE Enters(c)
  BY <1>4, EntersWith, Zenon DEF pmap_extract
<1>5. ASSUME NEW p \in Pmaps, pmap_change_wiring(c, p) PROVE Enters(c)
  BY <1>5, EntersWith, Zenon DEF pmap_change_wiring
<1>6. ASSUME NEW p \in Pmaps, pmap_collect(c, p) PROVE Enters(c)
  BY <1>6, EntersWith, Zenon DEF pmap_collect
<1>7. ASSUME NEW p \in Pmaps, NEW g \in Pages, NEW w \in BOOLEAN, pmap_enter(c, p, g, w) PROVE Enters(c)
  BY <1>7, EntersWith, Zenon DEF pmap_enter
<1>8. ASSUME NEW g \in Pages, NEW w \in BOOLEAN, pmap_page_protect(c, g, w) PROVE Enters(c)
  BY <1>8, EntersWith, Zenon DEF pmap_page_protect
<1>9. ASSUME NEW g \in Pages, phys_attribute_clear(c, g) \/ phys_attribute_test(c, g) PROVE Enters(c)
  BY <1>9, EntersWith, Zenon DEF phys_attribute_clear, phys_attribute_test
<1> QED
  BY <1>1, <1>2, <1>3, <1>4, <1>5, <1>6, <1>7, <1>8, <1>9, Zenon DEF Calls

\* Every step of the system is a step of one processor.
LEMMA NextSteps == ASSUME Types, Next PROVE \E c \in Cpus : Steps(c)
<1>1. PICK c \in Cpus : Choices(c) \/ Progress(c)
  BY Zenon DEF Next, Choose, Continue
<1>2. CASE Calls(c)
  BY <1>2, CallsEnter, Zenon DEF Steps
<1>3. CASE Choices(c) /\ ~Calls(c)
  BY <1>3, Zenon DEF Choices, Steps, Moves
<1>4. CASE Progress(c)
  BY <1>4, Zenon DEF Progress, Steps, Moves, Changes
<1> QED
  BY <1>1, <1>2, <1>3, <1>4, Zenon

\* A request stays in the list it was put in, or is widened.
LEMMA Queued ==
    ASSUME NEW l \in Seq(Pmaps), NEW p \in Pmaps
    PROVE  /\ Queue(l, p) \in Seq(Pmaps)
           /\ \E i \in DOMAIN Queue(l, p) : Queue(l, p)[i] \in {p, kernel_pmap}
           /\ \A q \in Pmaps : (\E i \in DOMAIN l : l[i] \in {q, kernel_pmap})
                  => \E i \in DOMAIN Queue(l, p) : Queue(l, p)[i] \in {q, kernel_pmap}
<1>1. CASE Len(l) >= UPDATE_LIST_SIZE
  <2>1. Queue(l, p) = [l EXCEPT ![UPDATE_LIST_SIZE] = kernel_pmap]
    BY <1>1, Zenon DEF Queue
  <2>2. UPDATE_LIST_SIZE \in DOMAIN l /\ UPDATE_LIST_SIZE \in 1 .. Len(l)
    BY <1>1, PmapAssumption, SMTT(30)
  <2>3. DOMAIN Queue(l, p) = DOMAIN l /\ Queue(l, p)[UPDATE_LIST_SIZE] = kernel_pmap
    BY <2>1, <2>2, Zenon
  <2>4. Queue(l, p) \in Seq(Pmaps)
    BY <2>1, <2>2, PmapAssumption, SMTT(30)
  <2> QED
    BY <2>2, <2>3, <2>4, Zenon
<1>2. CASE ~(Len(l) >= UPDATE_LIST_SIZE)
  <2>1. Queue(l, p) = Append(l, p)
    BY <1>2, Zenon DEF Queue
  <2>2. /\ Append(l, p) \in Seq(Pmaps)
        /\ Len(l) + 1 \in DOMAIN Append(l, p) /\ Append(l, p)[Len(l) + 1] = p
        /\ \A i \in DOMAIN l : i \in DOMAIN Append(l, p) /\ Append(l, p)[i] = l[i]
    BY SMTT(30)
  <2> QED
    BY <2>1, <2>2, Zenon
<1> QED
  BY <1>1, <1>2, Zenon

\* The fields of an operation that a step changes.
SameCall(n, o) == n.page = o.page /\ n.write = o.write /\ n.fn = o.fn

\* An operation with another target (signal_cpus, or a write).
LEMMA OpTarget ==
    ASSUME NEW o \in Operations, NEW x
    PROVE  /\ SameCall([o EXCEPT !.target = x], o)
           /\ [o EXCEPT !.target = x].pmap = o.pmap
           /\ [o EXCEPT !.target = x].todo = o.todo
           /\ [o EXCEPT !.target = x].target = x
           /\ [o EXCEPT !.target = x].old = o.old
           /\ x \in Cpus \cup Pmaps \cup {None} => [o EXCEPT !.target = x] \in Operations
  BY SMTT(30) DEF Operations, SameCall

\* An operation that has read an entry (pmap_change_wiring).
LEMMA OpOld ==
    ASSUME NEW o \in Operations, NEW x
    PROVE  /\ SameCall([o EXCEPT !.old = x], o)
           /\ [o EXCEPT !.old = x].pmap = o.pmap
           /\ [o EXCEPT !.old = x].todo = o.todo
           /\ [o EXCEPT !.old = x].target = o.target
           /\ [o EXCEPT !.old = x].old = x
           /\ x \in Pte \cup {NoPte} => [o EXCEPT !.old = x] \in Operations
  BY SMTT(30) DEF Operations, SameCall

\* An operation with a pv list to visit (lock_write).
LEMMA OpTodo ==
    ASSUME NEW o \in Operations, NEW x
    PROVE  /\ SameCall([o EXCEPT !.todo = x], o)
           /\ [o EXCEPT !.todo = x].pmap = o.pmap
           /\ [o EXCEPT !.todo = x].todo = x
           /\ x \in SUBSET Pmaps => [o EXCEPT !.todo = x] \in Operations
  BY SMTT(30) DEF Operations, SameCall

\* An operation that goes on as another (pmap_collect).
LEMMA OpFn ==
    ASSUME NEW o \in Operations, NEW x
    PROVE  /\ [o EXCEPT !.fn = x].fn = x
           /\ [o EXCEPT !.fn = x].page = o.page
           /\ [o EXCEPT !.fn = x].pmap = o.pmap
           /\ [o EXCEPT !.fn = x].todo = o.todo
           /\ [o EXCEPT !.fn = x].target = o.target
           /\ [o EXCEPT !.fn = x].old = o.old
           /\ x \in Fns => [o EXCEPT !.fn = x] \in Operations
  BY SMTT(30) DEF Operations

\* An operation that turns to the next pmap of its pv list.
LEMMA OpPmap ==
    ASSUME NEW o \in Operations, NEW x \in Pmaps
    PROVE  /\ SameCall([o EXCEPT !.pmap = x, !.todo = @ \ {x}], o)
           /\ [o EXCEPT !.pmap = x, !.todo = @ \ {x}].pmap = x
           /\ [o EXCEPT !.pmap = x, !.todo = @ \ {x}].todo = o.todo \ {x}
           /\ [o EXCEPT !.pmap = x, !.todo = @ \ {x}] \in Operations
<1>1. PICK n : n = [o EXCEPT !.pmap = x]
  OBVIOUS
<1>2. /\ n \in Operations /\ n.page = o.page /\ n.write = o.write /\ n.fn = o.fn /\ n.pmap = x
      /\ n.todo = o.todo
  BY <1>1, SMTT(30) DEF Operations
<1>3. [o EXCEPT !.pmap = x, !.todo = @ \ {x}] = [n EXCEPT !.todo = o.todo \ {x}]
  BY <1>1, <1>2, Zenon
<1>4. o.todo \ {x} \in SUBSET Pmaps
  BY SMTT(30) DEF Operations
<1>5. PICK t : t = o.todo \ {x}
  OBVIOUS
<1>6. /\ SameCall([n EXCEPT !.todo = t], n) /\ [n EXCEPT !.todo = t].pmap = n.pmap
      /\ [n EXCEPT !.todo = t].todo = t /\ [n EXCEPT !.todo = t] \in Operations
  BY <1>2, <1>4, <1>5, OpTodo, SMTT(30)
<1>7. [o EXCEPT !.pmap = x, !.todo = @ \ {x}] = [n EXCEPT !.todo = t]
  BY <1>3, <1>5, Zenon
<1> QED
  BY <1>2, <1>5, <1>6, <1>7, Zenon DEF SameCall

\* What the steps of Moves leave alone.
Stands(c) ==
    /\ \E l \in Stages : pc' = [pc EXCEPT ![c] = l]
    /\ cpus_active' \subseteq cpus_active \cup {c} /\ cpus_active \subseteq cpus_active' \cup {c}
    /\ cpus_idle' \subseteq cpus_idle \cup {c} /\ cpus_idle \subseteq cpus_idle' \cup {c}
    /\ UNCHANGED <<pte, attributes, tlb, lock, readers, writer, cpus_using, interrupt, update_list,
                   dirbase, op, users, written, unsignalled, early>>

\* The moves of a processor leave page tables, TLBs, locks and requests alone.
LEMMA MovesStand == ASSUME NEW c \in Cpus, Moves(c) PROVE Stands(c)
<1> USE DEF Stands, Move, Goto, maps, locks, sets, requests, history, Stages
<1>1. CASE MARK_CPU_IDLE(c)
  BY <1>1, Zenon DEF MARK_CPU_IDLE
<1>2. CASE MARK_CPU_ACTIVE(c)
  BY <1>2, Zenon DEF MARK_CPU_ACTIVE
<1>3. CASE launch(c)
  BY <1>3, Zenon DEF launch
<1>4. CASE SPLX(c)
  BY <1>4, Zenon DEF SPLX
<1>5. CASE spin_my(c)
  BY <1>5, Zenon DEF spin_my
<1>6. CASE spin_kernel(c)
  BY <1>6, Zenon DEF spin_kernel
<1>7. CASE set_active(c)
  BY <1>7, Zenon DEF set_active
<1>8. CASE update_again(c)
  BY <1>8, Zenon DEF update_again, Interrupted
<1>9. CASE interrupt_return(c)
  BY <1>9, Zenon DEF interrupt_return
<1>10. CASE switch_to_user(c)
  BY <1>10, Zenon DEF switch_to_user
<1>11. CASE idle(c)
  BY <1>11, Zenon DEF idle
<1>12. CASE wake_update(c)
  BY <1>12, Zenon DEF wake_update, Interrupted
<1>13. CASE wake(c)
  BY <1>13, Zenon DEF wake
<1>14. CASE wake_active(c)
  BY <1>14, Zenon DEF wake_active
<1> QED
  BY <1>1, <1>2, <1>3, <1>4, <1>5, <1>6, <1>7, <1>8, <1>9, <1>10, <1>11, <1>12, <1>13, <1>14,
     Zenon DEF Moves

\* Changing one bit of an entry keeps the rest of it.
LEMMA PteFields ==
    ASSUME NEW e \in Pte, NEW b \in BOOLEAN
    PROVE  /\ [e EXCEPT !.write = b] \in Pte /\ [e EXCEPT !.mod = b] \in Pte
           /\ [e EXCEPT !.write = b].page = e.page /\ [e EXCEPT !.write = b].mod = e.mod
           /\ [e EXCEPT !.mod = b].page = e.page /\ [e EXCEPT !.mod = b].write = e.write
           /\ [e EXCEPT !.mod = b].mod = b
<1>1. [e EXCEPT !.write = b] \in Pte
  BY Zenon DEF Pte
<1>2. [e EXCEPT !.mod = b] \in Pte
  BY Zenon DEF Pte
<1>3. [e EXCEPT !.write = b].page = e.page /\ [e EXCEPT !.write = b].mod = e.mod
  BY Zenon DEF Pte
<1>4. /\ [e EXCEPT !.mod = b].page = e.page /\ [e EXCEPT !.mod = b].write = e.write
      /\ [e EXCEPT !.mod = b].mod = b
  BY Zenon DEF Pte
<1> QED
  BY <1>1, <1>2, <1>3, <1>4, Zenon

\* What a change of an entry leaves alone.
SameOp(n, o) ==
    /\ n.page = o.page /\ n.pmap = o.pmap /\ n.todo = o.todo /\ n.target = o.target /\ n.old = o.old
    /\ n.fn = o.fn \/ (n.fn \in Collects /\ o.fn \in Collects)
Edits(c) ==
    /\ pc[c] = "change" /\ pc' = [pc EXCEPT ![c] = "unlock"]
    /\ op' \in [Cpus -> Operations] /\ SameOp(op'[c], op[c])
    /\ \A d \in Cpus \ {c} : op'[d] = op[d]
    /\ \E e \in Pte \cup {NoPte} : pte' = [pte EXCEPT ![op[c].pmap] = e]
    /\ UNCHANGED <<tlb, lock, readers, writer, cpus_using, cpus_active, cpus_idle, interrupt,
                   update_list, dirbase, users, unsignalled, early>>

\* pmap_collect changes the function of its own operation only.
LEMMA NewFn ==
    ASSUME Types, NEW c \in Cpus, NEW f \in Fns, op' = [op EXCEPT ![c].fn = f],
           f = op[c].fn \/ (f \in Collects /\ op[c].fn \in Collects)
    PROVE  /\ op' \in [Cpus -> Operations] /\ SameOp(op'[c], op[c])
           /\ \A d \in Cpus \ {c} : op'[d] = op[d]
<1>1. PICK o : o = op[c]
  OBVIOUS
<1>2. o \in Operations /\ op \in [Cpus -> Operations]
  BY <1>1, Zenon DEF Types
<1>3. PICK n : n = [o EXCEPT !.fn = f]
  OBVIOUS
<1>4. n \in Operations /\ SameOp(n, o)
  BY <1>1, <1>2, <1>3, OpFn, SMTT(30) DEF SameOp
<1>5. op' = [op EXCEPT ![c] = n]
  BY <1>1, <1>2, <1>3, Zenon
<1> QED
  BY <1>1, <1>2, <1>4, <1>5, Zenon

\* The changes that keep the operation.
LEMMA OldOp ==
    ASSUME Types, NEW c \in Cpus, op' = op
    PROVE  /\ op' \in [Cpus -> Operations] /\ SameOp(op'[c], op[c])
           /\ \A d \in Cpus \ {c} : op'[d] = op[d]
  BY Zenon DEF Types, SameOp

\* The changes of an entry have the frame of Edits.
LEMMA ChangesEdit ==
    ASSUME Types, SystemLock, ClearsItsPage, NEW c \in Cpus, Changes(c)
    PROVE  Edits(c)
<1> USE DEF Edits, Move, Goto, maps, locks, sets, requests, history
<1>p. PICK p : p = op[c].pmap
  OBVIOUS
<1>t. p \in Pmaps /\ pte \in [Pmaps -> Pte \cup {NoPte}] /\ op[c].fn \in Fns /\ op[c].write \in BOOLEAN
  BY <1>p, SMTT(30) DEF Types, Operations
<1>1. CASE change_remove(c)
  <2>1. PICK f : f = IF op[c].fn = "collect_more" THEN "collect" ELSE op[c].fn
    OBVIOUS
  <2>2. f \in Fns /\ (f = op[c].fn \/ (f \in Collects /\ op[c].fn \in Collects))
    BY <1>t, <2>1, Zenon DEF Fns, Readers, Collects
  <2>3. op' = [op EXCEPT ![c].fn = f]
    BY <1>1, <2>1, Zenon DEF change_remove, Types
  <2> QED
    BY <1>1, <2>2, <2>3, NewFn, Zenon DEF change_remove, remove_range
<1>2. CASE change_later(c)
  <2>1. "collect_more" \in Fns /\ "collect_more" \in Collects /\ op[c].fn \in Collects
    BY <1>2, Zenon DEF Fns, Readers, Collects, change_later
  <2>2. pte' = [pte EXCEPT ![p] = pte[p]] /\ pte[p] \in Pte \cup {NoPte}
    BY <1>2, <1>t, Zenon DEF change_later
  <2> QED
    BY <1>2, <1>p, <2>1, <2>2, NewFn, Zenon DEF change_later
<1>3. CASE change_protect(c)
  <2>1. \E e \in Pte \cup {NoPte} : pte' = [pte EXCEPT ![p] = e]
    <3>1. CASE Mapped(p)
      <4>1. [pte[p] EXCEPT !.write = FALSE] \in Pte
        <5>1. pte[p] \in Pte
          BY <1>t, <3>1, Zenon DEF Mapped
        <5> QED
          BY <5>1, PteFields, FALSE \in BOOLEAN, Zenon
      <4>2. pte' = [pte EXCEPT ![p] = [pte[p] EXCEPT !.write = FALSE]]
        BY <1>p, <1>t, <1>3, <3>1, Zenon DEF change_protect
      <4> QED
        BY <4>1, <4>2, Zenon
    <3>2. CASE ~Mapped(p)
      <4>1. pte' = [pte EXCEPT ![p] = pte[p]] /\ pte[p] \in Pte \cup {NoPte}
        BY <1>p, <1>3, <1>t, <3>2, Zenon DEF change_protect
      <4> QED
        BY <4>1, Zenon
    <3> QED
      BY <3>1, <3>2, Zenon
  <2> QED
    BY <1>3, <1>p, <2>1, OldOp, Zenon DEF change_protect
<1>4. CASE change_clear(c)
  <2>1. Mapped(p)
    BY <1>4, <1>p, Zenon DEF change_clear, ClearsItsPage, ClearsAt, Locked, Visiting, PvList
  <2>2. [pte[p] EXCEPT !.mod = FALSE] \in Pte
    <3>1. pte[p] \in Pte
      BY <1>t, <2>1, Zenon DEF Mapped
    <3> QED
      BY <3>1, PteFields, FALSE \in BOOLEAN, Zenon
  <2>3. pte' = [pte EXCEPT ![p] = [pte[p] EXCEPT !.mod = FALSE]]
    BY <1>p, <1>t, <1>4, Zenon DEF change_clear
  <2> QED
    BY <1>4, <1>p, <2>2, <2>3, OldOp, Zenon DEF change_clear
<1>5. CASE change_enter(c)
  <2>1. op[c].page \in Pages
    BY <1>5, Zenon DEF change_enter, SystemLock, SystemAt
  <2>2. \A m \in BOOLEAN : Entry(op[c].page, op[c].write, m) \in Pte
    BY <1>t, <2>1, SMTT(30) DEF Entry, Pte
  <2>3. ((Mapped(p) /\ pte[p].page = op[c].page) /\ pte[p].mod) \in BOOLEAN
    BY <1>t, SMTT(30) DEF Pte, Mapped
  <2>4. pte' = [pte EXCEPT ![p] = Entry(op[c].page, op[c].write, (Mapped(p) /\ pte[p].page = op[c].page) /\ pte[p].mod)]
    BY <1>p, <1>5, Zenon DEF change_enter
  <2> QED
    BY <1>5, <1>p, <2>2, <2>3, <2>4, OldOp, Zenon DEF change_enter
<1>6. CASE enter_retry(c)
  BY <1>6, OldOp, Zenon DEF enter_retry, remove_range
<1> QED
  BY <1>1, <1>2, <1>3, <1>4, <1>5, <1>6, Zenon DEF Changes

\* Setting a target keeps everything else, of this operation and the others.
LEMMA NewTarget ==
    ASSUME Types, NEW c \in Cpus, NEW x \in Cpus \cup Pmaps \cup {None}, op' = [op EXCEPT ![c].target = x]
    PROVE  /\ op' \in [Cpus -> Operations] /\ \A d \in Cpus \ {c} : op'[d] = op[d]
           /\ SameCall(op'[c], op[c])
           /\ op'[c].pmap = op[c].pmap /\ op'[c].todo = op[c].todo /\ op'[c].target = x /\ op'[c].old = op[c].old
<1>1. PICK o : o = op[c]
  OBVIOUS
<1>2. o \in Operations /\ op \in [Cpus -> Operations]
  BY <1>1, Zenon DEF Types
<1>3. PICK n : n = [o EXCEPT !.target = x]
  OBVIOUS
<1>4. n \in Operations /\ SameCall(n, o) /\ n.pmap = o.pmap /\ n.todo = o.todo /\ n.target = x /\ n.old = o.old
  BY <1>2, <1>3, OpTarget, SMTT(30)
<1>5. op' = [op EXCEPT ![c] = n]
  BY <1>1, <1>2, <1>3, Zenon
<1> QED
  BY <1>1, <1>2, <1>4, <1>5, Zenon

\* Remembering an entry keeps everything else.
LEMMA NewOld ==
    ASSUME Types, NEW c \in Cpus, NEW x \in Pte \cup {NoPte}, op' = [op EXCEPT ![c].old = x]
    PROVE  /\ op' \in [Cpus -> Operations] /\ \A d \in Cpus \ {c} : op'[d] = op[d]
           /\ SameCall(op'[c], op[c])
           /\ op'[c].pmap = op[c].pmap /\ op'[c].todo = op[c].todo /\ op'[c].target = op[c].target /\ op'[c].old = x
<1>1. PICK o : o = op[c]
  OBVIOUS
<1>2. o \in Operations /\ op \in [Cpus -> Operations]
  BY <1>1, Zenon DEF Types
<1>3. PICK n : n = [o EXCEPT !.old = x]
  OBVIOUS
<1>4. n \in Operations /\ SameCall(n, o) /\ n.pmap = o.pmap /\ n.todo = o.todo /\ n.target = o.target /\ n.old = x
  BY <1>2, <1>3, OpOld, SMTT(30)
<1>5. op' = [op EXCEPT ![c] = n]
  BY <1>1, <1>2, <1>3, Zenon
<1> QED
  BY <1>1, <1>2, <1>4, <1>5, Zenon

\* Setting the pv list keeps everything else.
LEMMA NewTodo ==
    ASSUME Types, NEW c \in Cpus, NEW x \in SUBSET Pmaps, op' = [op EXCEPT ![c].todo = x]
    PROVE  /\ op' \in [Cpus -> Operations] /\ \A d \in Cpus \ {c} : op'[d] = op[d]
           /\ SameCall(op'[c], op[c])
           /\ op'[c].pmap = op[c].pmap /\ op'[c].todo = x
<1>1. PICK o : o = op[c]
  OBVIOUS
<1>2. o \in Operations /\ op \in [Cpus -> Operations]
  BY <1>1, Zenon DEF Types
<1>3. PICK n : n = [o EXCEPT !.todo = x]
  OBVIOUS
<1>4. n \in Operations /\ SameCall(n, o) /\ n.pmap = o.pmap /\ n.todo = x
  BY <1>2, <1>3, OpTodo, SMTT(30)
<1>5. op' = [op EXCEPT ![c] = n]
  BY <1>1, <1>2, <1>3, Zenon
<1> QED
  BY <1>1, <1>2, <1>4, <1>5, Zenon

\* Replacing the operation of c keeps those of the others.
LEMMA NewOp ==
    ASSUME Types, NEW c \in Cpus, NEW o \in Operations, op' = [op EXCEPT ![c] = o]
    PROVE  op' \in [Cpus -> Operations] /\ op'[c] = o /\ \A d \in Cpus \ {c} : op'[d] = op[d]
  BY Zenon DEF Types

\* Turning to the next pmap keeps everything but the pmap and the pv list.
LEMMA NewPmap ==
    ASSUME Types, NEW c \in Cpus, NEW x \in Pmaps, op' = [op EXCEPT ![c].pmap = x, ![c].todo = @ \ {x}]
    PROVE  /\ op' \in [Cpus -> Operations] /\ \A d \in Cpus \ {c} : op'[d] = op[d]
           /\ SameCall(op'[c], op[c])
           /\ op'[c].pmap = x /\ op'[c].todo = op[c].todo \ {x}
<1>1. PICK o : o = op[c]
  OBVIOUS
<1>2. o \in Operations /\ op \in [Cpus -> Operations]
  BY <1>1, Zenon DEF Types
<1>3. PICK n : n = [o EXCEPT !.pmap = x, !.todo = @ \ {x}]
  OBVIOUS
<1>4. n \in Operations /\ SameCall(n, o) /\ n.pmap = x /\ n.todo = o.todo \ {x}
  <2>1. SameCall(n, o)
    BY <1>2, <1>3, OpPmap, Zenon
  <2>2. n.pmap = x /\ n.todo = o.todo \ {x}
    BY <1>2, <1>3, OpPmap, Zenon
  <2>3. n \in Operations
    BY <1>2, <1>3, OpPmap, Zenon
  <2> QED
    BY <2>1, <2>2, <2>3, Zenon
<1>5. op' = [op EXCEPT ![c] = [op[c] EXCEPT !.pmap = x, !.todo = @ \ {x}]]
  BY <1>2, Zenon
<1>6. op' = [op EXCEPT ![c] = n]
  BY <1>1, <1>3, <1>5, Zenon
<1>7. op' \in [Cpus -> Operations] /\ op'[c] = n /\ \A d \in Cpus \ {c} : op'[d] = op[d]
  BY <1>4, <1>6, NewOp, Zenon
<1> QED
  BY <1>1, <1>4, <1>7, Zenon

\* What a processor holds that is in no operation.
LEMMA NoOp == NoOperation \in Operations /\ NoOperation.fn = "none" /\ NoOperation.pmap = kernel_pmap
<1>1. "none" \in Fns /\ kernel_pmap \in Pmaps /\ None \in Pages \cup {None} /\ FALSE \in BOOLEAN
  BY PmapAssumption, Zenon DEF Fns
<1> QED
  BY <1>1, Zenon DEF NoOperation, Operation, Operations

\* The operation of a context switch (PMAP_ACTIVATE_USER).
LEMMA SwitchOp ==
    ASSUME NEW p \in Pmaps
    PROVE  /\ Operation("switch", p, None, FALSE) \in Operations
           /\ Operation("switch", p, None, FALSE).fn = "switch"
           /\ Operation("switch", p, None, FALSE).pmap = p
<1>1. "switch" \in Fns /\ None \in Pages \cup {None} /\ FALSE \in BOOLEAN
  BY Zenon DEF Fns
<1> QED
  BY <1>1, Zenon DEF Operation, Operations

\* A step of c moves no other processor.
PcFrame(c) == pc' \in [Cpus -> Stages] /\ \A d \in Cpus \ {c} : pc'[d] = pc[d]

\* Every step of c has the frame PcFrame.
LEMMA StepPc == ASSUME Types, SystemLock, ClearsItsPage, NEW c \in Cpus, Steps(c) PROVE PcFrame(c)
<1> USE DEF Move, Goto, maps, PcFrame
<1>t. pc \in [Cpus -> Stages]
  BY Zenon DEF Types
<1>1. CASE Enters(c)
  BY <1>1, <1>t, Zenon DEF Enters, Call
<1>2. CASE Moves(c)
  BY <1>2, MovesStand, <1>t, ZenonT(60) DEF Stands
<1>3. CASE Changes(c)
  BY <1>3, ChangesEdit, <1>t, Zenon DEF Edits, Stages
<1>4. ASSUME NEW p \in Pmaps, tlb_load(c, p) PROVE PcFrame(c)
  BY <1>4, <1>t, Zenon DEF tlb_load
<1>5. ASSUME NEW p \in Pmaps, write_start(c, p) PROVE PcFrame(c)
  BY <1>5, <1>t, Zenon DEF write_start, Stages
<1>6. ASSUME NEW p \in Pmaps, switch_context(c, p) PROVE PcFrame(c)
  BY <1>6, <1>t, Zenon DEF switch_context, Stages
<1>7. ASSUME NEW p \in Pmaps, next_mapping(c, p) PROVE PcFrame(c)
  BY <1>7, <1>t, Zenon DEF next_mapping, Stages
<1>8. ASSUME NEW p \in Pmaps, launched(c, p) PROVE PcFrame(c)
  BY <1>8, <1>t, Zenon DEF launched, Stages
<1>9. ASSUME NEW d \in Cpus, signal_queue(c, d) PROVE PcFrame(c)
  BY <1>9, <1>t, Zenon DEF signal_queue, Stages
<1>10. CASE PMAP_DEACTIVATE_KERNEL(c)
  BY <1>10, <1>t, Zenon DEF PMAP_DEACTIVATE_KERNEL, Stages
<1>11. CASE write_end(c)
  BY <1>11, <1>t, Zenon DEF write_end, Stages
<1>12. CASE lock_read(c)
  BY <1>12, <1>t, Zenon DEF lock_read, Stages
<1>13. CASE want_write(c)
  BY <1>13, <1>t, Zenon DEF want_write, Stages
<1>14. CASE lock_write(c)
  BY <1>14, <1>t, Zenon DEF lock_write, Stages
<1>15. CASE lock_write_done(c)
  BY <1>15, <1>t, Zenon DEF lock_write_done, Stages
<1>16. CASE simple_lock(c)
  BY <1>16, <1>t, Zenon DEF simple_lock, Stages, AfterLock
<1>17. CASE simple_unlock(c)
  BY <1>17, <1>t, Zenon DEF simple_unlock, Stages
<1>18. CASE signal_check(c)
  BY <1>18, <1>t, Zenon DEF signal_check, Stages
<1>19. CASE signal_interrupt(c)
  BY <1>19, <1>t, Zenon DEF signal_interrupt, Stages
<1>20. CASE update_wait(c)
  BY <1>20, <1>t, Zenon DEF update_wait, flush_tlb, Stages
<1>21. CASE change_wired(c)
  BY <1>21, <1>t, Zenon DEF change_wired, Stages
<1>22. CASE pmap_update_interrupt(c)
  BY <1>22, <1>t, Zenon DEF pmap_update_interrupt, Interrupted, Stages
<1>23. CASE idle_interrupt(c)
  BY <1>23, <1>t, Zenon DEF idle_interrupt
<1>24. CASE process_updates(c)
  BY <1>24, <1>t, Zenon DEF process_updates, process_pmap_updates, flush_tlb, Stages
<1>25. CASE switch_to_kernel(c)
  BY <1>25, <1>t, Zenon DEF switch_to_kernel, set_dirbase, flush_tlb, Stages
<1>26. CASE PMAP_ACTIVATE_USER(c)
  BY <1>26, <1>t, Zenon DEF PMAP_ACTIVATE_USER, set_dirbase, flush_tlb, Stages
<1>27. CASE user_activated(c)
  BY <1>27, <1>t, Zenon DEF user_activated, Stages
<1>28. CASE PMAP_ACTIVATE_KERNEL(c)
  BY <1>28, <1>t, Zenon DEF PMAP_ACTIVATE_KERNEL, process_pmap_updates, flush_tlb, Stages
<1> QED
  BY <1>1, <1>2, <1>3, <1>4, <1>5, <1>6, <1>7, <1>8, <1>9, <1>10, <1>11, <1>12, <1>13, <1>14,
     <1>15, <1>16, <1>17, <1>18, <1>19, <1>20, <1>21, <1>22, <1>23, <1>24, <1>25, <1>26, <1>27,
     <1>28, Zenon DEF Steps

\* A step of c changes no operation of another.
OpFrame(c) == op' \in [Cpus -> Operations] /\ \A d \in Cpus \ {c} : op'[d] = op[d]

\* Every step of c has the frame OpFrame.
LEMMA StepOp == ASSUME Types, SystemLock, ClearsItsPage, NEW c \in Cpus, Steps(c) PROVE OpFrame(c)
<1> USE DEF OpFrame
<1>t. op \in [Cpus -> Operations] /\ op[c] \in Operations /\ None \in Cpus \cup Pmaps \cup {None}
  BY Zenon DEF Types
<1>1. CASE Enters(c)
  BY <1>1, <1>t, NewOp, Zenon DEF Enters, Call
<1>2. CASE Moves(c)
  BY <1>2, MovesStand, <1>t, Zenon DEF Stands
<1>3. CASE Changes(c)
  BY <1>3, ChangesEdit, <1>t, Zenon DEF Edits
<1>4. ASSUME NEW p \in Pmaps, tlb_load(c, p) PROVE OpFrame(c)
  BY <1>4, <1>t, Zenon DEF tlb_load
<1>5. ASSUME NEW p \in Pmaps, write_start(c, p) PROVE OpFrame(c)
  BY <1>5, <1>t, NewTarget, Zenon DEF write_start
<1>6. ASSUME NEW p \in Pmaps, switch_context(c, p) PROVE OpFrame(c)
  BY <1>6, <1>t, NewOp, SwitchOp, Zenon DEF switch_context
<1>7. ASSUME NEW p \in Pmaps, next_mapping(c, p) PROVE OpFrame(c)
  BY <1>7, <1>t, NewPmap, Zenon DEF next_mapping
<1>8. ASSUME NEW p \in Pmaps, launched(c, p) PROVE OpFrame(c)
  BY <1>8, <1>t, NewOp, SwitchOp, Zenon DEF launched
<1>9. ASSUME NEW d \in Cpus, signal_queue(c, d) PROVE OpFrame(c)
  BY <1>9, <1>t, NewTarget, Zenon DEF signal_queue
<1>10. CASE PMAP_DEACTIVATE_KERNEL(c)
  BY <1>10, <1>t, Zenon DEF PMAP_DEACTIVATE_KERNEL
<1>11. CASE write_end(c)
  BY <1>11, <1>t, NewTarget, Zenon DEF write_end
<1>12. CASE lock_read(c)
  BY <1>12, <1>t, Zenon DEF lock_read
<1>13. CASE want_write(c)
  BY <1>13, <1>t, Zenon DEF want_write
<1>14. CASE lock_write(c)
  <2>1. PICK x : x = IF op[c].fn = "test" /\ op[c].page \in attributes THEN {} ELSE PvList(op[c].page)
    OBVIOUS
  <2>2. x \in SUBSET Pmaps /\ op' = [op EXCEPT ![c].todo = x]
    BY <1>14, <2>1, Zenon DEF lock_write, PvList
  <2> QED
    BY <2>2, NewTodo, Zenon
<1>15. CASE lock_write_done(c)
  BY <1>15, <1>t, NewOp, NoOp, Zenon DEF lock_write_done
<1>16. CASE simple_lock(c)
  <2>1. PICK x : x = IF op[c].fn = "change_wiring" THEN pte[op[c].pmap] ELSE NoPte
    OBVIOUS
  <2>2. op[c].pmap \in Pmaps
    BY <1>t, SMTT(30) DEF Operations
  <2>3. x \in Pte \cup {NoPte} /\ op' = [op EXCEPT ![c].old = x]
    BY <1>16, <2>1, <2>2, Zenon DEF simple_lock, Types
  <2> QED
    BY <2>3, NewOld, Zenon
<1>17. CASE simple_unlock(c)
  <2>1. PICK x : x = IF writer = c \/ op[c].fn = "collect_more" THEN op[c] ELSE NoOperation
    OBVIOUS
  <2>2. x \in Operations /\ op' = [op EXCEPT ![c] = x]
    BY <1>17, <1>t, <2>1, NoOp, Zenon DEF simple_unlock
  <2> QED
    BY <2>2, NewOp, Zenon
<1>18. CASE signal_check(c)
  <2>1. PICK x : x = IF op[c].target \in cpus_idle THEN None ELSE op[c].target
    OBVIOUS
  <2>2. op[c].target \in Cpus \cup Pmaps \cup {None}
    BY <1>t, SMTT(30) DEF Operations
  <2>3. x \in Cpus \cup Pmaps \cup {None} /\ op' = [op EXCEPT ![c].target = x]
    BY <1>18, <1>t, <2>1, <2>2, Zenon DEF signal_check
  <2> QED
    BY <2>3, NewTarget, Zenon
<1>19. CASE signal_interrupt(c)
  BY <1>19, <1>t, NewTarget, Zenon DEF signal_interrupt
<1>20. CASE update_wait(c)
  BY <1>20, <1>t, Zenon DEF update_wait, flush_tlb
<1>21. CASE change_wired(c)
  BY <1>21, <1>t, NewOld, Zenon DEF change_wired
<1>22. CASE pmap_update_interrupt(c)
  BY <1>22, <1>t, Zenon DEF pmap_update_interrupt, Interrupted
<1>23. CASE idle_interrupt(c)
  BY <1>23, <1>t, Zenon DEF idle_interrupt
<1>24. CASE process_updates(c)
  BY <1>24, <1>t, Zenon DEF process_updates, process_pmap_updates, flush_tlb
<1>25. CASE switch_to_kernel(c)
  BY <1>25, <1>t, NewOp, NoOp, Zenon DEF switch_to_kernel, set_dirbase, flush_tlb
<1>26. CASE PMAP_ACTIVATE_USER(c)
  BY <1>26, <1>t, Zenon DEF PMAP_ACTIVATE_USER, set_dirbase, flush_tlb
<1>27. CASE user_activated(c)
  BY <1>27, <1>t, NewOp, NoOp, Zenon DEF user_activated
<1>28. CASE PMAP_ACTIVATE_KERNEL(c)
  BY <1>28, <1>t, Zenon DEF PMAP_ACTIVATE_KERNEL, process_pmap_updates, flush_tlb
<1> QED
  BY <1>1, <1>2, <1>3, <1>4, <1>5, <1>6, <1>7, <1>8, <1>9, <1>10, <1>11, <1>12, <1>13, <1>14,
     <1>15, <1>16, <1>17, <1>18, <1>19, <1>20, <1>21, <1>22, <1>23, <1>24, <1>25, <1>26, <1>27,
     <1>28, Zenon DEF Steps

\* A step of c changes no TLB, page directory or list of users of another.
HomeFrame(c) ==
    /\ tlb' \in [Cpus -> [Pmaps -> Pte \cup {NoPte}]] /\ dirbase' \in [Cpus -> Pmaps]
    /\ users' \in [Cpus -> SUBSET Cpus]
    /\ \A d \in Cpus \ {c} : tlb'[d] = tlb[d] /\ dirbase'[d] = dirbase[d] /\ users'[d] = users[d]

\* A flushed TLB holds no entry (flush_tlb).
LEMMA EmptyTlbType == EmptyTlb \in [Pmaps -> Pte \cup {NoPte}] /\ \A p \in Pmaps : EmptyTlb[p] = NoPte
  BY Zenon DEF EmptyTlb

\* The pmap and the function of an operation.
LEMMA OpType == ASSUME Types, NEW c \in Cpus PROVE op[c].pmap \in Pmaps /\ op[c].fn \in Fns
<1>1. op[c] \in Operations
  BY Zenon DEF Types
<1> QED
  BY <1>1, SMTT(30) DEF Operations

\* Every step of c has the frame HomeFrame.
LEMMA StepHome ==
    ASSUME Types, LockHeld, SystemLock, ClearsItsPage, Writing, NEW c \in Cpus, Steps(c)
    PROVE  HomeFrame(c)
<1> USE DEF HomeFrame, maps, locks, sets, requests, history
<1>t. /\ tlb \in [Cpus -> [Pmaps -> Pte \cup {NoPte}]] /\ dirbase \in [Cpus -> Pmaps]
      /\ users \in [Cpus -> SUBSET Cpus] /\ pte \in [Pmaps -> Pte \cup {NoPte}]
      /\ cpus_using \in [Pmaps -> SUBSET Cpus] /\ kernel_pmap \in Pmaps
  BY PmapAssumption, Zenon DEF Types
<1>1. CASE Enters(c)
  BY <1>1, <1>t, Zenon DEF Enters, Call
<1>2. CASE Moves(c)
  BY <1>2, MovesStand, <1>t, Zenon DEF Stands
<1>3. CASE Changes(c)
  BY <1>3, ChangesEdit, <1>t, Zenon DEF Edits
<1>4. ASSUME NEW p \in Pmaps, tlb_load(c, p) PROVE HomeFrame(c)
  BY <1>4, <1>t, Zenon DEF tlb_load
<1>5. ASSUME NEW p \in Pmaps, write_start(c, p) PROVE HomeFrame(c)
  BY <1>5, <1>t, Zenon DEF write_start
<1>6. ASSUME NEW p \in Pmaps, switch_context(c, p) PROVE HomeFrame(c)
  BY <1>6, <1>t, Zenon DEF switch_context
<1>7. ASSUME NEW p \in Pmaps, next_mapping(c, p) PROVE HomeFrame(c)
  BY <1>7, <1>t, Zenon DEF next_mapping
<1>8. ASSUME NEW p \in Pmaps, launched(c, p) PROVE HomeFrame(c)
  BY <1>8, <1>t, Zenon DEF launched
<1>9. ASSUME NEW d \in Cpus, signal_queue(c, d) PROVE HomeFrame(c)
  BY <1>9, <1>t, Zenon DEF signal_queue
<1>10. CASE PMAP_DEACTIVATE_KERNEL(c)
  BY <1>10, <1>t, Zenon DEF PMAP_DEACTIVATE_KERNEL
<1>11. CASE write_end(c)
  <2>p. PICK p : p = op[c].target
    OBVIOUS
  <2>1. pc[c] = "write"
    BY <1>11, Zenon DEF write_end, Move
  <2>2. p \in Pmaps /\ tlb[c][p] # NoPte
    BY <2>p, <2>1, Zenon DEF Writing, WritesAt
  <2>3. tlb[c][p] \in Pte /\ tlb[c] \in [Pmaps -> Pte \cup {NoPte}]
    BY <1>t, <2>2, Zenon
  <2>4. [tlb[c][p] EXCEPT !.mod = TRUE] \in Pte
    BY <2>3, PteFields, TRUE \in BOOLEAN, Zenon
  <2>5. tlb' = tlb \/ tlb' = [tlb EXCEPT ![c] = [tlb[c] EXCEPT ![p] = [tlb[c][p] EXCEPT !.mod = TRUE]]]
    BY <1>11, <1>t, <2>p, Zenon DEF write_end
  <2>6. PICK e \in Pte : tlb' = tlb \/ tlb' = [tlb EXCEPT ![c] = [tlb[c] EXCEPT ![p] = e]]
    BY <2>4, <2>5, Zenon
  <2>7. PICK r \in [Pmaps -> Pte \cup {NoPte}] : r = [tlb[c] EXCEPT ![p] = e]
    BY <2>3, Zenon
  <2>9. tlb' = tlb \/ tlb' = [tlb EXCEPT ![c] = r]
    BY <2>6, <2>7, Zenon
  <2>8. tlb' \in [Cpus -> [Pmaps -> Pte \cup {NoPte}]] /\ \A d \in Cpus \ {c} : tlb'[d] = tlb[d]
    BY <1>t, <2>9, Zenon
  <2> QED
    BY <1>11, <1>t, <2>8, Zenon DEF write_end
<1>12. CASE lock_read(c)
  BY <1>12, <1>t, Zenon DEF lock_read
<1>13. CASE want_write(c)
  BY <1>13, <1>t, Zenon DEF want_write
<1>14. CASE lock_write(c)
  BY <1>14, <1>t, Zenon DEF lock_write
<1>15. CASE lock_write_done(c)
  BY <1>15, <1>t, Zenon DEF lock_write_done
<1>16. CASE simple_lock(c)
  BY <1>16, <1>t, OpType, Zenon DEF simple_lock
<1>17. CASE simple_unlock(c)
  BY <1>17, <1>t, Zenon DEF simple_unlock
<1>18. CASE signal_check(c)
  BY <1>18, <1>t, Zenon DEF signal_check
<1>19. CASE signal_interrupt(c)
  BY <1>19, <1>t, Zenon DEF signal_interrupt
<1>20. CASE update_wait(c)
  <2>1. tlb' = tlb \/ tlb' = [tlb EXCEPT ![c] = EmptyTlb]
    BY <1>20, Zenon DEF update_wait, flush_tlb
  <2>2. tlb' \in [Cpus -> [Pmaps -> Pte \cup {NoPte}]] /\ \A d \in Cpus \ {c} : tlb'[d] = tlb[d]
    BY <1>t, <2>1, EmptyTlbType, Zenon
  <2> QED
    BY <1>20, <1>t, <2>2, Zenon DEF update_wait
<1>21. CASE change_wired(c)
  BY <1>21, <1>t, Zenon DEF change_wired
<1>22. CASE pmap_update_interrupt(c)
  BY <1>22, <1>t, Zenon DEF pmap_update_interrupt, Interrupted
<1>23. CASE idle_interrupt(c)
  BY <1>23, <1>t, Zenon DEF idle_interrupt
<1>24. CASE process_updates(c)
  BY <1>24, <1>t, EmptyTlbType, Zenon DEF process_updates, process_pmap_updates, flush_tlb
<1>25. CASE switch_to_kernel(c)
  BY <1>25, <1>t, EmptyTlbType, Zenon DEF switch_to_kernel, set_dirbase, flush_tlb
<1>26. CASE PMAP_ACTIVATE_USER(c)
  BY <1>26, <1>t, EmptyTlbType, OpType, Zenon DEF PMAP_ACTIVATE_USER, set_dirbase, flush_tlb
<1>27. CASE user_activated(c)
  BY <1>27, <1>t, Zenon DEF user_activated
<1>28. CASE PMAP_ACTIVATE_KERNEL(c)
  BY <1>28, <1>t, EmptyTlbType, Zenon DEF PMAP_ACTIVATE_KERNEL, process_pmap_updates, flush_tlb
<1> QED
  BY <1>1, <1>2, <1>3, <1>4, <1>5, <1>6, <1>7, <1>8, <1>9, <1>10, <1>11, <1>12, <1>13, <1>14,
     <1>15, <1>16, <1>17, <1>18, <1>19, <1>20, <1>21, <1>22, <1>23, <1>24, <1>25, <1>26, <1>27,
     <1>28, Zenon DEF Steps

\* A step of c leaves the others in the sets they are in, and sets no flag back.
SetFrame(c) ==
    /\ cpus_using' \in [Pmaps -> SUBSET Cpus]
    /\ \A d \in Cpus \ {c} :
          /\ d \in cpus_active' <=> d \in cpus_active
          /\ d \in cpus_idle' <=> d \in cpus_idle
          /\ \A p \in Pmaps : d \in cpus_using'[p] <=> d \in cpus_using[p]
    /\ early => early'
    /\ unsignalled => unsignalled'

\* Every step of c has the frame SetFrame.
LEMMA StepSets ==
    ASSUME Types, LockHeld, SystemLock, ClearsItsPage, Writing, NEW c \in Cpus, Steps(c)
    PROVE  SetFrame(c)
<1> USE DEF SetFrame, maps, locks, sets, requests, history
<1>t. cpus_using \in [Pmaps -> SUBSET Cpus] /\ kernel_pmap \in Pmaps /\ dirbase \in [Cpus -> Pmaps]
  BY PmapAssumption, Zenon DEF Types
<1>1. CASE Enters(c)
  <2>1. cpus_active' = cpus_active \ {c} /\ UNCHANGED <<cpus_using, cpus_idle, early, unsignalled>>
    BY <1>1, Zenon DEF Enters, Call
  <2> QED
    BY <1>t, <2>1, Zenon
<1>2. CASE Moves(c)
  BY <1>2, MovesStand, <1>t, Zenon DEF Stands
<1>3. CASE Changes(c)
  BY <1>3, ChangesEdit, <1>t, Zenon DEF Edits
<1>4. ASSUME NEW p \in Pmaps, tlb_load(c, p) PROVE SetFrame(c)
  BY <1>4, <1>t, Zenon DEF tlb_load
<1>5. ASSUME NEW p \in Pmaps, write_start(c, p) PROVE SetFrame(c)
  BY <1>5, <1>t, Zenon DEF write_start
<1>6. ASSUME NEW p \in Pmaps, switch_context(c, p) PROVE SetFrame(c)
  BY <1>6, <1>t, Zenon DEF switch_context
<1>7. ASSUME NEW p \in Pmaps, next_mapping(c, p) PROVE SetFrame(c)
  BY <1>7, <1>t, Zenon DEF next_mapping
<1>8. ASSUME NEW p \in Pmaps, launched(c, p) PROVE SetFrame(c)
  BY <1>8, <1>t, Zenon DEF launched
<1>9. ASSUME NEW d \in Cpus, signal_queue(c, d) PROVE SetFrame(c)
  BY <1>9, <1>t, Zenon DEF signal_queue
<1>10. CASE PMAP_DEACTIVATE_KERNEL(c)
  BY <1>10, <1>t, Zenon DEF PMAP_DEACTIVATE_KERNEL
<1>11. CASE write_end(c)
  BY <1>11, <1>t, Zenon DEF write_end
<1>12. CASE lock_read(c)
  BY <1>12, <1>t, Zenon DEF lock_read
<1>13. CASE want_write(c)
  BY <1>13, <1>t, Zenon DEF want_write
<1>14. CASE lock_write(c)
  BY <1>14, <1>t, Zenon DEF lock_write
<1>15. CASE lock_write_done(c)
  BY <1>15, <1>t, Zenon DEF lock_write_done
<1>16. CASE simple_lock(c)
  BY <1>16, <1>t, Zenon DEF simple_lock
<1>17. CASE simple_unlock(c)
  BY <1>17, <1>t, Zenon DEF simple_unlock
<1>18. CASE signal_check(c)
  BY <1>18, <1>t, Zenon DEF signal_check
<1>19. CASE signal_interrupt(c)
  BY <1>19, <1>t, Zenon DEF signal_interrupt
<1>20. CASE update_wait(c)
  BY <1>20, <1>t, Zenon DEF update_wait, flush_tlb
<1>21. CASE change_wired(c)
  BY <1>21, <1>t, Zenon DEF change_wired
<1>22. CASE pmap_update_interrupt(c)
  BY <1>22, <1>t, Zenon DEF pmap_update_interrupt, Interrupted
<1>23. CASE idle_interrupt(c)
  BY <1>23, <1>t, Zenon DEF idle_interrupt
<1>24. CASE process_updates(c)
  BY <1>24, <1>t, Zenon DEF process_updates, process_pmap_updates, flush_tlb
<1>25. CASE switch_to_kernel(c)
  BY <1>25, <1>t, Zenon DEF switch_to_kernel, set_dirbase, flush_tlb
<1>26. CASE PMAP_ACTIVATE_USER(c)
  BY <1>26, <1>t, OpType, Zenon DEF PMAP_ACTIVATE_USER, set_dirbase, flush_tlb
<1>27. CASE user_activated(c)
  BY <1>27, <1>t, Zenon DEF user_activated
<1>28. CASE PMAP_ACTIVATE_KERNEL(c)
  BY <1>28, <1>t, Zenon DEF PMAP_ACTIVATE_KERNEL, process_pmap_updates, flush_tlb
<1> QED
  BY <1>1, <1>2, <1>3, <1>4, <1>5, <1>6, <1>7, <1>8, <1>9, <1>10, <1>11, <1>12, <1>13, <1>14,
     <1>15, <1>16, <1>17, <1>18, <1>19, <1>20, <1>21, <1>22, <1>23, <1>24, <1>25, <1>26, <1>27,
     <1>28, Zenon DEF Steps

\* A step of c leaves the locks of the others to them.
LockFrame(c) ==
    /\ lock' \in [Pmaps -> Cpus \cup {None}]
    /\ \A d \in Cpus \ {c}, p \in Pmaps : lock[p] = d <=> lock'[p] = d

\* Every step of c has the frame LockFrame: it neither takes nor frees a pmap's
\* lock that another holds.
LEMMA StepLock ==
    ASSUME Types, LockHeld, SystemLock, ClearsItsPage, Writing, NEW c \in Cpus, Steps(c)
    PROVE  LockFrame(c)
<1> USE DEF LockFrame, maps, locks, sets, requests, history
<1>t. lock \in [Pmaps -> Cpus \cup {None}] /\ kernel_pmap \in Pmaps /\ None \notin Cpus
  BY PmapAssumption, Zenon DEF Types
<1>1. CASE Enters(c)
  BY <1>1, <1>t, Zenon DEF Enters, Call
<1>2. CASE Moves(c)
  BY <1>2, MovesStand, <1>t, Zenon DEF Stands
<1>3. CASE Changes(c)
  BY <1>3, ChangesEdit, <1>t, Zenon DEF Edits
<1>4. ASSUME NEW p \in Pmaps, tlb_load(c, p) PROVE LockFrame(c)
  BY <1>4, <1>t, Zenon DEF tlb_load
<1>5. ASSUME NEW p \in Pmaps, write_start(c, p) PROVE LockFrame(c)
  BY <1>5, <1>t, Zenon DEF write_start
<1>6. ASSUME NEW p \in Pmaps, switch_context(c, p) PROVE LockFrame(c)
  BY <1>6, <1>t, Zenon DEF switch_context
<1>7. ASSUME NEW p \in Pmaps, next_mapping(c, p) PROVE LockFrame(c)
  BY <1>7, <1>t, Zenon DEF next_mapping
<1>8. ASSUME NEW p \in Pmaps, launched(c, p) PROVE LockFrame(c)
  <2>1. lock[kernel_pmap] = c
    BY <1>8, Zenon DEF launched, Move, LockHeld, LockAt
  <2> QED
    BY <1>8, <1>t, <2>1, Zenon DEF launched
<1>9. ASSUME NEW d \in Cpus, signal_queue(c, d) PROVE LockFrame(c)
  BY <1>9, <1>t, Zenon DEF signal_queue
<1>10. CASE PMAP_DEACTIVATE_KERNEL(c)
  BY <1>10, <1>t, Zenon DEF PMAP_DEACTIVATE_KERNEL
<1>11. CASE write_end(c)
  BY <1>11, <1>t, Zenon DEF write_end
<1>12. CASE lock_read(c)
  BY <1>12, <1>t, Zenon DEF lock_read
<1>13. CASE want_write(c)
  BY <1>13, <1>t, Zenon DEF want_write
<1>14. CASE lock_write(c)
  BY <1>14, <1>t, Zenon DEF lock_write
<1>15. CASE lock_write_done(c)
  BY <1>15, <1>t, Zenon DEF lock_write_done
<1>16. CASE simple_lock(c)
  BY <1>16, <1>t, OpType, Zenon DEF simple_lock
<1>17. CASE simple_unlock(c)
  <2>1. op[c].pmap \in Pmaps /\ lock[op[c].pmap] = c
    BY <1>17, OpType, Zenon DEF simple_unlock, Move, LockHeld, LockAt, Holding
  <2> QED
    BY <1>17, <1>t, <2>1, Zenon DEF simple_unlock
<1>18. CASE signal_check(c)
  BY <1>18, <1>t, Zenon DEF signal_check
<1>19. CASE signal_interrupt(c)
  BY <1>19, <1>t, Zenon DEF signal_interrupt
<1>20. CASE update_wait(c)
  BY <1>20, <1>t, Zenon DEF update_wait, flush_tlb
<1>21. CASE change_wired(c)
  BY <1>21, <1>t, Zenon DEF change_wired
<1>22. CASE pmap_update_interrupt(c)
  BY <1>22, <1>t, Zenon DEF pmap_update_interrupt, Interrupted
<1>23. CASE idle_interrupt(c)
  BY <1>23, <1>t, Zenon DEF idle_interrupt
<1>24. CASE process_updates(c)
  BY <1>24, <1>t, Zenon DEF process_updates, process_pmap_updates, flush_tlb
<1>25. CASE switch_to_kernel(c)
  BY <1>25, <1>t, Zenon DEF switch_to_kernel, set_dirbase, flush_tlb
<1>26. CASE PMAP_ACTIVATE_USER(c)
  BY <1>26, <1>t, OpType, Zenon DEF PMAP_ACTIVATE_USER, set_dirbase, flush_tlb
<1>27. CASE user_activated(c)
  <2>1. op[c].pmap \in Pmaps /\ lock[op[c].pmap] = c
    BY <1>27, OpType, Zenon DEF user_activated, Move, LockHeld, LockAt, Holding
  <2> QED
    BY <1>27, <1>t, <2>1, Zenon DEF user_activated
<1>28. CASE PMAP_ACTIVATE_KERNEL(c)
  BY <1>28, <1>t, Zenon DEF PMAP_ACTIVATE_KERNEL, process_pmap_updates, flush_tlb
<1> QED
  BY <1>1, <1>2, <1>3, <1>4, <1>5, <1>6, <1>7, <1>8, <1>9, <1>10, <1>11, <1>12, <1>13, <1>14,
     <1>15, <1>16, <1>17, <1>18, <1>19, <1>20, <1>21, <1>22, <1>23, <1>24, <1>25, <1>26, <1>27,
     <1>28, Zenon DEF Steps

\* A step of c takes no request of another's, and no interrupt.
ListFrame(c) ==
    /\ update_list' \in [Cpus -> Seq(Pmaps)]
    /\ \A d \in Cpus \ {c} :
          /\ d \in interrupt => d \in interrupt'
          /\ \A p \in Pmaps : Requested(d, p) => Requested(d, p)'

\* Every step of c has the frame ListFrame.
LEMMA StepLists ==
    ASSUME Types, LockHeld, SystemLock, ClearsItsPage, Writing, NEW c \in Cpus, Steps(c)
    PROVE  ListFrame(c)
<1> USE DEF ListFrame, maps, locks, sets, requests, history
<1>t. update_list \in [Cpus -> Seq(Pmaps)] /\ <<>> \in Seq(Pmaps)
  BY SMTT(30) DEF Types
<1>s. update_list' = update_list /\ (interrupt' = interrupt \/ interrupt' = interrupt \ {c}) => ListFrame(c)
  BY <1>t, Zenon DEF Requested
<1>e. update_list' = [update_list EXCEPT ![c] = <<>>] /\ interrupt' = interrupt => ListFrame(c)
  BY <1>t, Zenon DEF Requested
<1>1. CASE Enters(c)
  BY <1>1, <1>s, Zenon DEF Enters, Call
<1>2. CASE Moves(c)
  BY <1>2, MovesStand, <1>s, Zenon DEF Stands
<1>3. CASE Changes(c)
  BY <1>3, ChangesEdit, <1>s, Zenon DEF Edits
<1>4. ASSUME NEW p \in Pmaps, tlb_load(c, p) PROVE ListFrame(c)
  BY <1>4, <1>s, Zenon DEF tlb_load
<1>5. ASSUME NEW p \in Pmaps, write_start(c, p) PROVE ListFrame(c)
  BY <1>5, <1>s, Zenon DEF write_start
<1>6. ASSUME NEW p \in Pmaps, switch_context(c, p) PROVE ListFrame(c)
  BY <1>6, <1>s, Zenon DEF switch_context
<1>7. ASSUME NEW p \in Pmaps, next_mapping(c, p) PROVE ListFrame(c)
  BY <1>7, <1>s, Zenon DEF next_mapping
<1>8. ASSUME NEW p \in Pmaps, launched(c, p) PROVE ListFrame(c)
  BY <1>8, <1>s, Zenon DEF launched
<1>9. ASSUME NEW d \in Cpus, signal_queue(c, d) PROVE ListFrame(c)
  <2>1. PICK l : l = Queue(update_list[d], op[c].pmap)
    OBVIOUS
  <2>2. op[c].pmap \in Pmaps /\ update_list[d] \in Seq(Pmaps)
    BY <1>t, OpType, Zenon
  <2>3. l \in Seq(Pmaps)
    BY <2>1, <2>2, Queued, Zenon
  <2>4. \A q \in Pmaps : (\E i \in DOMAIN update_list[d] : update_list[d][i] \in {q, kernel_pmap})
            => \E i \in DOMAIN l : l[i] \in {q, kernel_pmap}
    BY <2>1, <2>2, Queued, Zenon
  <2>5. update_list' = [update_list EXCEPT ![d] = l] /\ interrupt' = interrupt
    BY <1>9, <2>1, Zenon DEF signal_queue
  <2>6. ASSUME NEW e \in Cpus, NEW p \in Pmaps, Requested(e, p) PROVE Requested(e, p)'
    <3>1. CASE e = d
      BY <1>t, <2>4, <2>5, <2>6, <3>1, Zenon DEF Requested
    <3>2. CASE e # d
      BY <1>t, <2>5, <2>6, <3>2, Zenon DEF Requested
    <3> QED
      BY <3>1, <3>2, Zenon
  <2> QED
    BY <1>t, <2>3, <2>5, <2>6, Zenon
<1>10. CASE PMAP_DEACTIVATE_KERNEL(c)
  BY <1>10, <1>s, Zenon DEF PMAP_DEACTIVATE_KERNEL
<1>11. CASE write_end(c)
  BY <1>11, <1>s, Zenon DEF write_end
<1>12. CASE lock_read(c)
  BY <1>12, <1>s, Zenon DEF lock_read
<1>13. CASE want_write(c)
  BY <1>13, <1>s, Zenon DEF want_write
<1>14. CASE lock_write(c)
  BY <1>14, <1>s, Zenon DEF lock_write
<1>15. CASE lock_write_done(c)
  BY <1>15, <1>s, Zenon DEF lock_write_done
<1>16. CASE simple_lock(c)
  BY <1>16, <1>s, Zenon DEF simple_lock
<1>17. CASE simple_unlock(c)
  BY <1>17, <1>s, Zenon DEF simple_unlock
<1>18. CASE signal_check(c)
  BY <1>18, <1>s, Zenon DEF signal_check
<1>19. CASE signal_interrupt(c)
  BY <1>19, <1>t, Zenon DEF signal_interrupt, Requested
<1>20. CASE update_wait(c)
  BY <1>20, <1>s, Zenon DEF update_wait, flush_tlb
<1>21. CASE change_wired(c)
  BY <1>21, <1>s, Zenon DEF change_wired
<1>22. CASE pmap_update_interrupt(c)
  BY <1>22, <1>s, Zenon DEF pmap_update_interrupt, Interrupted
<1>23. CASE idle_interrupt(c)
  BY <1>23, <1>s, Zenon DEF idle_interrupt
<1>24. CASE process_updates(c)
  BY <1>24, <1>e, Zenon DEF process_updates, process_pmap_updates, flush_tlb
<1>25. CASE switch_to_kernel(c)
  BY <1>25, <1>s, Zenon DEF switch_to_kernel, set_dirbase, flush_tlb
<1>26. CASE PMAP_ACTIVATE_USER(c)
  BY <1>26, <1>s, Zenon DEF PMAP_ACTIVATE_USER, set_dirbase, flush_tlb
<1>27. CASE user_activated(c)
  BY <1>27, <1>s, Zenon DEF user_activated
<1>28. CASE PMAP_ACTIVATE_KERNEL(c)
  BY <1>28, <1>e, Zenon DEF PMAP_ACTIVATE_KERNEL, process_pmap_updates, flush_tlb
<1> QED
  BY <1>1, <1>2, <1>3, <1>4, <1>5, <1>6, <1>7, <1>8, <1>9, <1>10, <1>11, <1>12, <1>13, <1>14,
     <1>15, <1>16, <1>17, <1>18, <1>19, <1>20, <1>21, <1>22, <1>23, <1>24, <1>25, <1>26, <1>27,
     <1>28, Zenon DEF Steps

\* A step of c changes at most the entry it works on, or the one it writes through.
Rewrites(c) == pc[c] \in {"change", "rewrite"} /\ \A q \in Pmaps \ {op[c].pmap} : pte'[q] = pte[q]
Marks(c) ==
    /\ pc[c] = "write" /\ Mapped(op[c].target)
    /\ pte' = [pte EXCEPT ![op[c].target] = [pte[op[c].target] EXCEPT !.mod = TRUE]]
PteFrame(c) ==
    /\ pte' \in [Pmaps -> Pte \cup {NoPte}]
    /\ pte' = pte \/ Rewrites(c) \/ Marks(c)

\* Every step of c has the frame PteFrame.
LEMMA StepPte ==
    ASSUME Types, LockHeld, SystemLock, ClearsItsPage, Writing, NEW c \in Cpus, Steps(c)
    PROVE  PteFrame(c)
<1> USE DEF PteFrame, maps, locks, sets, requests, history
<1>t. pte \in [Pmaps -> Pte \cup {NoPte}]
  BY Zenon DEF Types
<1>1. CASE Enters(c)
  BY <1>1, <1>t, Zenon DEF Enters, Call
<1>2. CASE Moves(c)
  BY <1>2, MovesStand, <1>t, Zenon DEF Stands
<1>3. CASE Changes(c)
  <2>1. PICK e \in Pte \cup {NoPte} : pte' = [pte EXCEPT ![op[c].pmap] = e]
    BY <1>3, ChangesEdit, Zenon DEF Edits
  <2>2. pc[c] = "change"
    BY <1>3, ChangesEdit, Zenon DEF Edits
  <2> QED
    BY <1>t, <2>1, <2>2, OpType, Zenon DEF Rewrites
<1>4. ASSUME NEW p \in Pmaps, tlb_load(c, p) PROVE PteFrame(c)
  BY <1>4, <1>t, Zenon DEF tlb_load
<1>5. ASSUME NEW p \in Pmaps, write_start(c, p) PROVE PteFrame(c)
  BY <1>5, <1>t, Zenon DEF write_start
<1>6. ASSUME NEW p \in Pmaps, switch_context(c, p) PROVE PteFrame(c)
  BY <1>6, <1>t, Zenon DEF switch_context
<1>7. ASSUME NEW p \in Pmaps, next_mapping(c, p) PROVE PteFrame(c)
  BY <1>7, <1>t, Zenon DEF next_mapping
<1>8. ASSUME NEW p \in Pmaps, launched(c, p) PROVE PteFrame(c)
  BY <1>8, <1>t, Zenon DEF launched
<1>9. ASSUME NEW d \in Cpus, signal_queue(c, d) PROVE PteFrame(c)
  BY <1>9, <1>t, Zenon DEF signal_queue
<1>10. CASE PMAP_DEACTIVATE_KERNEL(c)
  BY <1>10, <1>t, Zenon DEF PMAP_DEACTIVATE_KERNEL
<1>11. CASE write_end(c)
  <2>p. PICK p : p = op[c].target
    OBVIOUS
  <2>1. pc[c] = "write" /\ p \in Pmaps
    BY <1>11, <2>p, Zenon DEF write_end, Move, Writing, WritesAt
  <2>2. CASE pte' = pte
    BY <1>t, <2>2, Zenon
  <2>3. CASE Mapped(p) /\ pte' # pte
    <3>1. pte[p] \in Pte
      BY <1>t, <2>1, <2>3, Zenon DEF Mapped
    <3>2. [pte[p] EXCEPT !.mod = TRUE] \in Pte
      BY <3>1, PteFields, TRUE \in BOOLEAN, Zenon
    <3>3. pte' = [pte EXCEPT ![p] = [pte[p] EXCEPT !.mod = TRUE]]
      BY <1>11, <1>t, <2>p, <2>3, Zenon DEF write_end
    <3>4. PICK e \in Pte : e = [pte[p] EXCEPT !.mod = TRUE]
      BY <3>2, Zenon
    <3>5. pte' = [pte EXCEPT ![p] = e]
      BY <3>3, <3>4, Zenon
    <3>6. pte' \in [Pmaps -> Pte \cup {NoPte}]
      BY <1>t, <3>5, Zenon
    <3> QED
      BY <2>p, <2>1, <2>3, <3>3, <3>6, Zenon DEF Marks
  <2> QED
    BY <1>11, <2>p, <2>2, <2>3, Zenon DEF write_end
<1>12. CASE lock_read(c)
  BY <1>12, <1>t, Zenon DEF lock_read
<1>13. CASE want_write(c)
  BY <1>13, <1>t, Zenon DEF want_write
<1>14. CASE lock_write(c)
  BY <1>14, <1>t, Zenon DEF lock_write
<1>15. CASE lock_write_done(c)
  BY <1>15, <1>t, Zenon DEF lock_write_done
<1>16. CASE simple_lock(c)
  BY <1>16, <1>t, Zenon DEF simple_lock
<1>17. CASE simple_unlock(c)
  BY <1>17, <1>t, Zenon DEF simple_unlock
<1>18. CASE signal_check(c)
  BY <1>18, <1>t, Zenon DEF signal_check
<1>19. CASE signal_interrupt(c)
  BY <1>19, <1>t, Zenon DEF signal_interrupt
<1>20. CASE update_wait(c)
  BY <1>20, <1>t, Zenon DEF update_wait, flush_tlb
<1>21. CASE change_wired(c)
  <2>1. op[c].old \in Pte \cup {NoPte} /\ op[c].pmap \in Pmaps
    <3>1. op[c] \in Operations
      BY Zenon DEF Types
    <3> QED
      BY <3>1, SMTT(30) DEF Operations
  <2>2. pte' = [pte EXCEPT ![op[c].pmap] = op[c].old] /\ pc[c] = "rewrite"
    BY <1>21, Zenon DEF change_wired, Move
  <2> QED
    BY <1>t, <2>1, <2>2, Zenon DEF Rewrites
<1>22. CASE pmap_update_interrupt(c)
  BY <1>22, <1>t, Zenon DEF pmap_update_interrupt, Interrupted
<1>23. CASE idle_interrupt(c)
  BY <1>23, <1>t, Zenon DEF idle_interrupt
<1>24. CASE process_updates(c)
  BY <1>24, <1>t, Zenon DEF process_updates, process_pmap_updates, flush_tlb
<1>25. CASE switch_to_kernel(c)
  BY <1>25, <1>t, Zenon DEF switch_to_kernel, set_dirbase, flush_tlb
<1>26. CASE PMAP_ACTIVATE_USER(c)
  BY <1>26, <1>t, Zenon DEF PMAP_ACTIVATE_USER, set_dirbase, flush_tlb
<1>27. CASE user_activated(c)
  BY <1>27, <1>t, Zenon DEF user_activated
<1>28. CASE PMAP_ACTIVATE_KERNEL(c)
  BY <1>28, <1>t, Zenon DEF PMAP_ACTIVATE_KERNEL, process_pmap_updates, flush_tlb
<1> QED
  BY <1>1, <1>2, <1>3, <1>4, <1>5, <1>6, <1>7, <1>8, <1>9, <1>10, <1>11, <1>12, <1>13, <1>14,
     <1>15, <1>16, <1>17, <1>18, <1>19, <1>20, <1>21, <1>22, <1>23, <1>24, <1>25, <1>26, <1>27,
     <1>28, Zenon DEF Steps

\* Type correctness is kept by every step.
LEMMA TypesKept ==
    ASSUME Types, LockHeld, SystemLock, ClearsItsPage, Writing, NEW c \in Cpus, Steps(c)
    PROVE  Types'
  BY StepPc, StepOp, StepHome, StepSets, StepLock, StepLists, StepPte, Zenon
     DEF PcFrame, OpFrame, HomeFrame, SetFrame, LockFrame, ListFrame, PteFrame, Types

\* The steps that keep to the operation they are in.
SameJob(n, o) ==
    /\ n.page = o.page /\ n.pmap = o.pmap /\ n.todo = o.todo
    /\ n.fn = o.fn \/ (n.fn \in Collects /\ o.fn \in Collects)
Starts(c) == pc[c] \in {"run", "drain", "walk", "unlock", "launched", "switch", "used"}
Kept(c) == Starts(c) \/ SameJob(op'[c], op[c])

\* A step of c keeps to its operation, unless it is at a point where one starts
\* or ends.
LEMMA StepJob ==
    ASSUME Types, LockHeld, SystemLock, ClearsItsPage, Writing, NEW c \in Cpus, Steps(c)
    PROVE  Kept(c)
<1> USE DEF Kept, maps, locks, sets, requests, history
<1>t. op[c] \in Operations /\ None \in Cpus \cup Pmaps \cup {None} /\ NoPte \in Pte \cup {NoPte}
  BY Zenon DEF Types
<1>s. SameJob(op[c], op[c])
  BY Zenon DEF SameJob
<1>1. CASE Enters(c) \/ lock_write(c) \/ lock_write_done(c) \/ simple_unlock(c)
  BY <1>1, Zenon DEF Enters, Call, lock_write, lock_write_done, simple_unlock, Starts, Move
<1>16. ASSUME NEW p \in Pmaps, switch_context(c, p) \/ next_mapping(c, p) \/ launched(c, p) PROVE Kept(c)
  BY <1>16, Zenon DEF switch_context, next_mapping, launched, Starts, Move
<1>17. CASE switch_to_kernel(c) \/ user_activated(c)
  BY <1>17, Zenon DEF switch_to_kernel, user_activated, Starts, Move
<1>2. CASE op' = op
  BY <1>2, <1>s, Zenon
<1>3. CASE Changes(c)
  BY <1>3, ChangesEdit, Zenon DEF Edits, SameOp, SameJob
<1>4. ASSUME NEW x \in Cpus \cup Pmaps \cup {None}, op' = [op EXCEPT ![c].target = x] PROVE Kept(c)
  BY <1>4, NewTarget, Zenon DEF SameJob, SameCall
<1>5. ASSUME NEW x \in Pte \cup {NoPte}, op' = [op EXCEPT ![c].old = x] PROVE Kept(c)
  BY <1>5, NewOld, Zenon DEF SameJob, SameCall
<1>6. CASE simple_lock(c)
  <2>1. PICK x : x = IF op[c].fn = "change_wiring" THEN pte[op[c].pmap] ELSE NoPte
    OBVIOUS
  <2>2. x \in Pte \cup {NoPte} /\ op' = [op EXCEPT ![c].old = x]
    BY <1>6, <2>1, OpType, Zenon DEF simple_lock, Types
  <2> QED
    BY <1>5, <2>2, Zenon
<1>7. CASE signal_check(c)
  <2>1. PICK x : x = IF op[c].target \in cpus_idle THEN None ELSE op[c].target
    OBVIOUS
  <2>2. op[c].target \in Cpus \cup Pmaps \cup {None}
    BY <1>t, SMTT(30) DEF Operations
  <2>3. x \in Cpus \cup Pmaps \cup {None} /\ op' = [op EXCEPT ![c].target = x]
    BY <1>7, <1>t, <2>1, <2>2, Zenon DEF signal_check, Types
  <2> QED
    BY <1>4, <2>3, Zenon
<1>8. CASE write_end(c) \/ signal_interrupt(c)
  BY <1>8, <1>t, <1>4, Zenon DEF write_end, signal_interrupt
<1>9. ASSUME NEW p \in Pmaps, write_start(c, p) PROVE Kept(c)
  BY <1>9, <1>4, Zenon DEF write_start
<1>10. ASSUME NEW d \in Cpus, signal_queue(c, d) PROVE Kept(c)
  BY <1>10, <1>4, Zenon DEF signal_queue
<1>11. CASE change_wired(c)
  BY <1>11, <1>t, <1>5, Zenon DEF change_wired
<1>12. CASE Moves(c)
  BY <1>12, <1>2, MovesStand, Zenon DEF Stands
<1>13. CASE PMAP_DEACTIVATE_KERNEL(c) \/ lock_read(c) \/ want_write(c) \/ update_wait(c) \/ pmap_update_interrupt(c)
            \/ idle_interrupt(c)
  BY <1>13, <1>2, Zenon DEF PMAP_DEACTIVATE_KERNEL, lock_read, want_write, update_wait,
     pmap_update_interrupt,
        idle_interrupt
<1>14. CASE process_updates(c) \/ PMAP_ACTIVATE_USER(c) \/ PMAP_ACTIVATE_KERNEL(c)
  BY <1>14, <1>2, Zenon DEF process_updates, PMAP_ACTIVATE_USER, PMAP_ACTIVATE_KERNEL
<1>15. ASSUME NEW p \in Pmaps, tlb_load(c, p) PROVE Kept(c)
  BY <1>15, <1>2, Zenon DEF tlb_load
<1> QED
  BY <1>1, <1>3, <1>6, <1>7, <1>8, <1>9, <1>10, <1>11, <1>12, <1>13, <1>14, <1>15, <1>16,
     <1>17, Zenon
     DEF Steps

\* The steps of Moves keep clear of the operations.
Elsewhere == {"run", "splx", "spin_my", "spin_kernel", "process", "activate", "again", "switch",
              "use", "idling", "idle", "waking", "woken", "off", "launch"}

\* The moves start and end outside of every operation on a pmap.
LEMMA MovesAway ==
    ASSUME Types, NEW c \in Cpus, Moves(c) PROVE pc[c] \in Elsewhere /\ pc'[c] \in Elsewhere
<1>t. pc \in [Cpus -> Stages]
  BY Zenon DEF Types
<1>1. CASE MARK_CPU_IDLE(c) \/ MARK_CPU_ACTIVE(c) \/ launch(c) \/ SPLX(c)
  BY <1>t, <1>1, Zenon DEF MARK_CPU_IDLE, MARK_CPU_ACTIVE, launch, SPLX, Move, Goto, Elsewhere
<1>2. CASE spin_my(c) \/ spin_kernel(c) \/ set_active(c) \/ interrupt_return(c)
  BY <1>t, <1>2, Zenon DEF spin_my, spin_kernel, set_active, interrupt_return, Move, Goto, Elsewhere
<1>3. CASE update_again(c) \/ switch_to_user(c) \/ idle(c)
  BY <1>t, <1>3, Zenon DEF update_again, switch_to_user, idle, Interrupted, Move, Goto, Elsewhere
<1>4. CASE wake_update(c) \/ wake(c) \/ wake_active(c)
  BY <1>t, <1>4, Zenon DEF wake_update, wake, wake_active, Interrupted, Move, Goto, Elsewhere
<1> QED
  BY <1>1, <1>2, <1>3, <1>4, Zenon DEF Moves

\* Lock holders hold their locks.
LEMMA OwnLock ==
    ASSUME Types, LockHeld, SystemLock, ClearsItsPage, Writing, NEW c \in Cpus, Steps(c)
    PROVE  LockAt(c)'
<1> USE DEF Move, Goto
<1>t. /\ pc \in [Cpus -> Stages] /\ lock \in [Pmaps -> Cpus \cup {None}]
      /\ op[c].pmap \in Pmaps /\ kernel_pmap \in Pmaps
  BY OpType, PmapAssumption, Zenon DEF Types
<1>a. LockAt(c)
  BY Zenon DEF LockHeld
<1>o. pc'[c] \notin Holding /\ pc'[c] # "launched" => LockAt(c)'
  BY Zenon DEF LockAt
<1>k. Starts(c) \/ op'[c].pmap = op[c].pmap
  BY StepJob, Zenon DEF Kept, SameJob
<1>h. (/\ pc'[c] \in {"signal", "update", "send", "change", "unlock"} /\ pc[c] \in Holding
       /\ ~Starts(c) /\ lock' = lock) => LockAt(c)'
  BY <1>a, <1>k, Zenon DEF LockAt
<1>1. CASE Enters(c)
  BY <1>1, <1>t, <1>o, Zenon DEF Enters, Call, Begins, Holding
<1>2. CASE Moves(c)
  BY <1>2, <1>o, MovesAway, Zenon DEF Elsewhere, Holding
<1>3. CASE Changes(c)
  BY <1>3, <1>t, <1>h, ChangesEdit, Zenon DEF Edits, Holding, Starts
<1>4. ASSUME NEW p \in Pmaps, tlb_load(c, p) PROVE LockAt(c)'
  BY <1>4, <1>t, <1>o, Zenon DEF tlb_load, Holding
<1>5. ASSUME NEW p \in Pmaps, write_start(c, p) PROVE LockAt(c)'
  BY <1>5, <1>t, <1>o, Zenon DEF write_start, Holding
<1>6. ASSUME NEW p \in Pmaps, switch_context(c, p) PROVE LockAt(c)'
  BY <1>6, <1>t, <1>o, Zenon DEF switch_context, Holding
<1>7. ASSUME NEW p \in Pmaps, next_mapping(c, p) PROVE LockAt(c)'
  BY <1>7, <1>t, <1>o, Zenon DEF next_mapping, Holding
<1>8. ASSUME NEW p \in Pmaps, launched(c, p) PROVE LockAt(c)'
  BY <1>8, <1>t, <1>o, Zenon DEF launched, Holding
<1>9. ASSUME NEW d \in Cpus, signal_queue(c, d) PROVE LockAt(c)'
  BY <1>9, <1>t, <1>h, Zenon DEF signal_queue, locks, Holding, Starts
<1>10. CASE PMAP_DEACTIVATE_KERNEL(c)
  BY <1>10, <1>t, <1>o, Zenon DEF PMAP_DEACTIVATE_KERNEL, Holding
<1>11. CASE write_end(c)
  BY <1>11, <1>t, <1>o, Zenon DEF write_end, Holding
<1>12. CASE lock_read(c)
  BY <1>12, <1>t, <1>o, Zenon DEF lock_read, Holding
<1>13. CASE want_write(c)
  BY <1>13, <1>t, <1>o, Zenon DEF want_write, Holding
<1>14. CASE lock_write(c)
  BY <1>14, <1>t, <1>o, Zenon DEF lock_write, Holding
<1>15. CASE lock_write_done(c)
  BY <1>15, <1>t, <1>o, Zenon DEF lock_write_done, Holding
<1>16. CASE simple_lock(c)
  <2>1. lock'[op[c].pmap] = c /\ pc'[c] # "launched" /\ pc[c] = "lock"
    BY <1>16, <1>t, Zenon DEF simple_lock, AfterLock
  <2>2. ~Starts(c)
    BY <2>1, Zenon DEF Starts
  <2> QED
    BY <1>k, <2>1, <2>2, Zenon DEF LockAt
<1>17. CASE simple_unlock(c)
  BY <1>17, <1>t, <1>o, Zenon DEF simple_unlock, Holding
<1>18. CASE signal_check(c)
  BY <1>18, <1>t, <1>h, Zenon DEF signal_check, locks, Holding, Starts
<1>19. CASE signal_interrupt(c)
  BY <1>19, <1>t, <1>h, Zenon DEF signal_interrupt, locks, Holding, Starts
<1>20. CASE update_wait(c)
  BY <1>20, <1>t, <1>h, Zenon DEF update_wait, locks, Holding, Starts
<1>21. CASE change_wired(c)
  BY <1>21, <1>t, <1>h, Zenon DEF change_wired, locks, Holding, Starts
<1>22. CASE pmap_update_interrupt(c)
  BY <1>22, <1>t, <1>o, Zenon DEF pmap_update_interrupt, Interrupted, Holding
<1>23. CASE idle_interrupt(c)
  BY <1>23, <1>t, <1>o, Zenon DEF idle_interrupt, Holding
<1>24. CASE process_updates(c)
  BY <1>24, <1>t, <1>o, Zenon DEF process_updates, process_pmap_updates, flush_tlb, Holding
<1>25. CASE switch_to_kernel(c)
  BY <1>25, <1>t, <1>o, Zenon DEF switch_to_kernel, set_dirbase, flush_tlb, Holding
<1>26. CASE PMAP_ACTIVATE_USER(c)
  <2>1. lock'[op[c].pmap] = c /\ pc'[c] # "launched" /\ pc[c] = "use"
    BY <1>26, <1>t, Zenon DEF PMAP_ACTIVATE_USER
  <2>2. ~Starts(c)
    BY <2>1, Zenon DEF Starts
  <2> QED
    BY <1>k, <2>1, <2>2, Zenon DEF LockAt
<1>27. CASE user_activated(c)
  BY <1>27, <1>t, <1>o, Zenon DEF user_activated, Holding
<1>28. CASE PMAP_ACTIVATE_KERNEL(c)
  BY <1>28, <1>t, Zenon DEF PMAP_ACTIVATE_KERNEL, LockAt, Holding
<1> QED
  BY <1>1, <1>2, <1>3, <1>4, <1>5, <1>6, <1>7, <1>8, <1>9, <1>10, <1>11, <1>12, <1>13, <1>14,
     <1>15, <1>16, <1>17, <1>18, <1>19, <1>20, <1>21, <1>22, <1>23, <1>24, <1>25, <1>26, <1>27,
     <1>28, Zenon DEF Steps

\* Every step keeps the locks with their holders (simple_lock, simple_unlock).
LEMMA LockKept ==
    ASSUME Types, LockHeld, SystemLock, ClearsItsPage, Writing, NEW c \in Cpus, Steps(c)
    PROVE  LockHeld'
<1>1. ASSUME NEW d \in Cpus \ {c} PROVE LockAt(d)'
  <2>1. LockAt(d) /\ pc'[d] = pc[d] /\ op'[d] = op[d] /\ op[d].pmap \in Pmaps /\ kernel_pmap \in Pmaps
    BY StepPc, StepOp, OpType, PmapAssumption, Zenon DEF LockHeld, PcFrame, OpFrame
  <2>2. \A p \in Pmaps : lock[p] = d <=> lock'[p] = d
    BY StepLock, Zenon DEF LockFrame
  <2> QED
    BY <2>1, <2>2, Zenon DEF LockAt
<1> QED
  BY <1>1, OwnLock, Zenon DEF LockHeld

\* A processor that writes has the entry in its TLB.
LEMMA WritingKept ==
    ASSUME Types, LockHeld, SystemLock, ClearsItsPage, Writing, NEW c \in Cpus, Steps(c)
    PROVE  Writing'
<1>1. ASSUME NEW d \in Cpus \ {c} PROVE WritesAt(d)'
  <2>1. WritesAt(d) /\ pc'[d] = pc[d] /\ op'[d] = op[d] /\ tlb'[d] = tlb[d] /\ dirbase'[d] = dirbase[d]
    BY StepPc, StepOp, StepHome, Zenon DEF Writing, PcFrame, OpFrame, HomeFrame
  <2> QED
    BY <2>1, Zenon DEF WritesAt, InSpace
<1>2. WritesAt(c)'
  <2> USE DEF Move, Goto
  <2>t. pc \in [Cpus -> Stages] /\ op[c] \in Operations
    BY Zenon DEF Types
  <2>o. pc'[c] # "write" => WritesAt(c)'
    BY Zenon DEF WritesAt
  <2>1. CASE Enters(c)
    BY <2>1, <2>t, <2>o, Zenon DEF Enters, Call, Begins
  <2>2. CASE Moves(c)
    BY <2>2, <2>o, MovesAway, Zenon DEF Elsewhere
  <2>3. CASE Changes(c)
    BY <2>3, <2>t, <2>o, ChangesEdit, Zenon DEF Edits
  <2>4. ASSUME NEW p \in Pmaps, tlb_load(c, p) PROVE WritesAt(c)'
    BY <2>4, <2>t, <2>o, Zenon DEF tlb_load, maps
  <2>5. ASSUME NEW p \in Pmaps, write_start(c, p) PROVE WritesAt(c)'
    <3>1. op'[c].target = p
      BY <2>5, NewTarget, Zenon DEF write_start
    <3>2. tlb' = tlb /\ dirbase' = dirbase /\ InSpace(c, p) /\ tlb[c][p] # NoPte
      BY <2>5, Zenon DEF write_start
    <3> QED
      BY <3>1, <3>2, Zenon DEF WritesAt, InSpace
  <2>6. ASSUME NEW p \in Pmaps, switch_context(c, p) PROVE WritesAt(c)'
    BY <2>6, <2>t, <2>o, Zenon DEF switch_context
  <2>7. ASSUME NEW p \in Pmaps, next_mapping(c, p) PROVE WritesAt(c)'
    BY <2>7, <2>t, <2>o, Zenon DEF next_mapping
  <2>8. ASSUME NEW p \in Pmaps, launched(c, p) PROVE WritesAt(c)'
    BY <2>8, <2>t, <2>o, Zenon DEF launched
  <2>9. ASSUME NEW d \in Cpus, signal_queue(c, d) PROVE WritesAt(c)'
    BY <2>9, <2>t, <2>o, Zenon DEF signal_queue
  <2>10. CASE PMAP_DEACTIVATE_KERNEL(c)
    BY <2>10, <2>t, <2>o, Zenon DEF PMAP_DEACTIVATE_KERNEL
  <2>11. CASE write_end(c)
    BY <2>11, <2>t, <2>o, Zenon DEF write_end
  <2>12. CASE lock_read(c)
    BY <2>12, <2>t, <2>o, Zenon DEF lock_read
  <2>13. CASE want_write(c)
    BY <2>13, <2>t, <2>o, Zenon DEF want_write
  <2>14. CASE lock_write(c)
    BY <2>14, <2>t, <2>o, Zenon DEF lock_write
  <2>15. CASE lock_write_done(c)
    BY <2>15, <2>t, <2>o, Zenon DEF lock_write_done
  <2>16. CASE simple_lock(c)
    BY <2>16, <2>t, <2>o, Zenon DEF simple_lock, AfterLock
  <2>17. CASE simple_unlock(c)
    BY <2>17, <2>t, <2>o, Zenon DEF simple_unlock
  <2>18. CASE signal_check(c)
    BY <2>18, <2>t, <2>o, Zenon DEF signal_check
  <2>19. CASE signal_interrupt(c)
    BY <2>19, <2>t, <2>o, Zenon DEF signal_interrupt
  <2>20. CASE update_wait(c)
    BY <2>20, <2>t, <2>o, Zenon DEF update_wait, flush_tlb
  <2>21. CASE change_wired(c)
    BY <2>21, <2>t, <2>o, Zenon DEF change_wired
  <2>22. CASE pmap_update_interrupt(c)
    BY <2>22, <2>t, <2>o, Zenon DEF pmap_update_interrupt, Interrupted
  <2>23. CASE idle_interrupt(c)
    BY <2>23, <2>t, <2>o, Zenon DEF idle_interrupt
  <2>24. CASE process_updates(c)
    BY <2>24, <2>t, <2>o, Zenon DEF process_updates, process_pmap_updates, flush_tlb
  <2>25. CASE switch_to_kernel(c)
    BY <2>25, <2>t, <2>o, Zenon DEF switch_to_kernel, set_dirbase, flush_tlb
  <2>26. CASE PMAP_ACTIVATE_USER(c)
    BY <2>26, <2>t, <2>o, Zenon DEF PMAP_ACTIVATE_USER, set_dirbase, flush_tlb
  <2>27. CASE user_activated(c)
    BY <2>27, <2>t, <2>o, Zenon DEF user_activated
  <2>28. CASE PMAP_ACTIVATE_KERNEL(c)
    BY <2>28, <2>t, <2>o, Zenon DEF PMAP_ACTIVATE_KERNEL, process_pmap_updates, flush_tlb
  <2> QED
    BY <2>1, <2>2, <2>3, <2>4, <2>5, <2>6, <2>7, <2>8, <2>9, <2>10, <2>11, <2>12, <2>13, <2>14,
       <2>15, <2>16, <2>17, <2>18, <2>19, <2>20, <2>21, <2>22, <2>23, <2>24, <2>25, <2>26,
       <2>27, <2>28, Zenon DEF Steps
<1> QED
  BY <1>1, <1>2, Zenon DEF Writing

\* cpus_active, cpus_idle and cpus_using follow the processors.
LEMMA OwnSets ==
    ASSUME Types, LockHeld, SystemLock, ClearsItsPage, Writing, SetsMatch, NEW c \in Cpus,
           Steps(c)
    PROVE  SetsAt(c)'
<1> USE DEF Move, Goto, sets, SetsAt, Active, Idle
<1>t. /\ pc \in [Cpus -> Stages] /\ cpus_using \in [Pmaps -> SUBSET Cpus] /\ dirbase \in [Cpus -> Pmaps]
      /\ kernel_pmap \in Pmaps
  BY PmapAssumption, Zenon DEF Types
<1>a. SetsAt(c)
  BY Zenon DEF SetsMatch
<1>1. CASE Enters(c)
  <2>1. /\ pc[c] = "run" /\ pc'[c] \in {"read", "want_write", "lock"} /\ cpus_active' = cpus_active \ {c}
        /\ cpus_using' = cpus_using /\ cpus_idle' = cpus_idle /\ dirbase' = dirbase
    BY <1>1, <1>t, Zenon DEF Enters, Call, Begins
  <2> QED
    BY <1>t, <1>a, <2>1, Zenon
<1>2. CASE Moves(c)
  <2>1. CASE MARK_CPU_IDLE(c)
    BY <1>t, <1>a, <2>1, Zenon DEF MARK_CPU_IDLE
  <2>2. CASE MARK_CPU_ACTIVE(c)
    BY <1>t, <1>a, <2>2, Zenon DEF MARK_CPU_ACTIVE
  <2>3. CASE launch(c)
    BY <1>t, <1>a, <2>3, Zenon DEF launch
  <2>4. CASE SPLX(c)
    BY <1>t, <1>a, <2>4, Zenon DEF SPLX
  <2>5. CASE spin_my(c)
    BY <1>t, <1>a, <2>5, ZenonT(60) DEF spin_my
  <2>6. CASE spin_kernel(c)
    BY <1>t, <1>a, <2>6, Zenon DEF spin_kernel
  <2>7. CASE set_active(c)
    BY <1>t, <1>a, <2>7, ZenonT(60) DEF set_active
  <2>8. CASE update_again(c)
    BY <1>t, <1>a, <2>8, Zenon DEF update_again, Interrupted
  <2>9. CASE interrupt_return(c)
    BY <1>t, <1>a, <2>9, Zenon DEF interrupt_return
  <2>10. CASE switch_to_user(c)
    BY <1>t, <1>a, <2>10, Zenon DEF switch_to_user
  <2>11. CASE idle(c)
    BY <1>t, <1>a, <2>11, Zenon DEF idle
  <2>12. CASE wake_update(c)
    BY <1>t, <1>a, <2>12, ZenonT(60) DEF wake_update, Interrupted
  <2>13. CASE wake(c)
    BY <1>t, <1>a, <2>13, ZenonT(60) DEF wake
  <2>14. CASE wake_active(c)
    BY <1>t, <1>a, <2>14, ZenonT(60) DEF wake_active
  <2> QED
    BY <1>2, <2>1, <2>2, <2>3, <2>4, <2>5, <2>6, <2>7, <2>8, <2>9, <2>10, <2>11, <2>12,
       <2>13, <2>14, Zenon DEF Moves
<1>3. CASE Changes(c)
  <2>1. /\ pc[c] = "change" /\ pc'[c] = "unlock" /\ cpus_active' = cpus_active
        /\ cpus_using' = cpus_using /\ cpus_idle' = cpus_idle /\ dirbase' = dirbase
    BY <1>3, <1>t, ChangesEdit, Zenon DEF Edits
  <2> QED
    BY <1>t, <1>a, <2>1, Zenon
<1>4. ASSUME NEW p \in Pmaps, tlb_load(c, p) PROVE SetsAt(c)'
  BY <1>4, <1>t, <1>a, Zenon DEF tlb_load, maps
<1>5. ASSUME NEW p \in Pmaps, write_start(c, p) PROVE SetsAt(c)'
  BY <1>5, <1>t, <1>a, Zenon DEF write_start
<1>6. ASSUME NEW p \in Pmaps, switch_context(c, p) PROVE SetsAt(c)'
  BY <1>6, <1>t, <1>a, Zenon DEF switch_context
<1>7. ASSUME NEW p \in Pmaps, next_mapping(c, p) PROVE SetsAt(c)'
  BY <1>7, <1>t, <1>a, Zenon DEF next_mapping
<1>8. ASSUME NEW p \in Pmaps, launched(c, p) PROVE SetsAt(c)'
  BY <1>8, <1>t, <1>a, Zenon DEF launched
<1>9. ASSUME NEW d \in Cpus, signal_queue(c, d) PROVE SetsAt(c)'
  BY <1>9, <1>t, <1>a, Zenon DEF signal_queue
<1>10. CASE PMAP_DEACTIVATE_KERNEL(c)
  BY <1>10, <1>t, <1>a, ZenonT(60) DEF PMAP_DEACTIVATE_KERNEL
<1>11. CASE write_end(c)
  BY <1>11, <1>t, <1>a, Zenon DEF write_end
<1>12. CASE lock_read(c)
  BY <1>12, <1>t, <1>a, Zenon DEF lock_read
<1>13. CASE want_write(c)
  BY <1>13, <1>t, <1>a, Zenon DEF want_write
<1>14. CASE lock_write(c)
  BY <1>14, <1>t, <1>a, Zenon DEF lock_write
<1>15. CASE lock_write_done(c)
  BY <1>15, <1>t, <1>a, Zenon DEF lock_write_done
<1>16. CASE simple_lock(c)
  BY <1>16, <1>t, <1>a, ZenonT(60) DEF simple_lock, AfterLock
<1>17. CASE simple_unlock(c)
  BY <1>17, <1>t, <1>a, Zenon DEF simple_unlock
<1>18. CASE signal_check(c)
  BY <1>18, <1>t, <1>a, Zenon DEF signal_check
<1>19. CASE signal_interrupt(c)
  BY <1>19, <1>t, <1>a, Zenon DEF signal_interrupt
<1>20. CASE update_wait(c)
  BY <1>20, <1>t, <1>a, Zenon DEF update_wait, flush_tlb
<1>21. CASE change_wired(c)
  BY <1>21, <1>t, <1>a, Zenon DEF change_wired
<1>22. CASE pmap_update_interrupt(c)
  BY <1>22, <1>t, <1>a, Zenon DEF pmap_update_interrupt, Interrupted
<1>23. CASE idle_interrupt(c)
  BY <1>23, <1>t, <1>a, Zenon DEF idle_interrupt, maps
<1>24. CASE process_updates(c)
  BY <1>24, <1>t, <1>a, Zenon DEF process_updates, process_pmap_updates, flush_tlb
<1>25. CASE switch_to_kernel(c)
  BY <1>25, <1>t, <1>a, Zenon DEF switch_to_kernel, set_dirbase, flush_tlb
<1>26. CASE PMAP_ACTIVATE_USER(c)
  BY <1>26, <1>t, <1>a, Zenon DEF PMAP_ACTIVATE_USER, set_dirbase, flush_tlb
<1>27. CASE user_activated(c)
  BY <1>27, <1>t, <1>a, Zenon DEF user_activated
<1>28. CASE PMAP_ACTIVATE_KERNEL(c)
  BY <1>28, <1>t, <1>a, Zenon DEF PMAP_ACTIVATE_KERNEL, process_pmap_updates, flush_tlb
<1> QED
  BY <1>1, <1>2, <1>3, <1>4, <1>5, <1>6, <1>7, <1>8, <1>9, <1>10, <1>11, <1>12, <1>13, <1>14,
     <1>15, <1>16, <1>17, <1>18, <1>19, <1>20, <1>21, <1>22, <1>23, <1>24, <1>25, <1>26, <1>27,
     <1>28, Zenon DEF Steps

\* Every step keeps the sets in step with the processors (SPLVM, SPLX,
\* MARK_CPU_IDLE, PMAP_ACTIVATE and the rest).
LEMMA SetsKept ==
    ASSUME Types, LockHeld, SystemLock, ClearsItsPage, Writing, SetsMatch, NEW c \in Cpus,
           Steps(c)
    PROVE  SetsMatch'
<1>1. ASSUME NEW d \in Cpus \ {c} PROVE SetsAt(d)'
  <2>1. SetsAt(d) /\ pc'[d] = pc[d] /\ op'[d] = op[d] /\ dirbase'[d] = dirbase[d] /\ kernel_pmap \in Pmaps
    BY StepPc, StepOp, StepHome, PmapAssumption, Zenon DEF SetsMatch, PcFrame, OpFrame, HomeFrame
  <2>2. /\ d \in cpus_active' <=> d \in cpus_active
        /\ d \in cpus_idle' <=> d \in cpus_idle
        /\ \A p \in Pmaps : d \in cpus_using'[p] <=> d \in cpus_using[p]
    BY StepSets, Zenon DEF SetFrame
  <2> QED
    BY <2>1, <2>2, Zenon DEF SetsAt
<1> QED
  BY <1>1, OwnSets, Zenon DEF SetsMatch

\* A step of c leaves the system lock to the others that hold it.
SystemFrame(c) == \A d \in Cpus \ {c} :
    /\ d \in readers => d \in readers'
    /\ writer = d <=> writer' = d
    /\ writer = d /\ readers = {} => readers' = {}

\* Every step of c has the frame SystemFrame.
LEMMA StepSystem ==
    ASSUME Types, LockHeld, SystemLock, ClearsItsPage, Writing, NEW c \in Cpus, Steps(c)
    PROVE  SystemFrame(c)
<1> USE DEF SystemFrame, locks
<1>t. None \notin Cpus
  BY PmapAssumption, Zenon
<1>1. CASE Enters(c)
  BY <1>1, <1>t, Zenon DEF Enters, Call
<1>2. CASE Moves(c)
  BY <1>2, MovesStand, <1>t, Zenon DEF Stands
<1>3. CASE Changes(c)
  BY <1>3, ChangesEdit, <1>t, Zenon DEF Edits
<1>4. ASSUME NEW p \in Pmaps, tlb_load(c, p) PROVE SystemFrame(c)
  BY <1>4, <1>t, Zenon DEF tlb_load
<1>5. ASSUME NEW p \in Pmaps, write_start(c, p) PROVE SystemFrame(c)
  BY <1>5, <1>t, Zenon DEF write_start
<1>6. ASSUME NEW p \in Pmaps, switch_context(c, p) PROVE SystemFrame(c)
  BY <1>6, <1>t, Zenon DEF switch_context
<1>7. ASSUME NEW p \in Pmaps, next_mapping(c, p) PROVE SystemFrame(c)
  BY <1>7, <1>t, Zenon DEF next_mapping
<1>8. ASSUME NEW p \in Pmaps, launched(c, p) PROVE SystemFrame(c)
  BY <1>8, <1>t, Zenon DEF launched
<1>9. ASSUME NEW d \in Cpus, signal_queue(c, d) PROVE SystemFrame(c)
  BY <1>9, <1>t, Zenon DEF signal_queue
<1>10. CASE PMAP_DEACTIVATE_KERNEL(c)
  BY <1>10, <1>t, Zenon DEF PMAP_DEACTIVATE_KERNEL
<1>11. CASE write_end(c)
  BY <1>11, <1>t, Zenon DEF write_end
<1>12. CASE lock_read(c)
  BY <1>12, <1>t, Zenon DEF lock_read
<1>13. CASE want_write(c)
  BY <1>13, <1>t, Zenon DEF want_write
<1>14. CASE lock_write(c)
  BY <1>14, <1>t, Zenon DEF lock_write
<1>15. CASE lock_write_done(c)
  <2>1. writer = c /\ writer' = None /\ readers' = readers
    BY <1>15, Zenon DEF lock_write_done, Move, SystemLock, SystemAt
  <2> QED
    BY <1>t, <2>1, Zenon
<1>16. CASE simple_lock(c)
  BY <1>16, <1>t, Zenon DEF simple_lock
<1>17. CASE simple_unlock(c)
  BY <1>17, <1>t, Zenon DEF simple_unlock
<1>18. CASE signal_check(c)
  BY <1>18, <1>t, Zenon DEF signal_check
<1>19. CASE signal_interrupt(c)
  BY <1>19, <1>t, Zenon DEF signal_interrupt
<1>20. CASE update_wait(c)
  BY <1>20, <1>t, Zenon DEF update_wait, flush_tlb
<1>21. CASE change_wired(c)
  BY <1>21, <1>t, Zenon DEF change_wired
<1>22. CASE pmap_update_interrupt(c)
  BY <1>22, <1>t, Zenon DEF pmap_update_interrupt, Interrupted
<1>23. CASE idle_interrupt(c)
  BY <1>23, <1>t, Zenon DEF idle_interrupt
<1>24. CASE process_updates(c)
  BY <1>24, <1>t, Zenon DEF process_updates, process_pmap_updates, flush_tlb
<1>25. CASE switch_to_kernel(c)
  BY <1>25, <1>t, Zenon DEF switch_to_kernel, set_dirbase, flush_tlb
<1>26. CASE PMAP_ACTIVATE_USER(c)
  BY <1>26, <1>t, Zenon DEF PMAP_ACTIVATE_USER, set_dirbase, flush_tlb
<1>27. CASE user_activated(c)
  BY <1>27, <1>t, Zenon DEF user_activated
<1>28. CASE PMAP_ACTIVATE_KERNEL(c)
  BY <1>28, <1>t, Zenon DEF PMAP_ACTIVATE_KERNEL, process_pmap_updates, flush_tlb
<1> QED
  BY <1>1, <1>2, <1>3, <1>4, <1>5, <1>6, <1>7, <1>8, <1>9, <1>10, <1>11, <1>12, <1>13, <1>14,
     <1>15, <1>16, <1>17, <1>18, <1>19, <1>20, <1>21, <1>22, <1>23, <1>24, <1>25, <1>26, <1>27,
     <1>28, Zenon DEF Steps

\* The protocol of pmap_system_lock.
LEMMA Apart == /\ Readers \cap Writers = {} /\ Collects \subseteq Readers /\ "clear" \in Writers
               /\ \A f \in {"none", "switch", "protect", "extract"} : f \notin Readers \cup Writers /\ f # "enter"
               /\ "collect_more" # "enter" /\ "enter" \in Readers /\ "enter" \notin Collects
               /\ "collect_more" \in Collects
  BY Zenon DEF Readers, Writers, Collects

\* A step of c keeps c to the protocol of pmap_system_lock.
LEMMA OwnSystem ==
    ASSUME Types, LockHeld, SystemLock, ClearsItsPage, Writing, NEW c \in Cpus, Steps(c)
    PROVE  SystemAt(c)'
<1> USE DEF Move, Goto, locks
<1>t. pc \in [Cpus -> Stages] /\ pc' \in [Cpus -> Stages] /\ None \notin Cpus /\ op[c] \in Operations
  BY StepPc, PmapAssumption, Zenon DEF Types, PcFrame
<1>a. SystemAt(c)
  BY Zenon DEF SystemLock
<1>k. Starts(c) \/ SameJob(op'[c], op[c])
  BY StepJob, Zenon DEF Kept
<1>w. pc[c] \notin Locked \cup {"drain", "walk"} => writer # c
  BY <1>a, Zenon DEF SystemAt
<1>n. pc'[c] \notin Locked \cup {"read", "want_write", "drain", "walk"} /\ writer' # c
         /\ (op'[c].fn = "enter" \/ op'[c].fn \in Writers => op'[c].page \in Pages) => SystemAt(c)'
  BY Zenon DEF SystemAt, Locked
<1>p. SameJob(op'[c], op[c]) => (op'[c].fn = "enter" \/ op'[c].fn \in Writers => op'[c].page \in Pages)
  BY <1>a, Apart, Zenon DEF SystemAt, SameJob
<1>l. (/\ pc[c] \in Locked /\ pc'[c] \in Locked /\ SameJob(op'[c], op[c])
       /\ pc'[c] = "rewrite" => op'[c].fn = "change_wiring"
       /\ readers' = readers /\ writer' = writer) => SystemAt(c)'
  <2> HAVE /\ pc[c] \in Locked /\ pc'[c] \in Locked /\ SameJob(op'[c], op[c])
           /\ pc'[c] = "rewrite" => op'[c].fn = "change_wiring"
           /\ readers' = readers /\ writer' = writer
  <2>1. /\ op'[c].fn \in Readers <=> op[c].fn \in Readers
        /\ op'[c].fn \in Writers <=> op[c].fn \in Writers
        /\ op'[c].fn \in {"protect", "extract"} <=> op[c].fn \in {"protect", "extract"}
    BY Apart, Zenon DEF SameJob
  <2>2. pc[c] # "drain" /\ pc'[c] \notin {"read", "want_write", "drain", "walk"}
    BY Zenon DEF Locked
  <2> QED
    BY <1>a, <1>p, <2>1, <2>2, Zenon DEF SystemAt
<1>s. (SameJob(op'[c], op[c]) /\ writer' = writer /\ pc[c] \notin Locked \cup {"drain", "walk"}
         /\ pc'[c] \notin Locked \cup {"read", "want_write", "drain", "walk"}) => SystemAt(c)'
  BY <1>w, <1>n, <1>p, Zenon
<1>j. SameJob(op[c], op[c])
  BY Zenon DEF SameJob
<1>1. CASE Enters(c)
  <2>1. PICK o \in Operations, l \in Stages : Call(c, o, l) /\ Begins(o, l)
    BY <1>1, Zenon DEF Enters
  <2>2. op'[c] = o /\ pc'[c] = l /\ pc[c] = "run" /\ writer' = writer
    BY <1>t, <2>1, NewOp, Zenon DEF Call
  <2>3. writer' # c
    BY <1>w, <2>2, Zenon DEF Locked
  <2>4. l \in {"read", "want_write", "lock"} /\ (o.fn = "enter" \/ o.fn \in Writers => o.page \in Pages)
    BY <2>1, Zenon DEF Begins
  <2>5. /\ l = "read" => o.fn \in Readers
        /\ l = "want_write" => o.fn \in Writers
        /\ l = "lock" => o.fn \in {"protect", "extract"} /\ o.fn \notin Readers \cup Writers
    BY <2>1, Apart, Zenon DEF Begins
  <2> QED
    BY <2>2, <2>3, <2>4, <2>5, Zenon DEF SystemAt, Locked
<1>2. CASE Moves(c)
  BY <1>2, <1>s, <1>j, MovesStand, MovesAway, ZenonT(60) DEF Stands, Elsewhere, Locked
<1>3. CASE Changes(c)
  BY <1>3, <1>t, <1>l, <1>k, ChangesEdit, Zenon DEF Edits, Locked, Starts
<1>4. ASSUME NEW p \in Pmaps, tlb_load(c, p) PROVE SystemAt(c)'
  BY <1>4, <1>t, <1>s, <1>j, Zenon DEF tlb_load, Locked, maps
<1>5. ASSUME NEW p \in Pmaps, write_start(c, p) PROVE SystemAt(c)'
  <2>1. SameJob(op'[c], op[c])
    BY <1>5, NewTarget, Zenon DEF write_start, SameCall, SameJob
  <2> QED
    BY <1>5, <1>t, <1>s, <2>1, Zenon DEF write_start, Locked
<1>6. ASSUME NEW p \in Pmaps, switch_context(c, p) PROVE SystemAt(c)'
  <2>1. op'[c].fn = "switch"
    BY <1>6, NewOp, SwitchOp, Zenon DEF switch_context
  <2> QED
    BY <1>6, <1>t, <1>w, <1>n, <2>1, Apart, Zenon DEF switch_context, Locked
<1>7. ASSUME NEW p \in Pmaps, next_mapping(c, p) PROVE SystemAt(c)'
  <2>1. op'[c].fn = op[c].fn /\ op'[c].page = op[c].page /\ op[c].fn \in Writers /\ writer = c
    BY <1>7, <1>a, NewPmap, Zenon DEF next_mapping, SameCall, SystemAt
  <2>2. pc[c] = "walk" /\ pc'[c] = "lock" /\ readers' = readers /\ writer' = writer
    BY <1>7, <1>t, Zenon DEF next_mapping
  <2>3. op[c].fn \notin Readers
    BY <2>1, Apart, Zenon
  <2> QED
    BY <1>a, <2>1, <2>2, <2>3, Zenon DEF SystemAt, Locked
<1>8. ASSUME NEW p \in Pmaps, launched(c, p) PROVE SystemAt(c)'
  <2>1. op'[c].fn = "switch"
    BY <1>8, NewOp, SwitchOp, Zenon DEF launched
  <2> QED
    BY <1>8, <1>t, <1>w, <1>n, <2>1, Apart, Zenon DEF launched, Locked
<1>9. ASSUME NEW d \in Cpus, signal_queue(c, d) PROVE SystemAt(c)'
  BY <1>9, <1>t, <1>l, <1>k, Zenon DEF signal_queue, Locked, Starts
<1>10. CASE PMAP_DEACTIVATE_KERNEL(c)
  BY <1>10, <1>t, <1>s, <1>j, Zenon DEF PMAP_DEACTIVATE_KERNEL, Locked, maps
<1>11. CASE write_end(c)
  BY <1>11, <1>t, <1>s, <1>k, Zenon DEF write_end, Locked, Starts
<1>12. CASE lock_read(c)
  <2>1. op'[c] = op[c] /\ op[c].fn \in Readers /\ op[c].fn \notin Writers /\ writer' # c /\ c \in readers'
    BY <1>12, <1>a, <1>t, Apart, Zenon DEF lock_read, SystemAt
  <2>2. pc'[c] = "lock"
    BY <1>12, <1>t, Zenon DEF lock_read
  <2> QED
    BY <1>a, <2>1, <2>2, Zenon DEF SystemAt
<1>13. CASE want_write(c)
  <2>1. op'[c] = op[c] /\ op[c].fn \in Writers /\ writer' = c
    BY <1>13, <1>a, Zenon DEF want_write, SystemAt
  <2>2. pc'[c] = "drain"
    BY <1>13, <1>t, Zenon DEF want_write
  <2> QED
    BY <1>a, <2>1, <2>2, Zenon DEF SystemAt, Locked
<1>14. CASE lock_write(c)
  <2>1. PICK x : x = IF op[c].fn = "test" /\ op[c].page \in attributes THEN {} ELSE PvList(op[c].page)
    OBVIOUS
  <2>2. x \in SUBSET Pmaps /\ op' = [op EXCEPT ![c].todo = x]
    BY <1>14, <2>1, Zenon DEF lock_write, PvList
  <2>3. op'[c].fn = op[c].fn /\ op'[c].page = op[c].page /\ op[c].fn \in Writers /\ writer = c
    BY <1>14, <1>a, <2>2, NewTodo, Zenon DEF lock_write, SameCall, SystemAt
  <2>4. pc'[c] = "walk" /\ readers = {} /\ readers' = readers /\ writer' = writer
    BY <1>14, <1>t, Zenon DEF lock_write
  <2> QED
    BY <1>a, <2>3, <2>4, Zenon DEF SystemAt, Locked
<1>15. CASE lock_write_done(c)
  <2>1. op'[c].fn = "none"
    BY <1>15, NewOp, NoOp, Zenon DEF lock_write_done
  <2> QED
    BY <1>15, <1>t, <1>w, <1>n, <2>1, Apart, Zenon DEF lock_write_done, Locked
<1>16. CASE simple_lock(c)
  <2>1. pc[c] = "lock" /\ pc'[c] \in {"update", "change", "rewrite", "unlock"} /\ readers' = readers /\ writer' = writer
    BY <1>16, <1>t, Zenon DEF simple_lock, AfterLock
  <2>2. SameJob(op'[c], op[c])
    BY <1>k, <2>1, Zenon DEF Starts
  <2>3. pc'[c] = "rewrite" => op[c].fn = "change_wiring"
    BY <1>16, <1>t, Zenon DEF simple_lock, AfterLock
  <2>4. "change_wiring" \notin Collects
    BY Zenon DEF Collects
  <2> QED
    BY <1>l, <2>1, <2>2, <2>3, <2>4, Zenon DEF Locked, SameJob
<1>17. CASE simple_unlock(c)
  <2>1. pc[c] = "unlock" /\ writer' = writer /\ readers' = readers \ {c}
    BY <1>17, Zenon DEF simple_unlock
  <2>2. CASE writer = c
    <3>1. op'[c] = op[c] /\ pc'[c] = "walk"
      BY <1>17, <1>t, <2>2, Zenon DEF simple_unlock, Types
    <3> QED
      BY <1>a, <2>1, <2>2, <3>1, Zenon DEF SystemAt, Locked
  <2>3. CASE writer # c
    <3>1. pc'[c] = "splx"
      BY <1>17, <1>t, <2>3, Zenon DEF simple_unlock
    <3>2. op'[c] = op[c] \/ op'[c] = NoOperation
      BY <1>17, <2>3, Zenon DEF simple_unlock, Types
    <3>3. op'[c].fn = "enter" \/ op'[c].fn \in Writers => op'[c].page \in Pages
      BY <1>a, <3>2, NoOp, Apart, Zenon DEF SystemAt
    <3> QED
      BY <1>n, <2>1, <2>3, <3>1, <3>3, Zenon DEF Locked
  <2> QED
    BY <2>2, <2>3, Zenon
<1>18. CASE signal_check(c)
  BY <1>18, <1>t, <1>l, <1>k, Zenon DEF signal_check, Locked, Starts
<1>19. CASE signal_interrupt(c)
  BY <1>19, <1>t, <1>l, <1>k, Zenon DEF signal_interrupt, Locked, Starts
<1>20. CASE update_wait(c)
  BY <1>20, <1>t, <1>l, <1>k, Zenon DEF update_wait, flush_tlb, Locked, Starts
<1>21. CASE change_wired(c)
  BY <1>21, <1>t, <1>l, <1>k, Zenon DEF change_wired, Locked, Starts
<1>22. CASE pmap_update_interrupt(c)
  BY <1>22, <1>t, <1>s, <1>j, Zenon DEF pmap_update_interrupt, Interrupted, Locked, maps
<1>23. CASE idle_interrupt(c)
  BY <1>23, <1>t, <1>s, <1>j, Zenon DEF idle_interrupt, Locked, maps
<1>24. CASE process_updates(c)
  BY <1>24, <1>t, <1>s, <1>k, Zenon DEF process_updates, process_pmap_updates, flush_tlb,
     Locked, Starts
<1>25. CASE switch_to_kernel(c)
  <2>1. op'[c].fn = "none"
    BY <1>25, NewOp, NoOp, Zenon DEF switch_to_kernel
  <2> QED
    BY <1>25, <1>t, <1>w, <1>n, <2>1, Apart, Zenon DEF switch_to_kernel, Locked
<1>26. CASE PMAP_ACTIVATE_USER(c)
  BY <1>26, <1>t, <1>s, <1>k, Zenon DEF PMAP_ACTIVATE_USER, set_dirbase, flush_tlb, Locked, Starts
<1>27. CASE user_activated(c)
  <2>1. op'[c].fn = "none"
    BY <1>27, NewOp, NoOp, Zenon DEF user_activated
  <2> QED
    BY <1>27, <1>t, <1>w, <1>n, <2>1, Apart, Zenon DEF user_activated, Locked
<1>28. CASE PMAP_ACTIVATE_KERNEL(c)
  BY <1>28, <1>t, <1>s, <1>k, Zenon DEF PMAP_ACTIVATE_KERNEL, process_pmap_updates, flush_tlb,
     Locked, Starts
<1> QED
  BY <1>1, <1>2, <1>3, <1>4, <1>5, <1>6, <1>7, <1>8, <1>9, <1>10, <1>11, <1>12, <1>13, <1>14,
     <1>15, <1>16, <1>17, <1>18, <1>19, <1>20, <1>21, <1>22, <1>23, <1>24, <1>25, <1>26, <1>27,
     <1>28, Zenon DEF Steps

\* Every step keeps the protocol of pmap_system_lock.
LEMMA SystemKept ==
    ASSUME Types, LockHeld, SystemLock, ClearsItsPage, Writing, NEW c \in Cpus, Steps(c)
    PROVE  SystemLock'
<1>1. ASSUME NEW d \in Cpus \ {c} PROVE SystemAt(d)'
  <2>1. SystemAt(d) /\ pc'[d] = pc[d] /\ op'[d] = op[d]
    BY StepPc, StepOp, Zenon DEF SystemLock, PcFrame, OpFrame
  <2>2. /\ d \in readers => d \in readers'
        /\ writer = d <=> writer' = d
        /\ writer = d /\ readers = {} => readers' = {}
    BY StepSystem, Zenon DEF SystemFrame
  <2> QED
    BY <2>1, <2>2, Zenon DEF SystemAt
<1> QED
  BY <1>1, OwnSystem, Zenon DEF SystemLock

\* The pv lists do not change while another processor holds the system lock for writing.
PvKept == \A p \in Pmaps : (pte'[p] # NoPte <=> pte[p] # NoPte) /\ (pte[p] # NoPte => pte'[p].page = pte[p].page)

\* The hardware's setting of a modify bit moves no mapping.
LEMMA MarksKeep == ASSUME Types, Writing, NEW c \in Cpus, Marks(c) PROVE PvKept
<1>p. PICK p : p = op[c].target
  OBVIOUS
<1>1. p \in Pmaps /\ pte[p] # NoPte /\ pte \in [Pmaps -> Pte \cup {NoPte}] /\ pte[p] \in Pte
  BY <1>p, Zenon DEF Marks, Writing, WritesAt, Mapped, Types
<1>2. PICK e : e = [pte[p] EXCEPT !.mod = TRUE]
  OBVIOUS
<1>3. e \in Pte /\ e.page = pte[p].page
  BY <1>1, <1>2, PteFields, TRUE \in BOOLEAN, Zenon
<1>4. e # NoPte
  BY <1>3, PmapAssumption, Zenon DEF Pte
<1>5. pte' = [pte EXCEPT ![p] = e]
  BY <1>p, <1>2, Zenon DEF Marks
<1> QED
  BY <1>1, <1>3, <1>4, <1>5, Zenon DEF PvKept

\* Which operations change entries.
LEMMA ChangeFn == ASSUME NEW c \in Cpus, Changes(c)
                  PROVE  \/ op[c].fn \in Readers \cup {"page_protect"}
                         \/ change_protect(c)
                         \/ change_clear(c)
<1>1. CASE change_remove(c) \/ change_later(c)
  BY <1>1, Zenon DEF change_remove, change_later, Removes, Readers, Collects
<1>2. CASE change_enter(c) \/ enter_retry(c)
  BY <1>2, Zenon DEF change_enter, enter_retry, Readers
<1> QED
  BY <1>1, <1>2, Zenon DEF Changes

\* Clearing a bit of an entry, or its write permission, keeps its page.
LEMMA ProtectKeeps ==
    ASSUME Types, SystemLock, ClearsItsPage, NEW c \in Cpus, change_protect(c) \/ change_clear(c) PROVE PvKept
<1>p. PICK p : p = op[c].pmap
  OBVIOUS
<1>1. p \in Pmaps /\ pte \in [Pmaps -> Pte \cup {NoPte}]
  BY <1>p, OpType, Zenon DEF Types
<1>2. CASE pte[p] = NoPte
  <2>1. ~change_clear(c)
    BY <1>p, <1>2, Zenon DEF change_clear, Move, ClearsItsPage, ClearsAt, PvList, Visiting,
       Locked, Mapped
  <2>2. pte' = pte
    BY <1>p, <1>2, <2>1, Zenon DEF change_protect, Mapped
  <2> QED
    BY <2>2, Zenon DEF PvKept
<1>3. CASE pte[p] # NoPte
  <2>1. pte[p] \in Pte
    BY <1>1, <1>3, Zenon
  <2>2. PICK e \in Pte : pte' = [pte EXCEPT ![p] = e] /\ e.page = pte[p].page
    <3>1. CASE change_protect(c)
      <4>1. pte' = [pte EXCEPT ![p] = [pte[p] EXCEPT !.write = FALSE]]
        BY <1>p, <1>3, <3>1, Zenon DEF change_protect, Mapped
      <4>2. [pte[p] EXCEPT !.write = FALSE] \in Pte /\ [pte[p] EXCEPT !.write = FALSE].page = pte[p].page
        BY <2>1, PteFields, FALSE \in BOOLEAN, Zenon
      <4> QED
        BY <4>1, <4>2, Zenon
    <3>2. CASE change_clear(c)
      <4>1. pte' = [pte EXCEPT ![p] = [pte[p] EXCEPT !.mod = FALSE]]
        BY <1>p, <3>2, Zenon DEF change_clear
      <4>2. [pte[p] EXCEPT !.mod = FALSE] \in Pte /\ [pte[p] EXCEPT !.mod = FALSE].page = pte[p].page
        BY <2>1, PteFields, FALSE \in BOOLEAN, Zenon
      <4> QED
        BY <4>1, <4>2, Zenon
    <3> QED
      BY <3>1, <3>2, Zenon
  <2>3. e # NoPte
    BY PmapAssumption, Zenon DEF Pte
  <2> QED
    BY <1>1, <1>3, <2>2, <2>3, Zenon DEF PvKept
<1> QED
  BY <1>2, <1>3, Zenon

\* At the points of a change, the change is what happens.
LEMMA RewriteStep == ASSUME NEW c \in Cpus, Steps(c), pc[c] \in {"change", "rewrite"}
                     PROVE  (Changes(c) /\ pc[c] = "change") \/ (change_wired(c) /\ pc[c] = "rewrite")
<1> USE DEF Move
<1>1. CASE Enters(c)
  BY <1>1, Zenon DEF Enters, Call
<1>2. CASE Moves(c)
  BY <1>2, Zenon DEF Moves, MARK_CPU_IDLE, MARK_CPU_ACTIVE, launch, SPLX, spin_my,
     spin_kernel, set_active,
        update_again, interrupt_return, switch_to_user, idle, wake_update, wake, wake_active, Interrupted
<1>3. CASE Changes(c)
  BY <1>3, Zenon DEF Changes, change_remove, change_later, change_protect, change_clear,
     change_enter, enter_retry
<1>4. ASSUME NEW p \in Pmaps, tlb_load(c, p) PROVE (Changes(c) /\ pc[c] = "change") \/ (change_wired(c) /\ pc[c] = "rewrite")
  BY <1>4, Zenon DEF tlb_load
<1>5. ASSUME NEW p \in Pmaps, write_start(c, p) PROVE (Changes(c) /\ pc[c] = "change") \/ (change_wired(c) /\ pc[c] = "rewrite")
  BY <1>5, Zenon DEF write_start
<1>6. ASSUME NEW p \in Pmaps, switch_context(c, p) PROVE (Changes(c) /\ pc[c] = "change") \/ (change_wired(c) /\ pc[c] = "rewrite")
  BY <1>6, Zenon DEF switch_context
<1>7. ASSUME NEW p \in Pmaps, next_mapping(c, p) PROVE (Changes(c) /\ pc[c] = "change") \/ (change_wired(c) /\ pc[c] = "rewrite")
  BY <1>7, Zenon DEF next_mapping
<1>8. ASSUME NEW p \in Pmaps, launched(c, p) PROVE (Changes(c) /\ pc[c] = "change") \/ (change_wired(c) /\ pc[c] = "rewrite")
  BY <1>8, Zenon DEF launched
<1>9. ASSUME NEW d \in Cpus, signal_queue(c, d) PROVE (Changes(c) /\ pc[c] = "change") \/ (change_wired(c) /\ pc[c] = "rewrite")
  BY <1>9, Zenon DEF signal_queue
<1>10. CASE PMAP_DEACTIVATE_KERNEL(c)
  BY <1>10, Zenon DEF PMAP_DEACTIVATE_KERNEL
<1>11. CASE write_end(c)
  BY <1>11, Zenon DEF write_end
<1>12. CASE lock_read(c)
  BY <1>12, Zenon DEF lock_read
<1>13. CASE want_write(c)
  BY <1>13, Zenon DEF want_write
<1>14. CASE lock_write(c)
  BY <1>14, Zenon DEF lock_write
<1>15. CASE lock_write_done(c)
  BY <1>15, Zenon DEF lock_write_done
<1>16. CASE simple_lock(c)
  BY <1>16, Zenon DEF simple_lock
<1>17. CASE simple_unlock(c)
  BY <1>17, Zenon DEF simple_unlock
<1>18. CASE signal_check(c)
  BY <1>18, Zenon DEF signal_check
<1>19. CASE signal_interrupt(c)
  BY <1>19, Zenon DEF signal_interrupt
<1>20. CASE update_wait(c)
  BY <1>20, Zenon DEF update_wait, flush_tlb
<1>21. CASE change_wired(c)
  BY <1>21, Zenon DEF change_wired
<1>22. CASE pmap_update_interrupt(c)
  BY <1>22, Zenon DEF pmap_update_interrupt, Interrupted
<1>23. CASE idle_interrupt(c)
  BY <1>23, Zenon DEF idle_interrupt
<1>24. CASE process_updates(c)
  BY <1>24, Zenon DEF process_updates, process_pmap_updates, flush_tlb
<1>25. CASE switch_to_kernel(c)
  BY <1>25, Zenon DEF switch_to_kernel, set_dirbase, flush_tlb
<1>26. CASE PMAP_ACTIVATE_USER(c)
  BY <1>26, Zenon DEF PMAP_ACTIVATE_USER, set_dirbase, flush_tlb
<1>27. CASE user_activated(c)
  BY <1>27, Zenon DEF user_activated
<1>28. CASE PMAP_ACTIVATE_KERNEL(c)
  BY <1>28, Zenon DEF PMAP_ACTIVATE_KERNEL, process_pmap_updates, flush_tlb
<1> QED
  BY <1>1, <1>2, <1>3, <1>4, <1>5, <1>6, <1>7, <1>8, <1>9, <1>10, <1>11, <1>12, <1>13, <1>14,
     <1>15, <1>16, <1>17, <1>18, <1>19, <1>20, <1>21, <1>22, <1>23, <1>24, <1>25, <1>26, <1>27,
     <1>28, Zenon DEF Steps

\* No step moves a mapping while another processor holds the system lock for
\* writing.
LEMMA StepPv ==
    ASSUME Types, LockHeld, SystemLock, ClearsItsPage, Writing, NEW c \in Cpus, Steps(c),
           NEW d \in Cpus \ {c}, writer = d, readers = {}
    PROVE  PvKept
<1>1. CASE pte' = pte
  BY <1>1, Zenon DEF PvKept
<1>2. CASE Marks(c)
  BY <1>2, MarksKeep, Zenon
<1>3. CASE Rewrites(c)
  <2>1. pc[c] \in Locked /\ SystemAt(c) /\ c \notin readers /\ writer # c
    BY <1>3, Zenon DEF Rewrites, Locked, SystemLock
  <2>2. op[c].fn \notin Readers \cup Writers
    BY <2>1, Zenon DEF SystemAt
  <2>3. Changes(c)
    <3>1. "change_wiring" \in Readers
      BY Zenon DEF Readers
    <3> QED
      BY <1>3, <2>1, <2>2, <3>1, RewriteStep, Zenon DEF Rewrites, SystemAt
  <2>4. change_protect(c) \/ change_clear(c)
    <3>1. "page_protect" \in Writers
      BY Zenon DEF Writers
    <3> QED
      BY <2>2, <2>3, <3>1, ChangeFn, Zenon
  <2> QED
    BY <2>4, ProtectKeeps, Zenon
<1> QED
  BY <1>1, <1>2, <1>3, StepPte, Zenon DEF PteFrame

\* phys_attribute_clear keeps to the mappings of its page.
LEMMA OwnClears ==
    ASSUME Types, LockHeld, SystemLock, ClearsItsPage, Writing, NEW c \in Cpus, Steps(c)
    PROVE  ClearsAt(c)'
<1> USE DEF Move, Goto, maps
<1>t. pc \in [Cpus -> Stages] /\ op[c] \in Operations
  BY Zenon DEF Types
<1>a. ClearsAt(c) /\ SystemAt(c)
  BY Zenon DEF ClearsItsPage, SystemLock
<1>k. Starts(c) \/ SameJob(op'[c], op[c])
  BY StepJob, Zenon DEF Kept
<1>n. pc'[c] \notin Locked \cup {"walk"} => ClearsAt(c)'
  BY Zenon DEF ClearsAt
<1>f. op'[c].fn # "clear" => ClearsAt(c)'
  BY Zenon DEF ClearsAt
<1>c. "clear" \notin Collects
  BY Zenon DEF Collects
<1>v. (pc[c] \in Visiting /\ pc'[c] \in Locked /\ pte' = pte /\ SameJob(op'[c], op[c])) => ClearsAt(c)'
  <2> HAVE pc[c] \in Visiting /\ pc'[c] \in Locked /\ pte' = pte /\ SameJob(op'[c], op[c])
  <2>1. \A g : PvList(g)' = PvList(g)
    BY Zenon DEF PvList, Mapped
  <2>2. pc[c] \in Locked
    BY Zenon DEF Visiting, Locked
  <2>3. op'[c].fn = "clear" => op[c].fn = "clear"
    BY <1>c, Zenon DEF SameJob
  <2> QED
    BY <1>a, <2>1, <2>2, <2>3, Zenon DEF ClearsAt, SameJob
<1>1. CASE Enters(c)
  <2>1. PICK o \in Operations, l \in Stages : Call(c, o, l) /\ Begins(o, l)
    BY <1>1, Zenon DEF Enters
  <2>2. op'[c] = o /\ pc'[c] = l
    BY <1>t, <2>1, NewOp, Zenon DEF Call
  <2>3. l = "lock" => o.fn # "clear"
    BY <2>1, Zenon DEF Begins
  <2>4. l \in {"read", "want_write", "lock"}
    BY <2>1, Zenon DEF Begins
  <2> QED
    BY <1>n, <1>f, <2>2, <2>3, <2>4, Zenon DEF Locked
<1>2. CASE Moves(c)
  BY <1>2, <1>n, MovesAway, Zenon DEF Elsewhere, Locked
<1>3. CASE Changes(c)
  <2>1. pc[c] = "change" /\ pc'[c] = "unlock" /\ SameJob(op'[c], op[c])
    BY <1>3, <1>t, ChangesEdit, Zenon DEF Edits, SameOp, SameJob
  <2>2. CASE op[c].fn # "clear"
    BY <1>c, <1>f, <2>1, <2>2, Zenon DEF SameJob
  <2>3. CASE op[c].fn = "clear"
    <3>1. op[c].fn \notin Readers \cup {"page_protect"}
      BY <2>3, Apart, Zenon
    <3>2. PvKept
      BY <1>3, <3>1, ChangeFn, ProtectKeeps, Zenon
    <3>3. op[c].todo \subseteq PvList(op[c].page)
      BY <1>a, <2>1, <2>3, Zenon DEF ClearsAt, Locked
    <3>4. \A g : PvList(g)' = PvList(g)
      BY <3>2, Zenon DEF PvKept, PvList, Mapped
    <3> QED
      BY <2>1, <3>3, <3>4, Zenon DEF ClearsAt, SameJob, Visiting
  <2> QED
    BY <2>2, <2>3, Zenon
<1>4. ASSUME NEW p \in Pmaps, tlb_load(c, p) PROVE ClearsAt(c)'
  BY <1>4, <1>t, <1>n, Zenon DEF tlb_load, Locked
<1>5. ASSUME NEW p \in Pmaps, write_start(c, p) PROVE ClearsAt(c)'
  BY <1>5, <1>t, <1>n, Zenon DEF write_start, Locked
<1>6. ASSUME NEW p \in Pmaps, switch_context(c, p) PROVE ClearsAt(c)'
  BY <1>6, <1>t, <1>n, Zenon DEF switch_context, Locked
<1>7. ASSUME NEW p \in Pmaps, next_mapping(c, p) PROVE ClearsAt(c)'
  <2>1. /\ op'[c].fn = op[c].fn /\ op'[c].page = op[c].page /\ op'[c].pmap = p
        /\ op'[c].todo = op[c].todo \ {p}
    BY <1>7, NewPmap, Zenon DEF next_mapping, SameCall
  <2>2. pc[c] = "walk" /\ pte' = pte /\ p \in op[c].todo
    BY <1>7, Zenon DEF next_mapping
  <2>3. \A g : PvList(g)' = PvList(g)
    BY <2>2, Zenon DEF PvList, Mapped
  <2> QED
    BY <1>a, <2>1, <2>2, <2>3, Zenon DEF ClearsAt
<1>8. ASSUME NEW p \in Pmaps, launched(c, p) PROVE ClearsAt(c)'
  BY <1>8, <1>t, <1>n, Zenon DEF launched, Locked
<1>9. ASSUME NEW d \in Cpus, signal_queue(c, d) PROVE ClearsAt(c)'
  BY <1>9, <1>t, <1>v, <1>k, Zenon DEF signal_queue, Locked, Visiting, Starts
<1>10. CASE PMAP_DEACTIVATE_KERNEL(c)
  BY <1>10, <1>t, <1>n, Zenon DEF PMAP_DEACTIVATE_KERNEL, Locked
<1>11. CASE write_end(c)
  BY <1>11, <1>t, <1>n, Zenon DEF write_end, Locked
<1>12. CASE lock_read(c)
  <2>1. op'[c] = op[c] /\ op[c].fn \in Readers
    BY <1>12, <1>a, Zenon DEF lock_read, SystemAt
  <2> QED
    BY <1>f, <2>1, Apart, Zenon
<1>13. CASE want_write(c)
  BY <1>13, <1>t, <1>n, Zenon DEF want_write, Locked
<1>14. CASE lock_write(c)
  <2>1. PICK x : x = IF op[c].fn = "test" /\ op[c].page \in attributes THEN {} ELSE PvList(op[c].page)
    OBVIOUS
  <2>2. x \in SUBSET Pmaps /\ op' = [op EXCEPT ![c].todo = x]
    BY <1>14, <2>1, Zenon DEF lock_write, PvList
  <2>3. op'[c].todo = x /\ op'[c].page = op[c].page
    BY <2>2, NewTodo, Zenon DEF SameCall
  <2>4. pc'[c] = "walk" /\ pte' = pte
    BY <1>14, <1>t, Zenon DEF lock_write
  <2>5. \A g : PvList(g)' = PvList(g)
    BY <2>4, Zenon DEF PvList, Mapped
  <2> QED
    BY <2>1, <2>3, <2>4, <2>5, Zenon DEF ClearsAt, Visiting
<1>15. CASE lock_write_done(c)
  BY <1>15, <1>t, <1>n, Zenon DEF lock_write_done, Locked
<1>16. CASE simple_lock(c)
  <2>1. pc[c] = "lock" /\ pc'[c] \in {"update", "change", "rewrite", "unlock"} /\ pte' = pte
    BY <1>16, <1>t, Zenon DEF simple_lock, AfterLock
  <2> QED
    BY <1>k, <1>v, <2>1, Zenon DEF Locked, Visiting, Starts
<1>17. CASE simple_unlock(c)
  <2>1. CASE writer = c
    <3>1. op'[c] = op[c] /\ pc'[c] = "walk" /\ pc[c] = "unlock" /\ pte' = pte
      BY <1>17, <1>t, <2>1, Zenon DEF simple_unlock, Types
    <3>2. \A g : PvList(g)' = PvList(g)
      BY <3>1, Zenon DEF PvList, Mapped
    <3> QED
      BY <1>a, <3>1, <3>2, Zenon DEF ClearsAt, Locked, Visiting
  <2>2. CASE writer # c
    BY <1>17, <1>t, <1>n, <2>2, Zenon DEF simple_unlock, Locked
  <2> QED
    BY <2>1, <2>2, Zenon
<1>18. CASE signal_check(c)
  BY <1>18, <1>t, <1>v, <1>k, Zenon DEF signal_check, Locked, Visiting, Starts
<1>19. CASE signal_interrupt(c)
  BY <1>19, <1>t, <1>v, <1>k, Zenon DEF signal_interrupt, Locked, Visiting, Starts
<1>20. CASE update_wait(c)
  BY <1>20, <1>t, <1>v, <1>k, Zenon DEF update_wait, flush_tlb, Locked, Visiting, Starts
<1>21. CASE change_wired(c)
  <2>1. op[c].fn = "change_wiring" /\ SameJob(op'[c], op[c])
    BY <1>21, <1>a, <1>k, Zenon DEF change_wired, SystemAt, Starts
  <2> QED
    BY <1>c, <1>f, <2>1, Zenon DEF SameJob
<1>22. CASE pmap_update_interrupt(c)
  BY <1>22, <1>t, <1>n, Zenon DEF pmap_update_interrupt, Interrupted, Locked
<1>23. CASE idle_interrupt(c)
  BY <1>23, <1>t, <1>n, Zenon DEF idle_interrupt, Locked
<1>24. CASE process_updates(c)
  BY <1>24, <1>t, <1>n, Zenon DEF process_updates, process_pmap_updates, flush_tlb, Locked
<1>25. CASE switch_to_kernel(c)
  BY <1>25, <1>t, <1>n, Zenon DEF switch_to_kernel, set_dirbase, flush_tlb, Locked
<1>26. CASE PMAP_ACTIVATE_USER(c)
  BY <1>26, <1>t, <1>n, Zenon DEF PMAP_ACTIVATE_USER, set_dirbase, flush_tlb, Locked
<1>27. CASE user_activated(c)
  BY <1>27, <1>t, <1>n, Zenon DEF user_activated, Locked
<1>28. CASE PMAP_ACTIVATE_KERNEL(c)
  BY <1>28, <1>t, <1>n, Zenon DEF PMAP_ACTIVATE_KERNEL, process_pmap_updates, flush_tlb, Locked
<1> QED
  BY <1>1, <1>2, <1>3, <1>4, <1>5, <1>6, <1>7, <1>8, <1>9, <1>10, <1>11, <1>12, <1>13, <1>14,
     <1>15, <1>16, <1>17, <1>18, <1>19, <1>20, <1>21, <1>22, <1>23, <1>24, <1>25, <1>26, <1>27,
     <1>28, Zenon DEF Steps

\* Every step keeps phys_attribute_clear to the mappings of its page.
LEMMA ClearsKept ==
    ASSUME Types, LockHeld, SystemLock, ClearsItsPage, Writing, NEW c \in Cpus, Steps(c)
    PROVE  ClearsItsPage'
<1>1. ASSUME NEW d \in Cpus \ {c} PROVE ClearsAt(d)'
  <2>1. ClearsAt(d) /\ SystemAt(d) /\ pc'[d] = pc[d] /\ op'[d] = op[d]
    BY StepPc, StepOp, Zenon DEF ClearsItsPage, SystemLock, PcFrame, OpFrame
  <2>2. CASE ~(op[d].fn = "clear" /\ pc[d] \in Locked \cup {"walk"})
    BY <2>1, <2>2, Zenon DEF ClearsAt
  <2>3. CASE op[d].fn = "clear" /\ pc[d] \in Locked \cup {"walk"}
    <3>1. writer = d /\ readers = {}
      BY <2>1, <2>3, Apart, Zenon DEF SystemAt, Locked
    <3>2. PvKept
      BY <3>1, StepPv, Zenon
    <3>3. \A g : PvList(g)' = PvList(g)
      BY <3>2, Zenon DEF PvKept, PvList, Mapped
    <3> QED
      BY <2>1, <3>3, Zenon DEF ClearsAt
  <2> QED
    BY <2>2, <2>3, Zenon
<1> QED
  BY <1>1, OwnClears, Zenon DEF ClearsItsPage

\* What the end of a write does to the entry it goes through, cached and in memory.
MarkedEntry(n, o) == n # NoPte /\ n.page = o.page /\ n.write = o.write /\ n.mod

\* Setting the modify bit of an entry.
LEMMA MarkEntry ==
    ASSUME NEW o \in Pte
    PROVE  MarkedEntry([o EXCEPT !.mod = TRUE], o) /\ [o EXCEPT !.mod = TRUE] \in
           Pte
<1>1. PICK n : n = [o EXCEPT !.mod = TRUE]
  OBVIOUS
<1>2. n \in Pte /\ n.page = o.page /\ n.write = o.write /\ n.mod = TRUE
  BY <1>1, PteFields, TRUE \in BOOLEAN, Zenon
<1>3. n # NoPte
  BY <1>2, PmapAssumption, Zenon DEF Pte
<1> QED
  BY <1>1, <1>2, <1>3, Zenon DEF MarkedEntry

\* The end of a write: the entry is marked in the TLB, and in memory if it is
\* valid there.
LEMMA WriteEffect ==
    ASSUME Types, Writing, NEW c \in Cpus, write_end(c), NEW q, q = op[c].target
    PROVE  /\ q \in Pmaps /\ InSpace(c, q) /\ tlb[c][q] # NoPte
           /\ \A p \in Pmaps \ {q} : tlb'[c][p] = tlb[c][p] /\ pte'[p] = pte[p]
           /\ \/ tlb'[c][q] = tlb[c][q] /\ tlb[c][q].mod /\ pte' = pte
              \/ /\ MarkedEntry(tlb'[c][q], tlb[c][q])
                 /\ \/ pte[q] # NoPte /\ MarkedEntry(pte'[q], pte[q])
                    \/ pte[q] = NoPte /\ pte' = pte
<1>1. pc[c] = "write" /\ pte \in [Pmaps -> Pte \cup {NoPte}] /\ tlb \in [Cpus -> [Pmaps -> Pte \cup {NoPte}]]
  BY Zenon DEF write_end, Move, Types
<1>2. q \in Pmaps /\ InSpace(c, q) /\ tlb[c][q] # NoPte
  BY <1>1, Zenon DEF Writing, WritesAt
<1>3. PICK r : r = tlb[c]
  OBVIOUS
<1>4. r \in [Pmaps -> Pte \cup {NoPte}] /\ r[q] \in Pte
  BY <1>1, <1>2, <1>3, Zenon
<1>5. CASE r[q].mod
  <2>1. tlb' = tlb /\ pte' = pte
    BY <1>3, <1>5, Zenon DEF write_end
  <2> QED
    BY <1>2, <1>3, <1>5, <2>1, Zenon
<1>6. CASE ~r[q].mod
  <2>1. tlb' = [tlb EXCEPT ![c] = [r EXCEPT ![q] = [r[q] EXCEPT !.mod = TRUE]]]
    BY <1>1, <1>3, <1>6, Zenon DEF write_end
  <2>2. PICK e : e = [r[q] EXCEPT !.mod = TRUE]
    OBVIOUS
  <2>3. MarkedEntry(e, r[q])
    BY <1>4, <2>2, MarkEntry, Zenon
  <2>4. PICK s : s = [r EXCEPT ![q] = e]
    OBVIOUS
  <2>5. s[q] = e /\ \A p \in Pmaps \ {q} : s[p] = r[p]
    BY <1>2, <1>4, <2>4, Zenon
  <2>6. tlb'[c] = s
    BY <1>1, <2>1, <2>2, <2>4, Zenon
  <2>7. /\ tlb[c][q] # NoPte /\ MarkedEntry(tlb'[c][q], tlb[c][q])
        /\ \A p \in Pmaps \ {q} : tlb'[c][p] = tlb[c][p]
    BY <1>2, <1>3, <2>3, <2>5, <2>6, Zenon
  <2>8. CASE pte[q] = NoPte
    <3>1. pte' = pte
      BY <1>3, <1>6, <2>8, Zenon DEF write_end, Mapped
    <3> QED
      BY <1>2, <2>7, <2>8, <3>1, Zenon
  <2>9. CASE pte[q] # NoPte
    <3>1. pte' = [pte EXCEPT ![q] = [pte[q] EXCEPT !.mod = TRUE]] /\ pte[q] \in Pte
      BY <1>1, <1>2, <1>3, <1>6, <2>9, Zenon DEF write_end, Mapped
    <3>2. PICK n : n = [pte[q] EXCEPT !.mod = TRUE]
      OBVIOUS
    <3>3. MarkedEntry(n, pte[q])
      BY <3>1, <3>2, MarkEntry, Zenon
    <3>4. pte'[q] = n /\ \A p \in Pmaps \ {q} : pte'[p] = pte[p]
      BY <1>1, <1>2, <3>1, <3>2, Zenon
    <3> QED
      BY <1>2, <2>7, <2>9, <3>3, <3>4, Zenon
  <2> QED
    BY <2>8, <2>9, Zenon
<1> QED
  BY <1>5, <1>6, Zenon

\* Processors that were asked to update their TLBs remain so.
LEMMA AskedOther ==
    ASSUME Types, LockHeld, SystemLock, ClearsItsPage, Writing, NEW c \in Cpus, Steps(c),
           NEW d \in Cpus \ {c}, NEW p \in Pmaps, Asked(d, p)
    PROVE  Asked(d, p)' /\ pc'[d] = pc[d]
<1>1. pc'[d] = pc[d] /\ tlb'[d] = tlb[d] /\ (d \in interrupt => d \in interrupt')
  BY StepPc, StepHome, StepLists, Zenon DEF PcFrame, HomeFrame, ListFrame
<1>2. Requested(d, p) => Requested(d, p)'
  BY StepLists, Zenon DEF ListFrame
<1> QED
  BY <1>1, <1>2, Zenon DEF Asked

\* A processor that was asked stays so through its own steps, while another
\* holds the pmap's lock: it spins on that lock before it takes its requests.
LEMMA AskedOwn ==
    ASSUME Types, LockHeld, SystemLock, ClearsItsPage, Writing, SetsMatch, NEW c \in Cpus,
           Steps(c),
           NEW p \in Pmaps, NEW h \in Cpus \ {c}, lock[p] = h, c \in cpus_using[p],
           Asked(c, p)
    PROVE  Asked(c, p)' /\ pc'[c] # "write"
<1> DEFINE Goal == Asked(c, p)' /\ pc'[c] # "write"
<1> SUFFICES Goal
  OBVIOUS
<1> USE DEF Move, Goto, requests
<1>t. pc \in [Cpus -> Stages] /\ tlb \in [Cpus -> [Pmaps -> Pte \cup {NoPte}]] /\ EmptyTlb[p] = NoPte
      /\ None \notin Cpus
  BY EmptyTlbType, PmapAssumption, Zenon DEF Types
<1>z. \A i : i \notin DOMAIN <<>>
  BY SMTT(30)
<1>a. Requested(c, p) \/ tlb[c][p] = NoPte
  BY Zenon DEF Asked
<1>i. pc[c] \notin {"spin_my", "spin_kernel", "idling", "idle", "waking"} => c \in interrupt
  BY Zenon DEF Asked
<1>u. update_list' = update_list => (Requested(c, p)' <=> Requested(c, p))
  BY Zenon DEF Requested
<1>g. c \in interrupt /\ c \in interrupt' /\ pc'[c] \notin Idle \cup {"write"}
          /\ (Requested(c, p) => Requested(c, p)') /\ (tlb[c][p] = NoPte => tlb'[c][p] = NoPte) => Goal
  BY <1>a, Zenon DEF Asked
<1>f. c \in interrupt /\ c \in interrupt' /\ pc'[c] \notin Idle \cup {"write"} /\ tlb'[c][p] = NoPte => Goal
  BY Zenon DEF Asked
<1>s. pc'[c] = "spin_my" /\ update_list' = update_list /\ tlb' = tlb => Goal
  BY <1>a, <1>u, Zenon DEF Asked
<1>w. pc[c] \in {"idling", "idle", "waking"} /\ c \notin interrupt => Requested(c, p)
  BY Zenon DEF Asked
<1>r. Requested(c, p) /\ pc'[c] \in {"idling", "idle", "waking"} /\ update_list' = update_list => Goal
  BY <1>u, Zenon DEF Asked
<1>d. pc[c] \in Idle => Requested(c, p)
  BY Zenon DEF Asked, Idle
<1>e. p = kernel_pmap \/ (dirbase[c] = p /\ MyPmap(c) = p)
  BY Zenon DEF SetsMatch, SetsAt, MyPmap
<1> HIDE DEF Goal
<1>1. CASE Enters(c)
  BY <1>1, <1>i, Zenon DEF Enters, Call
<1>2. CASE Moves(c)
  <2>1. CASE MARK_CPU_IDLE(c)
    BY <2>1, <1>i, Zenon DEF MARK_CPU_IDLE
  <2>2. CASE MARK_CPU_ACTIVE(c)
    BY <2>2, <1>t, <1>r, <1>d, Zenon DEF MARK_CPU_ACTIVE, Idle
  <2>3. CASE launch(c)
    BY <2>3, <1>t, <1>i, <1>u, <1>g, Zenon DEF launch, Idle
  <2>4. CASE SPLX(c)
    BY <2>4, <1>t, <1>i, <1>u, <1>g, Zenon DEF SPLX, Idle
  <2>5. CASE spin_my(c)
    <3>1. CASE c \in interrupt
      BY <2>5, <1>t, <1>u, <1>g, <3>1, Zenon DEF spin_my, Idle
    <3>2. CASE p # kernel_pmap
      BY <2>5, <1>t, <1>e, <3>2, Zenon DEF spin_my
    <3>3. CASE p = kernel_pmap
      <4>1. pc'[c] = "spin_kernel" /\ tlb' = tlb /\ update_list' = update_list
        BY <2>5, <1>t, Zenon DEF spin_my
      <4> QED
        BY <1>a, <1>u, <3>3, <4>1, Zenon DEF Goal, Asked
    <3> QED
      BY <3>2, <3>3, Zenon
  <2>6. CASE spin_kernel(c)
    <3>1. CASE c \in interrupt
      BY <2>6, <1>t, <1>u, <1>g, <3>1, Zenon DEF spin_kernel, Idle
    <3>2. CASE c \notin interrupt
      <4>1. p = kernel_pmap
        BY <2>6, <3>2, Zenon DEF spin_kernel, Asked
      <4> QED
        BY <2>6, <1>t, <1>s, <4>1, Zenon DEF spin_kernel
    <3> QED
      BY <3>1, <3>2, Zenon
  <2>7. CASE set_active(c)
    BY <2>7, <1>t, <1>i, <1>u, <1>g, Zenon DEF set_active, Idle
  <2>8. CASE update_again(c)
    BY <2>8, <1>t, <1>s, Zenon DEF update_again, Interrupted
  <2>9. CASE interrupt_return(c)
    BY <2>9, <1>t, <1>i, <1>u, <1>g, Zenon DEF interrupt_return, Idle
  <2>10. CASE switch_to_user(c)
    BY <2>10, <1>t, <1>i, <1>u, <1>g, Zenon DEF switch_to_user, Idle
  <2>11. CASE idle(c)
    BY <2>11, <1>t, <1>r, <1>d, Zenon DEF idle, Idle
  <2>12. CASE wake_update(c)
    BY <2>12, <1>t, <1>s, Zenon DEF wake_update, Interrupted
  <2>13. CASE wake(c)
    <3>1. ~Requested(c, p)
      BY <2>13, <1>z, Zenon DEF wake, cpu_update_needed, Requested
    <3>2. c \in interrupt
      BY <2>13, <1>w, <3>1, Zenon DEF wake
    <3> QED
      BY <2>13, <1>t, <1>u, <1>g, <3>2, Zenon DEF wake, Idle
  <2>14. CASE wake_active(c)
    BY <2>14, <1>t, <1>i, <1>u, <1>g, Zenon DEF wake_active, Idle
  <2> QED
    BY <1>2, <2>1, <2>2, <2>3, <2>4, <2>5, <2>6, <2>7, <2>8, <2>9, <2>10, <2>11, <2>12,
       <2>13, <2>14, Zenon DEF Moves
<1>3. CASE Changes(c)
  <2>1. pc[c] = "change" /\ pc'[c] = "unlock" /\ interrupt' = interrupt /\ update_list' = update_list /\ tlb' = tlb
    BY <1>3, <1>t, ChangesEdit, Zenon DEF Edits
  <2> QED
    BY <1>i, <1>u, <1>g, <2>1, Zenon DEF Idle
<1>4. ASSUME NEW q \in Pmaps, tlb_load(c, q) PROVE Goal
  BY <1>4, <1>i, Zenon DEF tlb_load
<1>5. ASSUME NEW q \in Pmaps, write_start(c, q) PROVE Goal
  BY <1>5, <1>i, Zenon DEF write_start
<1>6. ASSUME NEW q \in Pmaps, switch_context(c, q) PROVE Goal
  BY <1>6, <1>i, Zenon DEF switch_context
<1>7. ASSUME NEW q \in Pmaps, next_mapping(c, q) PROVE Goal
  BY <1>7, <1>t, <1>i, <1>u, <1>g, Zenon DEF next_mapping, Idle
<1>8. ASSUME NEW q \in Pmaps, launched(c, q) PROVE Goal
  BY <1>8, <1>t, <1>i, <1>u, <1>g, Zenon DEF launched, Idle
<1>9. ASSUME NEW d \in Cpus, signal_queue(c, d) PROVE Goal
  <2>1. Requested(c, p) => Requested(c, p)'
    <3>1. PICK l : l = Queue(update_list[d], op[c].pmap)
      OBVIOUS
    <3>2. op[c].pmap \in Pmaps /\ update_list \in [Cpus -> Seq(Pmaps)]
      BY OpType, Zenon DEF Types
    <3>3. \A q \in Pmaps : (\E i \in DOMAIN update_list[d] : update_list[d][i] \in {q, kernel_pmap})
              => \E i \in DOMAIN l : l[i] \in {q, kernel_pmap}
      BY <3>1, <3>2, Queued, Zenon
    <3>4. update_list' = [update_list EXCEPT ![d] = l]
      BY <1>9, <3>1, Zenon DEF signal_queue
    <3> QED
      BY <3>2, <3>3, <3>4, Zenon DEF Requested
  <2>2. pc[c] = "update" /\ pc'[c] = "signal" /\ interrupt' = interrupt /\ tlb' = tlb
    BY <1>9, <1>t, Zenon DEF signal_queue
  <2> QED
    BY <1>i, <1>g, <2>1, <2>2, Zenon DEF Idle
<1>10. CASE PMAP_DEACTIVATE_KERNEL(c)
  BY <1>10, <1>i, Zenon DEF PMAP_DEACTIVATE_KERNEL
<1>11. CASE write_end(c)
  <2>1. PICK q : q = op[c].target
    OBVIOUS
  <2>2. pc[c] = "write" /\ pc'[c] = "run" /\ interrupt' = interrupt /\ update_list' = update_list
    BY <1>11, <1>t, Zenon DEF write_end
  <2>3. tlb[c][q] # NoPte
    BY <1>11, <2>1, WriteEffect, ZenonT(60)
  <2>4. \A r \in Pmaps \ {q} : tlb'[c][r] = tlb[c][r] /\ pte'[r] = pte[r]
    BY <1>11, <2>1, WriteEffect, Zenon
  <2>7. p # q => tlb'[c][p] = tlb[c][p]
    BY <2>4, Zenon
  <2> QED
    BY <1>i, <1>u, <1>g, <2>2, <2>3, <2>7, Zenon DEF Idle
<1>12. CASE lock_read(c)
  BY <1>12, <1>t, <1>i, <1>u, <1>g, Zenon DEF lock_read, Idle
<1>13. CASE want_write(c)
  BY <1>13, <1>t, <1>i, <1>u, <1>g, Zenon DEF want_write, Idle
<1>14. CASE lock_write(c)
  BY <1>14, <1>t, <1>i, <1>u, <1>g, Zenon DEF lock_write, Idle
<1>15. CASE lock_write_done(c)
  BY <1>15, <1>t, <1>i, <1>u, <1>g, Zenon DEF lock_write_done, Idle
<1>16. CASE simple_lock(c)
  BY <1>16, <1>t, <1>i, <1>u, <1>g, Zenon DEF simple_lock, AfterLock, Idle
<1>17. CASE simple_unlock(c)
  BY <1>17, <1>t, <1>i, <1>u, <1>g, Zenon DEF simple_unlock, Idle
<1>18. CASE signal_check(c)
  BY <1>18, <1>t, <1>i, <1>u, <1>g, Zenon DEF signal_check, Idle
<1>19. CASE signal_interrupt(c)
  BY <1>19, <1>t, <1>i, <1>u, <1>g, Zenon DEF signal_interrupt, Idle
<1>20. CASE update_wait(c)
  <2>1. tlb' = tlb \/ tlb' = [tlb EXCEPT ![c] = EmptyTlb]
    BY <1>20, Zenon DEF update_wait, flush_tlb
  <2>2. pc[c] = "update" /\ pc'[c] = "change" /\ interrupt' = interrupt /\ update_list' = update_list
    BY <1>20, <1>t, Zenon DEF update_wait
  <2>3. tlb[c][p] = NoPte => tlb'[c][p] = NoPte
    BY <1>t, <2>1, Zenon
  <2> QED
    BY <1>i, <1>u, <1>g, <2>2, <2>3, Zenon DEF Idle
<1>21. CASE change_wired(c)
  BY <1>21, <1>t, <1>i, <1>u, <1>g, Zenon DEF change_wired, Idle
<1>22. CASE pmap_update_interrupt(c)
  BY <1>22, <1>t, <1>s, Zenon DEF pmap_update_interrupt, Interrupted
<1>23. CASE idle_interrupt(c)
  BY <1>23, <1>t, <1>d, <1>r, Zenon DEF idle_interrupt, Idle, maps
<1>24. CASE process_updates(c)
  <2>1. pc[c] = "process" /\ pc'[c] = "activate" /\ interrupt' = interrupt
    BY <1>24, <1>t, Zenon DEF process_updates
  <2>2. CASE Requested(c, MyPmap(c))
    <3>1. tlb'[c][p] = NoPte
      BY <1>24, <1>t, <2>2, Zenon DEF process_updates, process_pmap_updates, flush_tlb
    <3> QED
      BY <1>i, <1>f, <2>1, <3>1, Zenon DEF Idle
  <2>3. CASE ~Requested(c, MyPmap(c))
    <3>1. ~Requested(c, p)
      BY <1>e, <2>3, Zenon DEF Requested
    <3>2. tlb' = tlb
      BY <1>24, <2>3, Zenon DEF process_updates, process_pmap_updates
    <3> QED
      BY <1>i, <1>g, <2>1, <3>1, <3>2, Zenon DEF Idle
  <2> QED
    BY <2>2, <2>3, Zenon
<1>25. CASE switch_to_kernel(c)
  BY <1>25, <1>t, <1>i, <1>f, Zenon DEF switch_to_kernel, set_dirbase, flush_tlb, Idle
<1>26. CASE PMAP_ACTIVATE_USER(c)
  BY <1>26, <1>t, <1>i, <1>f, Zenon DEF PMAP_ACTIVATE_USER, set_dirbase, flush_tlb, Idle
<1>27. CASE user_activated(c)
  BY <1>27, <1>t, <1>i, <1>u, <1>g, Zenon DEF user_activated, Idle
<1>28. CASE PMAP_ACTIVATE_KERNEL(c)
  <2>1. pc[c] = "launch" /\ SetsAt(c)
    BY <1>28, Zenon DEF PMAP_ACTIVATE_KERNEL, SetsMatch
  <2>2. p # kernel_pmap /\ dirbase[c] = kernel_pmap
    BY <2>1, Zenon DEF SetsAt
  <2> QED
    BY <1>e, <2>2, Zenon
<1> QED
  BY <1>1, <1>2, <1>3, <1>4, <1>5, <1>6, <1>7, <1>8, <1>9, <1>10, <1>11, <1>12, <1>13, <1>14,
     <1>15, <1>16, <1>17, <1>18, <1>19, <1>20, <1>21, <1>22, <1>23, <1>24, <1>25, <1>26, <1>27,
     <1>28, Zenon DEF Steps

\* Nobody starts to use a pmap that is locked.
LEMMA NoNewUser ==
    ASSUME Types, LockHeld, SystemLock, ClearsItsPage, Writing, NEW c \in Cpus, Steps(c),
           NEW p \in Pmaps, NEW h \in Cpus \ {c}, lock[p] = h,
           NEW d \in Cpus, d \in cpus_using'[p]
    PROVE  d \in cpus_using[p]
<1>t. /\ cpus_using \in [Pmaps -> SUBSET Cpus] /\ dirbase \in [Cpus -> Pmaps] /\ kernel_pmap \in Pmaps
      /\ None \notin Cpus /\ op[c].pmap \in Pmaps
  BY OpType, PmapAssumption, Zenon DEF Types
<1>1. CASE d # c
  BY <1>1, StepSets, Zenon DEF SetFrame
<1>2. CASE d = c
  <2> DEFINE Goal == d \in cpus_using[p]
  <2> SUFFICES Goal
    OBVIOUS
  <2> USE DEF sets
  <2>g. cpus_using' = cpus_using => Goal
    OBVIOUS
  <2> HIDE DEF Goal
  <2>1. CASE Enters(c)
    BY <2>1, <2>g, Zenon DEF Enters, Call
  <2>2. CASE Moves(c)
    BY <2>2, MovesStand, <2>g, Zenon DEF Stands
  <2>3. CASE Changes(c)
    BY <2>3, ChangesEdit, <2>g, Zenon DEF Edits
  <2>4. ASSUME NEW q \in Pmaps, tlb_load(c, q) PROVE Goal
    BY <2>4, <2>g, Zenon DEF tlb_load
  <2>5. ASSUME NEW q \in Pmaps, write_start(c, q) PROVE Goal
    BY <2>5, <2>g, Zenon DEF write_start
  <2>6. ASSUME NEW q \in Pmaps, switch_context(c, q) PROVE Goal
    <3>1. cpus_using'[p] \subseteq cpus_using[p]
      BY <2>6, <1>t, Zenon DEF switch_context
    <3> QED
      BY <3>1, Zenon DEF Goal
  <2>7. ASSUME NEW q \in Pmaps, next_mapping(c, q) PROVE Goal
    BY <2>7, <2>g, Zenon DEF next_mapping
  <2>8. ASSUME NEW q \in Pmaps, launched(c, q) PROVE Goal
    BY <2>8, <2>g, Zenon DEF launched
  <2>9. ASSUME NEW e \in Cpus, signal_queue(c, e) PROVE Goal
    BY <2>9, <2>g, Zenon DEF signal_queue
  <2>10. CASE PMAP_DEACTIVATE_KERNEL(c)
    <3>1. cpus_using'[p] \subseteq cpus_using[p]
      BY <2>10, <1>t, Zenon DEF PMAP_DEACTIVATE_KERNEL
    <3> QED
      BY <3>1, Zenon DEF Goal
  <2>11. CASE write_end(c)
    BY <2>11, <2>g, Zenon DEF write_end
  <2>12. CASE lock_read(c)
    BY <2>12, <2>g, Zenon DEF lock_read
  <2>13. CASE want_write(c)
    BY <2>13, <2>g, Zenon DEF want_write
  <2>14. CASE lock_write(c)
    BY <2>14, <2>g, Zenon DEF lock_write
  <2>15. CASE lock_write_done(c)
    BY <2>15, <2>g, Zenon DEF lock_write_done
  <2>16. CASE simple_lock(c)
    BY <2>16, <2>g, Zenon DEF simple_lock
  <2>17. CASE simple_unlock(c)
    BY <2>17, <2>g, Zenon DEF simple_unlock
  <2>18. CASE signal_check(c)
    BY <2>18, <2>g, Zenon DEF signal_check
  <2>19. CASE signal_interrupt(c)
    BY <2>19, <2>g, Zenon DEF signal_interrupt
  <2>20. CASE update_wait(c)
    BY <2>20, <2>g, Zenon DEF update_wait, flush_tlb
  <2>21. CASE change_wired(c)
    BY <2>21, <2>g, Zenon DEF change_wired
  <2>22. CASE pmap_update_interrupt(c)
    BY <2>22, <2>g, Zenon DEF pmap_update_interrupt, Interrupted
  <2>23. CASE idle_interrupt(c)
    BY <2>23, <2>g, Zenon DEF idle_interrupt
  <2>24. CASE process_updates(c)
    BY <2>24, <2>g, Zenon DEF process_updates, process_pmap_updates, flush_tlb
  <2>25. CASE switch_to_kernel(c)
    BY <2>25, <2>g, Zenon DEF switch_to_kernel, set_dirbase, flush_tlb
  <2>26. CASE PMAP_ACTIVATE_USER(c)
    <3>1. lock[op[c].pmap] = None /\ cpus_using' = [cpus_using EXCEPT ![op[c].pmap] = @ \cup {c}]
      BY <2>26, Zenon DEF PMAP_ACTIVATE_USER
    <3>2. p # op[c].pmap
      BY <1>t, <3>1, Zenon
    <3>3. cpus_using'[p] = cpus_using[p]
      BY <1>t, <3>1, <3>2, Zenon
    <3> QED
      BY <3>3, Zenon DEF Goal
  <2>27. CASE user_activated(c)
    BY <2>27, <2>g, Zenon DEF user_activated
  <2>28. CASE PMAP_ACTIVATE_KERNEL(c)
    <3>1. lock[kernel_pmap] = None /\ cpus_using' = [cpus_using EXCEPT ![kernel_pmap] = @ \cup {c}]
      BY <2>28, Zenon DEF PMAP_ACTIVATE_KERNEL
    <3>2. p # kernel_pmap
      BY <1>t, <3>1, Zenon
    <3>3. cpus_using'[p] = cpus_using[p]
      BY <1>t, <3>1, <3>2, Zenon
    <3> QED
      BY <3>3, Zenon DEF Goal
  <2> QED
    BY <2>1, <2>2, <2>3, <2>4, <2>5, <2>6, <2>7, <2>8, <2>9, <2>10, <2>11, <2>12, <2>13, <2>14,
       <2>15, <2>16, <2>17, <2>18, <2>19, <2>20, <2>21, <2>22, <2>23, <2>24, <2>25, <2>26,
       <2>27, <2>28, Zenon DEF Steps
<1> QED
  BY <1>1, <1>2, Zenon

\* Only pmap_update_interrupt, or starting again, takes requests from the list.
LEMMA RequestStays ==
    ASSUME Types, LockHeld, SystemLock, ClearsItsPage, Writing, NEW c \in Cpus, Steps(c),
           NEW p \in Pmaps, Requested(c, p), ~process_updates(c), ~PMAP_ACTIVATE_KERNEL(c)
    PROVE  Requested(c, p)'
<1> DEFINE Goal == Requested(c, p)'
<1> SUFFICES Goal
  OBVIOUS
<1> USE DEF requests
<1>u. update_list' = update_list => Goal
  BY Zenon DEF Requested
<1> HIDE DEF Goal
<1>1. CASE Enters(c)
  BY <1>1, <1>u, Zenon DEF Enters, Call
<1>2. CASE Moves(c)
  BY <1>2, MovesStand, <1>u, Zenon DEF Stands
<1>3. CASE Changes(c)
  BY <1>3, ChangesEdit, <1>u, Zenon DEF Edits
<1>4. ASSUME NEW q \in Pmaps, tlb_load(c, q) PROVE Goal
  BY <1>4, <1>u, Zenon DEF tlb_load
<1>5. ASSUME NEW q \in Pmaps, write_start(c, q) PROVE Goal
  BY <1>5, <1>u, Zenon DEF write_start
<1>6. ASSUME NEW q \in Pmaps, switch_context(c, q) PROVE Goal
  BY <1>6, <1>u, Zenon DEF switch_context
<1>7. ASSUME NEW q \in Pmaps, next_mapping(c, q) PROVE Goal
  BY <1>7, <1>u, Zenon DEF next_mapping
<1>8. ASSUME NEW q \in Pmaps, launched(c, q) PROVE Goal
  BY <1>8, <1>u, Zenon DEF launched
<1>9. ASSUME NEW e \in Cpus, signal_queue(c, e) PROVE Goal
  <2>1. PICK l : l = Queue(update_list[e], op[c].pmap)
    OBVIOUS
  <2>2. op[c].pmap \in Pmaps /\ update_list \in [Cpus -> Seq(Pmaps)]
    BY OpType, Zenon DEF Types
  <2>3. \A q \in Pmaps : (\E i \in DOMAIN update_list[e] : update_list[e][i] \in {q, kernel_pmap})
            => \E i \in DOMAIN l : l[i] \in {q, kernel_pmap}
    BY <2>1, <2>2, Queued, Zenon
  <2>4. update_list' = [update_list EXCEPT ![e] = l]
    BY <1>9, <2>1, Zenon DEF signal_queue
  <2> QED
    BY <2>2, <2>3, <2>4, Zenon DEF Requested, Goal
<1>10. CASE PMAP_DEACTIVATE_KERNEL(c)
  BY <1>10, <1>u, Zenon DEF PMAP_DEACTIVATE_KERNEL
<1>11. CASE write_end(c)
  BY <1>11, <1>u, Zenon DEF write_end
<1>12. CASE lock_read(c)
  BY <1>12, <1>u, Zenon DEF lock_read
<1>13. CASE want_write(c)
  BY <1>13, <1>u, Zenon DEF want_write
<1>14. CASE lock_write(c)
  BY <1>14, <1>u, Zenon DEF lock_write
<1>15. CASE lock_write_done(c)
  BY <1>15, <1>u, Zenon DEF lock_write_done
<1>16. CASE simple_lock(c)
  BY <1>16, <1>u, Zenon DEF simple_lock
<1>17. CASE simple_unlock(c)
  BY <1>17, <1>u, Zenon DEF simple_unlock
<1>18. CASE signal_check(c)
  BY <1>18, <1>u, Zenon DEF signal_check
<1>19. CASE signal_interrupt(c)
  BY <1>19, <1>u, Zenon DEF signal_interrupt
<1>20. CASE update_wait(c)
  BY <1>20, <1>u, Zenon DEF update_wait, flush_tlb
<1>21. CASE change_wired(c)
  BY <1>21, <1>u, Zenon DEF change_wired
<1>22. CASE pmap_update_interrupt(c)
  BY <1>22, <1>u, Zenon DEF pmap_update_interrupt, Interrupted
<1>23. CASE idle_interrupt(c)
  BY <1>23, <1>u, Zenon DEF idle_interrupt
<1>24. CASE process_updates(c)
  BY <1>24, Zenon
<1>25. CASE switch_to_kernel(c)
  BY <1>25, <1>u, Zenon DEF switch_to_kernel, set_dirbase, flush_tlb
<1>26. CASE PMAP_ACTIVATE_USER(c)
  BY <1>26, <1>u, Zenon DEF PMAP_ACTIVATE_USER, set_dirbase, flush_tlb
<1>27. CASE user_activated(c)
  BY <1>27, <1>u, Zenon DEF user_activated
<1>28. CASE PMAP_ACTIVATE_KERNEL(c)
  BY <1>28, Zenon
<1> QED
  BY <1>1, <1>2, <1>3, <1>4, <1>5, <1>6, <1>7, <1>8, <1>9, <1>10, <1>11, <1>12, <1>13, <1>14,
     <1>15, <1>16, <1>17, <1>18, <1>19, <1>20, <1>21, <1>22, <1>23, <1>24, <1>25, <1>26, <1>27,
     <1>28, Zenon DEF Steps

\* Whoever was asked is, after a step of c that is not the lock's holder.
LEMMA AskedStays ==
    ASSUME Types, LockHeld, SystemLock, ClearsItsPage, Writing, SetsMatch, NEW c \in Cpus,
           Steps(c),
           NEW p \in Pmaps, NEW h \in Cpus \ {c}, lock[p] = h,
           NEW d \in Cpus, d \in cpus_using[p], Asked(d, p)
    PROVE  Asked(d, p)' /\ (pc[d] # "write" => pc'[d] # "write")
<1>1. CASE d = c
  BY <1>1, AskedOwn, Zenon
<1>2. CASE d # c
  BY <1>2, AskedOther, Zenon
<1> QED
  BY <1>1, <1>2, Zenon

\* The signals of c, after a step of its own.
LEMMA OwnSignals ==
    ASSUME Types, LockHeld, SystemLock, ClearsItsPage, Writing, SetsMatch, NEW c \in Cpus,
           Steps(c),
           \A d \in Cpus : SignalAt(c, d), NEW d \in Cpus
    PROVE  SignalAt(c, d)'
<1> DEFINE Goal == SignalAt(c, d)'
<1> SUFFICES ASSUME pc'[c] \in {"update", "signal", "send"}, d # c, d \in cpus_using'[op'[c].pmap] PROVE Goal
  BY Zenon DEF SignalAt
<1> USE DEF Move, Goto, sets, requests
<1>t. pc \in [Cpus -> Stages] /\ op[c].pmap \in Pmaps /\ users \in [Cpus -> SUBSET Cpus] /\ op[c] \in Operations
  BY OpType, Zenon DEF Types
<1>k. Starts(c) \/ op'[c].pmap = op[c].pmap
  BY StepJob, Zenon DEF Kept, SameJob
<1>p. PICK p : p = op[c].pmap
  OBVIOUS
<1>a. /\ pc[c] \in {"update", "signal", "send"} /\ d \in cpus_using[p]
         => d \in users[c] \/ (pc[c] \in {"signal", "send"} /\ d = op[c].target /\ Requested(d, p)) \/ Asked(d, p)
  BY <1>p, Zenon DEF SignalAt
<1>o. Asked(d, p) => Asked(d, p)'
  BY <1>p, <1>t, AskedOther, Zenon
<1>r. Requested(d, p) => Requested(d, p)'
  BY <1>p, <1>t, StepLists, Zenon DEF ListFrame
<1>g1. op'[c].pmap = p /\ d \in users'[c] => Goal
  BY Zenon DEF SignalAt
<1>g2. op'[c].pmap = p /\ pc'[c] \in {"signal", "send"} /\ d = op'[c].target /\ Requested(d, p)' => Goal
  BY Zenon DEF SignalAt
<1>g3. op'[c].pmap = p /\ Asked(d, p)' => Goal
  BY Zenon DEF SignalAt
<1> HIDE DEF Goal
<1>1. CASE Enters(c)
  BY <1>1, <1>t, ZenonT(60) DEF Enters, Call, Begins
<1>2. CASE Moves(c)
  BY <1>2, MovesAway, Zenon DEF Elsewhere
<1>3. CASE Changes(c)
  BY <1>3, <1>t, ChangesEdit, Zenon DEF Edits
<1>4. ASSUME NEW q \in Pmaps, tlb_load(c, q) PROVE Goal
  BY <1>4, <1>t, Zenon DEF tlb_load, maps
<1>5. ASSUME NEW q \in Pmaps, write_start(c, q) PROVE Goal
  BY <1>5, <1>t, Zenon DEF write_start
<1>6. ASSUME NEW q \in Pmaps, switch_context(c, q) PROVE Goal
  BY <1>6, <1>t, Zenon DEF switch_context
<1>7. ASSUME NEW q \in Pmaps, next_mapping(c, q) PROVE Goal
  BY <1>7, <1>t, Zenon DEF next_mapping
<1>8. ASSUME NEW q \in Pmaps, launched(c, q) PROVE Goal
  BY <1>8, <1>t, Zenon DEF launched
<1>9. ASSUME NEW x \in Cpus, signal_queue(c, x) PROVE Goal
  <2>1. pc[c] = "update" /\ pc'[c] = "signal" /\ cpus_using' = cpus_using /\ users'[c] = users[c] \ {x}
    BY <1>9, <1>t, Zenon DEF signal_queue
  <2>2. op'[c].pmap = p /\ op'[c].target = x
    BY <1>9, <1>p, NewTarget, Zenon DEF signal_queue
  <2>3. CASE d = x
    <3>1. PICK l : l = Queue(update_list[x], p)
      OBVIOUS
    <3>2. p \in Pmaps /\ update_list \in [Cpus -> Seq(Pmaps)]
      BY <1>p, <1>t, Zenon DEF Types
    <3>3. \E i \in DOMAIN l : l[i] \in {p, kernel_pmap}
      BY <3>1, <3>2, Queued, Zenon
    <3>4. update_list'[x] = l
      BY <1>9, <1>p, <3>1, <3>2, Zenon DEF signal_queue
    <3>5. Requested(d, p)'
      BY <2>3, <3>3, <3>4, Zenon DEF Requested
    <3> QED
      BY <1>g2, <2>1, <2>2, <2>3, <3>5, Zenon
  <2>4. CASE d # x
    BY <1>a, <1>o, <1>g1, <1>g3, <2>1, <2>2, <2>4, Zenon
  <2> QED
    BY <2>3, <2>4, Zenon
<1>10. CASE PMAP_DEACTIVATE_KERNEL(c)
  BY <1>10, <1>t, Zenon DEF PMAP_DEACTIVATE_KERNEL
<1>11. CASE write_end(c)
  BY <1>11, <1>t, Zenon DEF write_end
<1>12. CASE lock_read(c)
  BY <1>12, <1>t, Zenon DEF lock_read
<1>13. CASE want_write(c)
  BY <1>13, <1>t, Zenon DEF want_write
<1>14. CASE lock_write(c)
  BY <1>14, <1>t, Zenon DEF lock_write
<1>15. CASE lock_write_done(c)
  BY <1>15, <1>t, Zenon DEF lock_write_done
<1>16. CASE simple_lock(c)
  <2>1. pc'[c] = AfterLock(op[c]) /\ cpus_using' = cpus_using /\ pc[c] = "lock"
    BY <1>16, <1>t, Zenon DEF simple_lock
  <2>2. AfterLock(op[c]) = "update"
    BY <2>1, Zenon DEF AfterLock
  <2>3. users'[c] = cpus_using[p] \ {c}
    BY <1>16, <1>p, <1>t, <2>2, Zenon DEF simple_lock
  <2>4. op'[c].pmap = p
    BY <1>p, <1>k, <2>1, Zenon DEF Starts
  <2> QED
    BY <1>g1, <2>1, <2>3, <2>4, Zenon
<1>17. CASE simple_unlock(c)
  BY <1>17, <1>t, Zenon DEF simple_unlock
<1>18. CASE signal_check(c)
  <2>1. pc[c] = "signal" /\ cpus_using' = cpus_using /\ users' = users
    BY <1>18, Zenon DEF signal_check
  <2>2. op'[c].pmap = p
    BY <1>p, <1>k, <2>1, Zenon DEF Starts
  <2>3. CASE d \in users[c]
    BY <1>g1, <2>1, <2>2, <2>3, Zenon
  <2>4. CASE Asked(d, p)
    BY <1>o, <1>g3, <2>2, <2>4, Zenon
  <2>5. CASE d = op[c].target /\ Requested(d, p)
    <3>1. CASE d \in cpus_idle
      <4>1. pc[d] \in Idle
        BY <3>1, Zenon DEF SetsMatch, SetsAt
      <4>2. Asked(d, p)
        BY <2>5, <4>1, Zenon DEF Asked, Idle
      <4> QED
        BY <1>o, <1>g3, <2>2, <4>2, Zenon
    <3>2. CASE d \notin cpus_idle
      <4>1. pc'[c] = "send"
        BY <1>18, <1>t, <2>5, <3>2, Zenon DEF signal_check
      <4>2. op' = [op EXCEPT ![c].target = d]
        BY <1>18, <2>5, <3>2, Zenon DEF signal_check
      <4>3. op'[c].target = d
        BY <4>2, NewTarget, Zenon
      <4> QED
        BY <1>g2, <1>r, <2>2, <2>5, <4>1, <4>3, Zenon
    <3> QED
      BY <3>1, <3>2, Zenon
  <2> QED
    BY <1>p, <1>a, <2>1, <2>2, <2>3, <2>4, <2>5, Zenon
<1>19. CASE signal_interrupt(c)
  <2>1. /\ pc[c] = "send" /\ cpus_using' = cpus_using /\ users' = users /\ update_list' = update_list /\ tlb' = tlb
        /\ interrupt' = interrupt \cup {op[c].target} /\ pc' = [pc EXCEPT ![c] = "update"]
    BY <1>19, Zenon DEF signal_interrupt
  <2>2. op'[c].pmap = p
    BY <1>p, <1>k, <2>1, Zenon DEF Starts
  <2>3. CASE d \in users[c]
    BY <1>g1, <2>1, <2>2, <2>3, Zenon
  <2>4. CASE Asked(d, p)
    BY <1>o, <1>g3, <2>2, <2>4, Zenon
  <2>5. CASE d = op[c].target /\ Requested(d, p)
    <3>1. d \in interrupt' /\ pc'[d] = pc[d] /\ Requested(d, p)'
      BY <1>t, <1>r, <2>1, <2>5, Zenon
    <3>2. Asked(d, p)'
      BY <3>1, Zenon DEF Asked, Idle
    <3> QED
      BY <1>g3, <2>2, <3>2, Zenon
  <2> QED
    BY <1>p, <1>a, <2>1, <2>2, <2>3, <2>4, <2>5, Zenon
<1>20. CASE update_wait(c)
  BY <1>20, <1>t, Zenon DEF update_wait, flush_tlb
<1>21. CASE change_wired(c)
  BY <1>21, <1>t, Zenon DEF change_wired
<1>22. CASE pmap_update_interrupt(c)
  BY <1>22, <1>t, Zenon DEF pmap_update_interrupt, Interrupted
<1>23. CASE idle_interrupt(c)
  BY <1>23, <1>t, Zenon DEF idle_interrupt
<1>24. CASE process_updates(c)
  BY <1>24, <1>t, Zenon DEF process_updates, process_pmap_updates, flush_tlb
<1>25. CASE switch_to_kernel(c)
  BY <1>25, <1>t, Zenon DEF switch_to_kernel, set_dirbase, flush_tlb
<1>26. CASE PMAP_ACTIVATE_USER(c)
  BY <1>26, <1>t, Zenon DEF PMAP_ACTIVATE_USER, set_dirbase, flush_tlb
<1>27. CASE user_activated(c)
  BY <1>27, <1>t, Zenon DEF user_activated
<1>28. CASE PMAP_ACTIVATE_KERNEL(c)
  BY <1>28, <1>t, Zenon DEF PMAP_ACTIVATE_KERNEL, process_pmap_updates, flush_tlb
<1> QED
  BY <1>1, <1>2, <1>3, <1>4, <1>5, <1>6, <1>7, <1>8, <1>9, <1>10, <1>11, <1>12, <1>13, <1>14,
     <1>15, <1>16, <1>17, <1>18, <1>19, <1>20, <1>21, <1>22, <1>23, <1>24, <1>25, <1>26, <1>27,
     <1>28, Zenon DEF Steps

\* Every step keeps the signals of PMAP_UPDATE_TLBS.
LEMMA SignallingKept ==
    ASSUME Types, LockHeld, SystemLock, ClearsItsPage, Writing, SetsMatch, NEW c \in Cpus,
           Steps(c), Signalling
    PROVE  Signalling'
<1> SUFFICES ASSUME ~early', NEW a \in Cpus, NEW d \in Cpus PROVE SignalAt(a, d)'
  BY Zenon DEF Signalling
<1>1. \A x, y \in Cpus : SignalAt(x, y)
  BY StepSets, Zenon DEF Signalling, SetFrame
<1>2. CASE a = c
  BY <1>1, <1>2, OwnSignals, Zenon
<1>3. CASE a # c
  <2>1. pc'[a] = pc[a] /\ op'[a] = op[a] /\ users'[a] = users[a]
    BY <1>3, StepPc, StepOp, StepHome, Zenon DEF PcFrame, OpFrame, HomeFrame
  <2>2. PICK p : p = op[a].pmap
    OBVIOUS
  <2> SUFFICES ASSUME pc[a] \in {"update", "signal", "send"}, d # a, d \in cpus_using'[p]
               PROVE  \/ d \in users[a]
                      \/ pc[a] \in {"signal", "send"} /\ d = op[a].target /\ Requested(d, p)'
                      \/ Asked(d, p)'
    BY <2>1, <2>2, Zenon DEF SignalAt
  <2>3. p \in Pmaps /\ lock[p] = a
    BY <2>2, OpType, Zenon DEF LockHeld, LockAt, Holding
  <2>4. d \in cpus_using[p]
    BY <1>3, <2>3, NoNewUser, Zenon
  <2>5. CASE d \in users[a]
    BY <2>5, Zenon
  <2>6. CASE pc[a] \in {"signal", "send"} /\ d = op[a].target /\ Requested(d, p)
    <3>1. CASE d # c
      BY <2>3, <2>6, <3>1, StepLists, Zenon DEF ListFrame
    <3>2. CASE d = c
      <4>1. ~process_updates(c)
        BY <2>6, <3>2, Zenon DEF process_updates
      <4>2. ~PMAP_ACTIVATE_KERNEL(c)
        <5>1. SUFFICES ASSUME PMAP_ACTIVATE_KERNEL(c) PROVE FALSE
          OBVIOUS
        <5>2. pc[c] = "launch" /\ SetsAt(c)
          BY <5>1, Zenon DEF PMAP_ACTIVATE_KERNEL, Move, SetsMatch
        <5> QED
          BY <2>3, <2>4, <3>2, <5>2, Zenon DEF SetsAt
      <4>3. Requested(d, p)'
        BY <2>3, <2>6, <3>2, <4>1, <4>2, RequestStays, Zenon
      <4> QED
        BY <2>6, <4>3, Zenon
    <3> QED
      BY <3>1, <3>2, Zenon
  <2>7. CASE Asked(d, p)
    BY <1>3, <2>3, <2>4, <2>7, AskedStays, Zenon
  <2> QED
    BY <1>1, <2>2, <2>4, <2>5, <2>6, <2>7, Zenon DEF SignalAt
<1> QED
  BY <1>2, <1>3, Zenon

\* A processor that writes through a pmap uses it.
LEMMA WriterUses ==
    ASSUME Types, Writing, SetsMatch, NEW c \in Cpus, pc[c] = "write", NEW p \in Pmaps,
           p = op[c].target
    PROVE  c \in cpus_using[p]
<1>1. InSpace(c, p) /\ SetsAt(c) /\ kernel_pmap \in Pmaps
  BY PmapAssumption, Zenon DEF Writing, WritesAt, SetsMatch
<1> QED
  BY <1>1, Zenon DEF InSpace, SetsAt

\* Entries of a locked pmap change at the hands of the lock's holder, or are marked.
LEMMA LockedEntry ==
    ASSUME Types, LockHeld, SystemLock, ClearsItsPage, Writing, SetsMatch, NEW c \in Cpus,
           Steps(c),
           NEW p \in Pmaps, NEW h \in Cpus \ {c}, lock[p] = h
    PROVE  pte'[p] = pte[p] \/ (Marks(c) /\ p = op[c].target)
<1>1. CASE Rewrites(c)
  <2>1. lock[op[c].pmap] = c
    BY <1>1, Zenon DEF Rewrites, LockHeld, LockAt, Holding
  <2> QED
    BY <1>1, <2>1, Zenon DEF Rewrites
<1>2. CASE Marks(c)
  <2>1. op[c].target \in Pmaps /\ pte \in [Pmaps -> Pte \cup {NoPte}]
    BY <1>2, Zenon DEF Marks, Writing, WritesAt, Types
  <2> QED
    BY <1>2, <2>1, Zenon DEF Marks
<1> QED
  BY <1>1, <1>2, StepPte, Zenon DEF PteFrame

\* A pmap that is ready to be changed stays so through the steps of the others.
LEMMA OtherChange ==
    ASSUME Types, LockHeld, SystemLock, ClearsItsPage, Writing, SetsMatch, NEW c \in Cpus,
           Steps(c),
           NEW a \in Cpus \ {c}, ChangeAt(a)
    PROVE  ChangeAt(a)'
<1>1. pc'[a] = pc[a] /\ op'[a] = op[a] /\ tlb'[a] = tlb[a] /\ cpus_using' \in [Pmaps -> SUBSET Cpus]
  BY StepPc, StepOp, StepHome, StepSets, Zenon DEF PcFrame, OpFrame, HomeFrame, SetFrame
<1>p. PICK p : p = op[a].pmap
  OBVIOUS
<1>2. CASE pc[a] \notin {"change", "rewrite"}
  BY <1>1, <1>2, Zenon DEF ChangeAt
<1>3. CASE pc[a] \in {"change", "rewrite"}
  <2>1. p \in Pmaps /\ lock[p] = a
    BY <1>3, <1>p, OpType, Zenon DEF LockHeld, LockAt, Holding
  <2>2. \A d \in Cpus : d \in cpus_using'[p] => d \in cpus_using[p]
    BY <2>1, NoNewUser, Zenon
  <2>3. CASE pc[a] = "change" /\ pte[p] = NoPte
    <3>1. pte'[p] = NoPte
      BY <2>1, <2>3, LockedEntry, Zenon DEF Marks, Mapped
    <3> QED
      BY <1>1, <1>p, <2>3, <3>1, Zenon DEF ChangeAt
  <2>4. CASE pc[a] = "change" /\ Quiet(a, p)
    <3>1. a \in cpus_using'[p] => tlb'[a][p] = NoPte
      BY <1>1, <2>2, <2>4, Zenon DEF Quiet
    <3>2. ASSUME NEW d \in cpus_using'[p] \ {a} PROVE Asked(d, p)' /\ pc'[d] # "write"
      <4>1. d \in Cpus
        BY <1>1, <2>1, Zenon
      <4>2. d \in cpus_using[p] /\ Asked(d, p) /\ pc[d] # "write"
        BY <2>2, <2>4, <3>2, <4>1, Zenon DEF Quiet
      <4> QED
        BY <2>1, <4>1, <4>2, AskedStays, Zenon
    <3>3. Quiet(a, p)'
      BY <3>1, <3>2, Zenon DEF Quiet
    <3> QED
      BY <1>1, <1>p, <2>4, <3>3, Zenon DEF ChangeAt
  <2>5. CASE pc[a] = "rewrite"
    <3>1. cpus_using[p] \subseteq {a} /\ op[a].old = pte[p]
      BY <1>p, <2>5, Zenon DEF ChangeAt
    <3>2. cpus_using'[p] \subseteq {a}
      BY <1>1, <2>1, <2>2, <3>1, Zenon
    <3>3. ~(Marks(c) /\ p = op[c].target)
      BY <2>1, <3>1, WriterUses, Zenon DEF Marks
    <3>4. pte'[p] = pte[p]
      BY <2>1, <3>3, LockedEntry, Zenon
    <3> QED
      BY <1>1, <1>p, <2>5, <3>1, <3>2, <3>4, Zenon DEF ChangeAt
  <2> QED
    BY <1>3, <1>p, <2>3, <2>4, <2>5, Zenon DEF ChangeAt
<1> QED
  BY <1>2, <1>3, Zenon

\* update_wait ends with nobody using the pmap.
LEMMA OwnChange ==
    ASSUME Types, LockHeld, SystemLock, ClearsItsPage, Writing, SetsMatch, NEW c \in Cpus,
           Steps(c),
           \A d \in Cpus : SignalAt(c, d), ~unsignalled'
    PROVE  ChangeAt(c)'
<1> USE DEF Move, Goto, sets, requests, maps
<1>t. /\ pc \in [Cpus -> Stages] /\ op[c].pmap \in Pmaps /\ op[c] \in Operations
      /\ tlb \in [Cpus -> [Pmaps -> Pte \cup {NoPte}]] /\ cpus_using \in [Pmaps -> SUBSET Cpus]
  BY OpType, Zenon DEF Types
<1>k. Starts(c) \/ op'[c].pmap = op[c].pmap
  BY StepJob, Zenon DEF Kept, SameJob
<1>p. PICK p : p = op[c].pmap
  OBVIOUS
<1>n. pc'[c] \notin {"change", "rewrite"} => ChangeAt(c)'
  BY Zenon DEF ChangeAt
<1>1. CASE Enters(c)
  BY <1>1, <1>t, <1>n, Zenon DEF Enters, Call, Begins
<1>2. CASE Moves(c)
  BY <1>2, <1>n, MovesAway, Zenon DEF Elsewhere
<1>3. CASE Changes(c)
  BY <1>3, <1>t, <1>n, ChangesEdit, Zenon DEF Edits
<1>4. ASSUME NEW q \in Pmaps, tlb_load(c, q) PROVE ChangeAt(c)'
  BY <1>4, <1>t, <1>n, Zenon DEF tlb_load
<1>5. ASSUME NEW q \in Pmaps, write_start(c, q) PROVE ChangeAt(c)'
  BY <1>5, <1>t, <1>n, Zenon DEF write_start
<1>6. ASSUME NEW q \in Pmaps, switch_context(c, q) PROVE ChangeAt(c)'
  BY <1>6, <1>t, <1>n, Zenon DEF switch_context
<1>7. ASSUME NEW q \in Pmaps, next_mapping(c, q) PROVE ChangeAt(c)'
  BY <1>7, <1>t, <1>n, Zenon DEF next_mapping
<1>8. ASSUME NEW q \in Pmaps, launched(c, q) PROVE ChangeAt(c)'
  BY <1>8, <1>t, <1>n, Zenon DEF launched
<1>9. ASSUME NEW d \in Cpus, signal_queue(c, d) PROVE ChangeAt(c)'
  BY <1>9, <1>t, <1>n, Zenon DEF signal_queue
<1>10. CASE PMAP_DEACTIVATE_KERNEL(c)
  BY <1>10, <1>t, <1>n, Zenon DEF PMAP_DEACTIVATE_KERNEL
<1>11. CASE write_end(c)
  BY <1>11, <1>t, <1>n, Zenon DEF write_end
<1>12. CASE lock_read(c)
  BY <1>12, <1>t, <1>n, Zenon DEF lock_read
<1>13. CASE want_write(c)
  BY <1>13, <1>t, <1>n, Zenon DEF want_write
<1>14. CASE lock_write(c)
  BY <1>14, <1>t, <1>n, Zenon DEF lock_write
<1>15. CASE lock_write_done(c)
  BY <1>15, <1>t, <1>n, Zenon DEF lock_write_done
<1>16. CASE simple_lock(c)
  <2>1. pc'[c] = AfterLock(op[c]) /\ cpus_using' = cpus_using /\ pc[c] = "lock" /\ pte' = pte
    BY <1>16, <1>t, Zenon DEF simple_lock
  <2>2. op'[c].pmap = p
    BY <1>p, <1>k, <2>1, Zenon DEF Starts
  <2>3. ~Unsignalled(c)
    BY <1>16, Zenon DEF simple_lock
  <2>4. CASE pc'[c] = "change"
    <3>1. pte[p] = NoPte \/ op[c].fn = "collect_more"
      BY <1>p, <2>1, <2>4, Zenon DEF AfterLock, Mapped
    <3>2. op[c].fn = "collect_more" => cpus_using[p] = {}
      BY <1>p, <2>3, Zenon DEF Unsignalled
    <3>3. cpus_using'[p] = {} => Quiet(c, p)'
      BY Zenon DEF Quiet
    <3> QED
      BY <2>1, <2>2, <2>4, <3>1, <3>2, <3>3, Zenon DEF ChangeAt
  <2>5. CASE pc'[c] = "rewrite"
    <3>1. op[c].fn = "change_wiring"
      BY <2>1, <2>5, Zenon DEF AfterLock
    <3>2. cpus_using[p] \subseteq {c}
      BY <1>p, <2>3, <3>1, Zenon DEF Unsignalled
    <3>3. op' = [op EXCEPT ![c].old = pte[p]] /\ pte[p] \in Pte \cup {NoPte}
      BY <1>16, <1>p, <1>t, <3>1, Zenon DEF simple_lock, Types
    <3>4. op'[c].old = pte[p]
      BY <3>3, NewOld, Zenon
    <3> QED
      BY <2>1, <2>2, <2>5, <3>2, <3>4, Zenon DEF ChangeAt
  <2> QED
    BY <1>n, <2>4, <2>5, Zenon
<1>17. CASE simple_unlock(c)
  BY <1>17, <1>t, <1>n, Zenon DEF simple_unlock
<1>18. CASE signal_check(c)
  BY <1>18, <1>t, <1>n, Zenon DEF signal_check
<1>19. CASE signal_interrupt(c)
  BY <1>19, <1>t, <1>n, Zenon DEF signal_interrupt
<1>20. CASE update_wait(c)
  <2>1. /\ pc[c] = "update" /\ pc' = [pc EXCEPT ![c] = "change"] /\ users[c] = {} /\ cpus_using' = cpus_using
        /\ op' = op /\ cpus_using[p] \cap cpus_active \subseteq {c}
    BY <1>20, <1>p, Zenon DEF update_wait
  <2>2. c \in cpus_using[p] => tlb'[c][p] = NoPte
    BY <1>20, <1>p, <1>t, EmptyTlbType, Zenon DEF update_wait, flush_tlb
  <2>3. ASSUME NEW d \in cpus_using[p] \ {c} PROVE Asked(d, p)' /\ pc'[d] # "write"
    <3>1. d \in Cpus /\ p \in Pmaps
      BY <1>p, <1>t, Zenon
    <3>2. Asked(d, p)
      BY <1>p, <2>1, <2>3, <3>1, Zenon DEF SignalAt
    <3>3. pc[d] # "write"
      BY <2>1, <2>3, <3>1, Zenon DEF SetsMatch, SetsAt, Active
    <3> QED
      BY <2>3, <3>1, <3>2, <3>3, AskedOther, Zenon
  <2>4. Quiet(c, p)'
    BY <2>1, <2>2, <2>3, Zenon DEF Quiet
  <2> QED
    BY <1>p, <1>t, <2>1, <2>4, Zenon DEF ChangeAt
<1>21. CASE change_wired(c)
  BY <1>21, <1>t, <1>n, Zenon DEF change_wired
<1>22. CASE pmap_update_interrupt(c)
  BY <1>22, <1>t, <1>n, Zenon DEF pmap_update_interrupt, Interrupted
<1>23. CASE idle_interrupt(c)
  BY <1>23, <1>t, <1>n, Zenon DEF idle_interrupt
<1>24. CASE process_updates(c)
  BY <1>24, <1>t, <1>n, Zenon DEF process_updates, process_pmap_updates, flush_tlb
<1>25. CASE switch_to_kernel(c)
  BY <1>25, <1>t, <1>n, Zenon DEF switch_to_kernel, set_dirbase, flush_tlb
<1>26. CASE PMAP_ACTIVATE_USER(c)
  BY <1>26, <1>t, <1>n, Zenon DEF PMAP_ACTIVATE_USER, set_dirbase, flush_tlb
<1>27. CASE user_activated(c)
  BY <1>27, <1>t, <1>n, Zenon DEF user_activated
<1>28. CASE PMAP_ACTIVATE_KERNEL(c)
  BY <1>28, <1>t, <1>n, Zenon DEF PMAP_ACTIVATE_KERNEL, process_pmap_updates, flush_tlb
<1> QED
  BY <1>1, <1>2, <1>3, <1>4, <1>5, <1>6, <1>7, <1>8, <1>9, <1>10, <1>11, <1>12, <1>13, <1>14,
     <1>15, <1>16, <1>17, <1>18, <1>19, <1>20, <1>21, <1>22, <1>23, <1>24, <1>25, <1>26, <1>27,
     <1>28, Zenon DEF Steps

\* Every step keeps it that nobody uses what is about to be changed.
LEMMA ChangingKept ==
    ASSUME Types, LockHeld, SystemLock, ClearsItsPage, Writing, SetsMatch, NEW c \in Cpus,
           Steps(c), Signalling, Changing
    PROVE  Changing'
<1> SUFFICES ASSUME ~early', ~unsignalled', NEW a \in Cpus PROVE ChangeAt(a)'
  BY Zenon DEF Changing
<1>1. ~early /\ ~unsignalled
  BY StepSets, Zenon DEF SetFrame
<1>2. (\A d \in Cpus : SignalAt(c, d)) /\ ChangeAt(a)
  BY <1>1, Zenon DEF Signalling, Changing
<1>3. CASE a = c
  BY <1>2, <1>3, OwnChange, Zenon
<1>4. CASE a # c
  BY <1>2, <1>4, OtherChange, Zenon
<1> QED
  BY <1>3, <1>4, Zenon

\* A change of an entry leaves no copy behind that is not to be flushed.
LEMMA CopyKept ==
    ASSUME Types, LockHeld, SystemLock, ClearsItsPage, Writing, SetsMatch, NEW c \in Cpus,
           Steps(c),
           ChangeAt(c), NEW d \in Cpus, NEW p \in Pmaps, CachedAt(d, p),
           InSpace(d, p), tlb[d][p] # NoPte
    PROVE  Agrees(tlb[d][p], pte'[p]) \/ Flushes(d, p)
<1>0. Agrees(tlb[d][p], pte[p]) \/ Flushes(d, p)
  BY Zenon DEF CachedAt
<1>1. CASE pte'[p] = pte[p]
  BY <1>0, <1>1, Zenon
<1>2. CASE Marks(c) /\ p = op[c].target
  <2>1. pte[p] # NoPte /\ pte \in [Pmaps -> Pte \cup {NoPte}]
    BY <1>2, Zenon DEF Marks, Mapped, Types
  <2>2. pte[p] \in Pte /\ pte'[p] = [pte[p] EXCEPT !.mod = TRUE]
    BY <1>2, <2>1, Zenon DEF Marks
  <2>3. MarkedEntry(pte'[p], pte[p])
    BY <2>2, MarkEntry, Zenon
  <2> QED
    BY <1>0, <2>3, Zenon DEF MarkedEntry, Agrees
<1>3. CASE Rewrites(c) /\ p = op[c].pmap
  <2>1. CASE pc[c] = "rewrite"
    <3>1. op[c].old = pte[p] /\ change_wired(c) /\ pte \in [Pmaps -> Pte \cup {NoPte}]
      BY <1>3, <2>1, RewriteStep, Zenon DEF ChangeAt, Types
    <3>2. pte'[p] = pte[p]
      BY <1>3, <3>1, Zenon DEF change_wired
    <3> QED
      BY <1>0, <3>2, Zenon
  <2>2. CASE pc[c] = "change" /\ pte[p] = NoPte
    BY <1>0, <2>2, Zenon DEF Agrees
  <2>3. CASE pc[c] = "change" /\ Quiet(c, p)
    <3>1. CASE d \in cpus_using[p]
      <4>1. d # c
        BY <2>3, <3>1, Zenon DEF Quiet
      <4>2. Asked(d, p) /\ pc[d] # "write"
        BY <2>3, <3>1, <4>1, Zenon DEF Quiet
      <4> QED
        BY <4>2, Zenon DEF Asked, Flushes, Taking
    <3>2. CASE d \notin cpus_using[p]
      <4>1. SetsAt(d) /\ (p = kernel_pmap \/ p = dirbase[d])
        BY Zenon DEF SetsMatch, InSpace
      <4>2. pc[d] \in {"off", "launch", "switch", "use"}
        BY <3>2, <4>1, Zenon DEF SetsAt
      <4> QED
        BY <4>2, Zenon DEF Flushes, Flushing
    <3> QED
      BY <3>1, <3>2, Zenon
  <2> QED
    BY <1>3, <2>1, <2>2, <2>3, Zenon DEF Rewrites, ChangeAt
<1> QED
  <2>1. pte \in [Pmaps -> Pte \cup {NoPte}] /\ (pte' = pte \/ Rewrites(c) \/ Marks(c))
    BY StepPte, Zenon DEF PteFrame, Types
  <2>2. Rewrites(c) => pte'[p] = pte[p] \/ p = op[c].pmap
    BY Zenon DEF Rewrites
  <2>3. Marks(c) => pte'[p] = pte[p] \/ p = op[c].target
    BY <2>1, Zenon DEF Marks
  <2> QED
    BY <1>1, <1>2, <1>3, <2>1, <2>2, <2>3, Zenon

\* The copies of the other processors.
LEMMA OtherCached ==
    ASSUME Types, LockHeld, SystemLock, ClearsItsPage, Writing, SetsMatch, NEW c \in Cpus,
           Steps(c),
           ChangeAt(c), NEW d \in Cpus \ {c}, NEW p \in Pmaps, CachedAt(d, p)
    PROVE  CachedAt(d, p)'
<1>1. pc'[d] = pc[d] /\ tlb'[d] = tlb[d] /\ dirbase'[d] = dirbase[d]
  BY StepPc, StepHome, Zenon DEF PcFrame, HomeFrame
<1>2. (d \in interrupt => d \in interrupt') /\ (Requested(d, p) => Requested(d, p)')
  BY StepLists, Zenon DEF ListFrame
<1>3. Flushes(d, p) => Flushes(d, p)'
  BY <1>1, <1>2, Zenon DEF Flushes
<1>4. InSpace(d, p)' <=> InSpace(d, p)
  BY <1>1, Zenon DEF InSpace
<1>5. d \in Cpus
  OBVIOUS
<1> SUFFICES ASSUME InSpace(d, p), tlb[d][p] # NoPte PROVE Agrees(tlb[d][p], pte'[p]) \/ Flushes(d, p)'
  BY <1>1, <1>4, Zenon DEF CachedAt
<1>6. Agrees(tlb[d][p], pte'[p]) \/ Flushes(d, p)
  BY <1>5, CopyKept, Zenon
<1> QED
  BY <1>3, <1>6, Zenon

\* The copies of the processor that takes the step.
LEMMA OwnCached ==
    ASSUME Types, LockHeld, SystemLock, ClearsItsPage, Writing, SetsMatch, NEW c \in Cpus,
           Steps(c),
           ChangeAt(c), NEW p \in Pmaps, CachedAt(c, p)
    PROVE  CachedAt(c, p)'
<1> DEFINE Goal == CachedAt(c, p)'
<1> SUFFICES ASSUME InSpace(c, p)', tlb'[c][p] # NoPte PROVE Goal
  BY Zenon DEF CachedAt
<1> USE DEF Move, Goto, sets, requests, maps
<1>t. /\ pc \in [Cpus -> Stages] /\ op[c].pmap \in Pmaps /\ dirbase \in [Cpus -> Pmaps]
      /\ tlb \in [Cpus -> [Pmaps -> Pte \cup {NoPte}]] /\ pte \in [Pmaps -> Pte \cup {NoPte}]
  BY OpType, Zenon DEF Types
<1>c. InSpace(c, p) /\ tlb[c][p] # NoPte => Agrees(tlb[c][p], pte'[p]) \/ Flushes(c, p)
  BY CopyKept, Zenon
<1>r. pc[c] \notin {"process", "launch"} /\ Requested(c, p) => Requested(c, p)'
  <2> SUFFICES ASSUME pc[c] \notin {"process", "launch"}, Requested(c, p) PROVE Requested(c, p)'
    OBVIOUS
  <2>1. ~process_updates(c) /\ ~PMAP_ACTIVATE_KERNEL(c)
    BY Zenon DEF process_updates, PMAP_ACTIVATE_KERNEL
  <2> QED
    BY <2>1, RequestStays, Zenon
<1>s. dirbase'[c] = dirbase[c] => (InSpace(c, p)' <=> InSpace(c, p))
  BY Zenon DEF InSpace
<1>a. Agrees(tlb'[c][p], pte'[p]) \/ Flushes(c, p)' => Goal
  BY Zenon DEF CachedAt
<1>f. dirbase'[c] = dirbase[c] /\ tlb'[c] = tlb[c] /\ (Flushes(c, p) => Flushes(c, p)') => Goal
  BY <1>a, <1>c, <1>s, Zenon
<1>n. dirbase'[c] = dirbase[c] /\ tlb'[c] = tlb[c] /\ ~Flushes(c, p) => Goal
  BY <1>f, Zenon
<1>l. pc'[c] \in Flushing => Goal
  BY <1>a, Zenon DEF Flushes
<1>h. pc[c] = "run" /\ c \notin interrupt => ~Flushes(c, p)
  BY Zenon DEF Flushes, Flushing, Taking
<1>g. pc[c] \notin Flushing \cup Taking /\ pc'[c] # "write" /\ (c \in interrupt => c \in interrupt')
         => (Flushes(c, p) => Flushes(c, p)')
  BY <1>r, Zenon DEF Flushes, Flushing, Taking
<1>i. pc[c] \notin Flushing \cup {"process"} /\ pc'[c] \in Taking => (Flushes(c, p) => Flushes(c, p)')
  BY <1>r, Zenon DEF Flushes, Flushing
<1>x. /\ tlb'[c] = EmptyTlb => Goal
      /\ EmptyTlb[p] = NoPte
  BY EmptyTlbType, Zenon
<1> HIDE DEF Goal
<1>1. CASE Enters(c)
  BY <1>1, <1>t, <1>n, <1>h, Zenon DEF Enters, Call
<1>2. CASE Moves(c)
  <2>0. dirbase'[c] = dirbase[c] /\ tlb'[c] = tlb[c] /\ interrupt' = interrupt /\ update_list' = update_list
    BY <1>2, MovesStand, Zenon DEF Stands
  <2>1. CASE MARK_CPU_IDLE(c)
    BY <2>0, <2>1, <1>t, <1>f, <1>i, Zenon DEF MARK_CPU_IDLE, Interrupted, Flushing, Taking
  <2>2. CASE MARK_CPU_ACTIVE(c)
    BY <2>0, <2>2, <1>t, <1>f, <1>i, Zenon DEF MARK_CPU_ACTIVE, Interrupted, Flushing, Taking
  <2>3. CASE launch(c)
    BY <2>3, <1>t, <1>l, Zenon DEF launch, Flushing
  <2>4. CASE SPLX(c)
    BY <2>0, <2>4, <1>t, <1>f, <1>g, Zenon DEF SPLX, Flushing, Taking
  <2>5. CASE spin_my(c)
    BY <2>0, <2>5, <1>t, <1>f, <1>i, Zenon DEF spin_my, Interrupted, Flushing, Taking
  <2>6. CASE spin_kernel(c)
    BY <2>0, <2>6, <1>t, <1>f, <1>i, Zenon DEF spin_kernel, Interrupted, Flushing, Taking
  <2>7. CASE set_active(c)
    BY <2>0, <2>7, <1>t, <1>f, <1>g, Zenon DEF set_active, Flushing, Taking
  <2>8. CASE update_again(c)
    BY <2>0, <2>8, <1>t, <1>f, <1>i, Zenon DEF update_again, Interrupted, Flushing, Taking
  <2>9. CASE interrupt_return(c)
    BY <2>0, <2>9, <1>t, <1>f, <1>g, Zenon DEF interrupt_return, Flushing, Taking
  <2>10. CASE switch_to_user(c)
    BY <2>10, <1>t, <1>l, Zenon DEF switch_to_user, Flushing
  <2>11. CASE idle(c)
    BY <2>0, <2>11, <1>t, <1>f, <1>i, Zenon DEF idle, Interrupted, Flushing, Taking
  <2>12. CASE wake_update(c)
    BY <2>0, <2>12, <1>t, <1>f, <1>i, Zenon DEF wake_update, Interrupted, Flushing, Taking
  <2>13. CASE wake(c)
    <3>1. pc[c] = "waking" /\ update_list[c] = <<>>
      BY <2>13, Zenon DEF wake, cpu_update_needed
    <3>2. \A i : i \notin DOMAIN <<>>
      BY SMT
    <3>3. ~Requested(c, p)
      BY <3>1, <3>2, Zenon DEF Requested
    <3>4. ~Flushes(c, p)
      BY <3>1, <3>3, Zenon DEF Flushes, Flushing
    <3> QED
      BY <1>n, <2>0, <3>4, Zenon
  <2>14. CASE wake_active(c)
    BY <2>0, <2>14, <1>t, <1>f, <1>g, Zenon DEF wake_active, Flushing, Taking
  <2> QED
    BY <1>2, <2>1, <2>2, <2>3, <2>4, <2>5, <2>6, <2>7, <2>8, <2>9, <2>10, <2>11, <2>12,
       <2>13, <2>14, Zenon DEF Moves
<1>3. CASE Changes(c)
  <2>1. pc[c] = "change" /\ pc'[c] = "unlock" /\ tlb' = tlb /\ dirbase' = dirbase /\ interrupt' = interrupt
    BY <1>3, <1>t, ChangesEdit, Zenon DEF Edits
  <2> QED
    BY <1>f, <1>g, <2>1, Zenon DEF Flushing, Taking
<1>4. ASSUME NEW q \in Pmaps, tlb_load(c, q) PROVE Goal
  <2>1. /\ pc[c] = "run" /\ c \notin interrupt /\ dirbase' = dirbase /\ pte' = pte /\ pte[q] # NoPte
        /\ tlb' = [tlb EXCEPT ![c][q] = pte[q]]
    BY <1>4, Zenon DEF tlb_load, Mapped
  <2>2. CASE p = q
    <3>1. tlb'[c][p] = pte'[p] /\ pte'[p] # NoPte
      BY <1>t, <2>1, <2>2, Zenon
    <3>2. Agrees(tlb'[c][p], pte'[p])
      BY <3>1, Zenon DEF Agrees
    <3> QED
      BY <1>a, <3>2, Zenon
  <2>3. CASE p # q
    <3>1. tlb'[c][p] = tlb[c][p]
      BY <1>t, <2>1, <2>3, Zenon
    <3>2. Agrees(tlb[c][p], pte'[p])
      BY <1>c, <1>h, <1>s, <2>1, <3>1, Zenon
    <3> QED
      BY <1>a, <3>1, <3>2, Zenon
  <2> QED
    BY <2>2, <2>3, Zenon
<1>5. ASSUME NEW q \in Pmaps, write_start(c, q) PROVE Goal
  BY <1>5, <1>t, <1>n, <1>h, Zenon DEF write_start
<1>6. ASSUME NEW q \in Pmaps, switch_context(c, q) PROVE Goal
  BY <1>6, <1>t, <1>l, Zenon DEF switch_context, Flushing
<1>7. ASSUME NEW q \in Pmaps, next_mapping(c, q) PROVE Goal
  BY <1>7, <1>t, <1>f, <1>g, Zenon DEF next_mapping, Flushing, Taking
<1>8. ASSUME NEW q \in Pmaps, launched(c, q) PROVE Goal
  BY <1>8, <1>t, <1>l, Zenon DEF launched, Flushing
<1>9. ASSUME NEW x \in Cpus, signal_queue(c, x) PROVE Goal
  BY <1>9, <1>t, <1>f, <1>g, Zenon DEF signal_queue, Flushing, Taking
<1>10. CASE PMAP_DEACTIVATE_KERNEL(c)
  BY <1>10, <1>t, <1>l, Zenon DEF PMAP_DEACTIVATE_KERNEL, Flushing
<1>11. CASE write_end(c)
  <2>1. pc[c] = "write" /\ dirbase' = dirbase
    BY <1>11, Zenon DEF write_end
  <2>2. ~Flushes(c, p)
    BY <2>1, Zenon DEF Flushes, Flushing, Taking
  <2>3. InSpace(c, p) /\ CachedAt(c, p)
    BY <1>s, <2>1, Zenon
  <2>4. tlb[c][p] # NoPte => Agrees(tlb[c][p], pte[p])
    BY <2>2, <2>3, Zenon DEF CachedAt
  <2>5. PICK q : q = op[c].target
    OBVIOUS
  <2>6. CASE p # q
    <3>0. \A m \in Pmaps \ {q} : tlb'[c][m] = tlb[c][m] /\ pte'[m] = pte[m]
      BY <1>11, <2>5, WriteEffect, Zenon
    <3>1. tlb'[c][p] = tlb[c][p] /\ pte'[p] = pte[p]
      BY <2>6, <3>0, Zenon
    <3> QED
      BY <1>a, <2>4, <3>1, Zenon
  <2>7. CASE p = q
    <3>1. tlb[c][p] # NoPte
      BY <1>11, <2>5, <2>7, WriteEffect, Zenon
    <3>2. pte[p] # NoPte
      BY <2>4, <3>1, Zenon DEF Agrees
    <3>3. \/ tlb'[c][p] = tlb[c][p] /\ pte' = pte
          \/ MarkedEntry(tlb'[c][p], tlb[c][p]) /\ MarkedEntry(pte'[p], pte[p])
      BY <1>11, <2>5, <2>7, <3>2, WriteEffect, Zenon
    <3>4. Agrees(tlb'[c][p], pte'[p])
      BY <2>4, <3>1, <3>3, Zenon DEF Agrees, MarkedEntry
    <3> QED
      BY <1>a, <3>4, Zenon
  <2> QED
    BY <2>6, <2>7, Zenon
<1>12. CASE lock_read(c)
  BY <1>12, <1>t, <1>f, <1>g, Zenon DEF lock_read, Flushing, Taking
<1>13. CASE want_write(c)
  BY <1>13, <1>t, <1>f, <1>g, Zenon DEF want_write, Flushing, Taking
<1>14. CASE lock_write(c)
  BY <1>14, <1>t, <1>f, <1>g, Zenon DEF lock_write, Flushing, Taking
<1>15. CASE lock_write_done(c)
  BY <1>15, <1>t, <1>f, <1>g, Zenon DEF lock_write_done, Flushing, Taking
<1>16. CASE simple_lock(c)
  <2>1. /\ pc[c] = "lock" /\ pc'[c] = AfterLock(op[c]) /\ tlb' = tlb /\ dirbase' = dirbase /\ interrupt' = interrupt
    BY <1>16, <1>t, Zenon DEF simple_lock
  <2>2. pc'[c] # "write"
    BY <2>1, Zenon DEF AfterLock
  <2> QED
    BY <1>f, <1>g, <2>1, <2>2, Zenon DEF Flushing, Taking
<1>17. CASE simple_unlock(c)
  BY <1>17, <1>t, <1>f, <1>g, Zenon DEF simple_unlock, Flushing, Taking
<1>18. CASE signal_check(c)
  BY <1>18, <1>t, <1>f, <1>g, Zenon DEF signal_check, Flushing, Taking
<1>19. CASE signal_interrupt(c)
  BY <1>19, <1>t, <1>f, <1>g, Zenon DEF signal_interrupt, Flushing, Taking
<1>20. CASE update_wait(c)
  <2>1. pc[c] = "update" /\ pc'[c] = "change" /\ dirbase' = dirbase /\ interrupt' = interrupt
    BY <1>20, <1>t, Zenon DEF update_wait
  <2>2. tlb'[c] = EmptyTlb \/ tlb'[c] = tlb[c]
    BY <1>20, <1>t, Zenon DEF update_wait, flush_tlb
  <2> QED
    BY <1>f, <1>g, <1>x, <2>1, <2>2, Zenon DEF Flushing, Taking
<1>21. CASE change_wired(c)
  BY <1>21, <1>t, <1>f, <1>g, Zenon DEF change_wired, Flushing, Taking
<1>22. CASE pmap_update_interrupt(c)
  BY <1>22, <1>t, <1>f, <1>i, Zenon DEF pmap_update_interrupt, Interrupted, Flushing, Taking
<1>23. CASE idle_interrupt(c)
  BY <1>23, <1>t, <1>f, <1>i, Zenon DEF idle_interrupt, Flushing, Taking
<1>24. CASE process_updates(c)
  <2>1. pc[c] = "process" /\ dirbase' = dirbase
    BY <1>24, Zenon DEF process_updates
  <2>2. CASE Requested(c, MyPmap(c))
    BY <1>24, <1>t, <1>x, <2>2, Zenon DEF process_updates, process_pmap_updates, flush_tlb
  <2>3. CASE ~Requested(c, MyPmap(c))
    <3>1. tlb' = tlb
      BY <1>24, <2>3, Zenon DEF process_updates, process_pmap_updates
    <3>2. SetsAt(c) /\ InSpace(c, p) /\ dirbase[c] \in Pmaps /\ kernel_pmap \in Pmaps
      BY <1>t, <1>s, <2>1, PmapAssumption, Zenon DEF SetsMatch
    <3>3. MyPmap(c) = dirbase[c]
      BY <2>1, <3>2, Zenon DEF SetsAt, MyPmap
    <3>4. ~Requested(c, p)
      BY <2>3, <3>2, <3>3, Zenon DEF InSpace, Requested
    <3>5. ~Flushes(c, p)
      BY <2>1, <3>4, Zenon DEF Flushes, Flushing
    <3> QED
      BY <1>n, <2>1, <3>1, <3>5, Zenon
  <2> QED
    BY <2>2, <2>3, Zenon
<1>25. CASE switch_to_kernel(c)
  BY <1>25, <1>t, <1>x, Zenon DEF switch_to_kernel, set_dirbase, flush_tlb
<1>26. CASE PMAP_ACTIVATE_USER(c)
  BY <1>26, <1>t, <1>x, Zenon DEF PMAP_ACTIVATE_USER, set_dirbase, flush_tlb
<1>27. CASE user_activated(c)
  BY <1>27, <1>t, <1>f, <1>g, Zenon DEF user_activated, Flushing, Taking
<1>28. CASE PMAP_ACTIVATE_KERNEL(c)
  BY <1>28, <1>t, <1>l, Zenon DEF PMAP_ACTIVATE_KERNEL, process_pmap_updates, flush_tlb, Flushing
<1> QED
  BY <1>1, <1>2, <1>3, <1>4, <1>5, <1>6, <1>7, <1>8, <1>9, <1>10, <1>11, <1>12, <1>13, <1>14,
     <1>15, <1>16, <1>17, <1>18, <1>19, <1>20, <1>21, <1>22, <1>23, <1>24, <1>25, <1>26, <1>27,
     <1>28, Zenon DEF Steps

\* Every step keeps TLBs in agreement with memory, or about to be flushed.
LEMMA CachedKept ==
    ASSUME Types, LockHeld, SystemLock, ClearsItsPage, Writing, SetsMatch, NEW c \in Cpus,
           Steps(c), Changing, Cached
    PROVE  Cached'
<1> SUFFICES ASSUME ~early', ~unsignalled', NEW d \in Cpus, NEW p \in Pmaps PROVE CachedAt(d, p)'
  BY Zenon DEF Cached
<1>1. ~early /\ ~unsignalled
  BY StepSets, Zenon DEF SetFrame
<1>2. ChangeAt(c) /\ CachedAt(d, p) /\ CachedAt(c, p)
  BY <1>1, Zenon DEF Changing, Cached
<1>3. CASE d = c
  BY <1>2, <1>3, OwnCached, Zenon
<1>4. CASE d # c
  BY <1>2, <1>4, OtherCached, Zenon
<1> QED
  BY <1>3, <1>4, Zenon

\* Which steps change an entry, the attributes or what was written.
Changeless(c) == pte' = pte /\ attributes' = attributes /\ written' = written

\* The steps other than changes, writes and the end of phys_attribute_clear
\* leave all marks alone.
LEMMA StepMarks == ASSUME NEW c \in Cpus, Steps(c)
                   PROVE  \/ Changeless(c) \/ Changes(c) \/ write_end(c) \/ lock_write_done(c)
                          \/ change_wired(c)
<1> USE DEF maps, history
<1>1. CASE Enters(c)
  BY <1>1, Zenon DEF Enters, Call, Changeless
<1>2. CASE Moves(c)
  BY <1>2, MovesStand, Zenon DEF Stands, Changeless
<1>3. CASE Changes(c)
  BY <1>3, Zenon
<1>4. ASSUME NEW q \in Pmaps, tlb_load(c, q) PROVE Changeless(c)
  BY <1>4, Zenon DEF tlb_load, Changeless
<1>5. ASSUME NEW q \in Pmaps, write_start(c, q) PROVE Changeless(c)
  BY <1>5, Zenon DEF write_start, Changeless
<1>6. ASSUME NEW q \in Pmaps, switch_context(c, q) PROVE Changeless(c)
  BY <1>6, Zenon DEF switch_context, Changeless
<1>7. ASSUME NEW q \in Pmaps, next_mapping(c, q) PROVE Changeless(c)
  BY <1>7, Zenon DEF next_mapping, Changeless
<1>8. ASSUME NEW q \in Pmaps, launched(c, q) PROVE Changeless(c)
  BY <1>8, Zenon DEF launched, Changeless
<1>9. ASSUME NEW x \in Cpus, signal_queue(c, x) PROVE Changeless(c)
  BY <1>9, Zenon DEF signal_queue, Changeless
<1>10. CASE PMAP_DEACTIVATE_KERNEL(c)
  BY <1>10, Zenon DEF PMAP_DEACTIVATE_KERNEL, Changeless
<1>11. CASE write_end(c)
  BY <1>11, Zenon
<1>12. CASE lock_read(c)
  BY <1>12, Zenon DEF lock_read, Changeless
<1>13. CASE want_write(c)
  BY <1>13, Zenon DEF want_write, Changeless
<1>14. CASE lock_write(c)
  BY <1>14, Zenon DEF lock_write, Changeless
<1>15. CASE lock_write_done(c)
  BY <1>15, Zenon
<1>16. CASE simple_lock(c)
  BY <1>16, Zenon DEF simple_lock, Changeless
<1>17. CASE simple_unlock(c)
  BY <1>17, Zenon DEF simple_unlock, Changeless
<1>18. CASE signal_check(c)
  BY <1>18, Zenon DEF signal_check, Changeless
<1>19. CASE signal_interrupt(c)
  BY <1>19, Zenon DEF signal_interrupt, Changeless
<1>20. CASE update_wait(c)
  BY <1>20, Zenon DEF update_wait, flush_tlb, Changeless
<1>21. CASE change_wired(c)
  BY <1>21, Zenon
<1>22. CASE pmap_update_interrupt(c)
  BY <1>22, Zenon DEF pmap_update_interrupt, Interrupted, Changeless
<1>23. CASE idle_interrupt(c)
  BY <1>23, Zenon DEF idle_interrupt, Changeless
<1>24. CASE process_updates(c)
  BY <1>24, Zenon DEF process_updates, process_pmap_updates, flush_tlb, Changeless
<1>25. CASE switch_to_kernel(c)
  BY <1>25, Zenon DEF switch_to_kernel, set_dirbase, flush_tlb, Changeless
<1>26. CASE PMAP_ACTIVATE_USER(c)
  BY <1>26, Zenon DEF PMAP_ACTIVATE_USER, set_dirbase, flush_tlb, Changeless
<1>27. CASE user_activated(c)
  BY <1>27, Zenon DEF user_activated, Changeless
<1>28. CASE PMAP_ACTIVATE_KERNEL(c)
  BY <1>28, Zenon DEF PMAP_ACTIVATE_KERNEL, process_pmap_updates, flush_tlb, Changeless
<1> QED
  BY <1>1, <1>2, <1>3, <1>4, <1>5, <1>6, <1>7, <1>8, <1>9, <1>10, <1>11, <1>12, <1>13, <1>14,
     <1>15, <1>16, <1>17, <1>18, <1>19, <1>20, <1>21, <1>22, <1>23, <1>24, <1>25, <1>26, <1>27,
     <1>28, Zenon DEF Steps

\* What the changes of an entry other than change_clear do with its modify bit.
Carries(c) ==
    /\ written' = written /\ attributes \subseteq attributes'
    /\ \A p \in Pmaps : pte[p] # NoPte /\ pte[p].mod =>
          \/ pte[p].page \in attributes'
          \/ pte'[p] # NoPte /\ pte'[p].page = pte[p].page /\ pte'[p].mod

\* remove_range moves the modify bit to the attributes.
LEMMA RemoveCarries ==
    ASSUME Types, NEW q \in Pmaps, remove_range(q), written' = written, NEW c
    PROVE  Carries(c)
<1>1. pte \in [Pmaps -> Pte \cup {NoPte}]
  BY Zenon DEF Types
<1>2. \A p \in Pmaps \ {q} : pte'[p] = pte[p]
  BY <1>1, Zenon DEF remove_range
<1>3. attributes \subseteq attributes'
  BY Zenon DEF remove_range
<1>4. pte[q] # NoPte /\ pte[q].mod => pte[q].page \in attributes'
  BY Zenon DEF remove_range, Mapped
<1> QED
  BY <1>2, <1>3, <1>4, Zenon DEF Carries

\* Lowering the protection keeps the modify bit.
LEMMA ProtectMod == ASSUME Types, NEW c \in Cpus, change_protect(c)
                    PROVE  \A p \in Pmaps : pte[p] # NoPte => pte'[p] # NoPte /\ pte'[p].page = pte[p].page /\ pte'[p].mod = pte[p].mod
<1>0. pte \in [Pmaps -> Pte \cup {NoPte}] /\ op[c].pmap \in Pmaps /\ NoPte \notin Pte /\ FALSE \in BOOLEAN
  BY OpType, PmapAssumption, Zenon DEF Types, Pte
<1>q. PICK q : q = op[c].pmap
  OBVIOUS
<1>1. CASE pte[q] = NoPte
  <2>1. pte' = pte
    BY <1>q, <1>1, Zenon DEF change_protect, Mapped
  <2> QED
    BY <2>1, Zenon
<1>2. CASE pte[q] # NoPte
  <2>1. pte' = [pte EXCEPT ![q] = [pte[q] EXCEPT !.write = FALSE]]
    BY <1>q, <1>2, Zenon DEF change_protect, Mapped
  <2>2. PICK e : e = [pte[q] EXCEPT !.write = FALSE]
    OBVIOUS
  <2>a. pte[q] \in Pte
    BY <1>0, <1>q, <1>2, Zenon
  <2>b. PICK b \in BOOLEAN : b = FALSE
    OBVIOUS
  <2>3. e \in Pte /\ e.page = pte[q].page /\ e.mod = pte[q].mod
    BY <2>a, <2>b, <2>2, PteFields, Zenon
  <2>4. pte'[q] = e /\ \A p \in Pmaps \ {q} : pte'[p] = pte[p]
    BY <1>0, <1>q, <2>1, <2>2, Zenon
  <2> QED
    BY <1>0, <2>3, <2>4, Zenon
<1> QED
  BY <1>1, <1>2, Zenon

\* Entries are records of a page, a permission and a modify bit.
LEMMA EntryFields == ASSUME NEW g \in Pages, NEW w \in BOOLEAN, NEW m \in BOOLEAN
                     PROVE  Entry(g, w, m) \in Pte /\ Entry(g, w, m).page = g /\ Entry(g, w, m).mod = m
  BY SMTT(30) DEF Entry, Pte

\* pmap_enter keeps the modify bit of the same page, and moves that of another
\* to the attributes.
LEMMA EnterCarries == ASSUME Types, SystemLock, NEW c \in Cpus, change_enter(c) PROVE Carries(c)
<1>0. /\ pte \in [Pmaps -> Pte \cup {NoPte}] /\ op[c].pmap \in Pmaps /\ NoPte \notin Pte
      /\ op[c] \in Operations
  BY OpType, PmapAssumption, Zenon DEF Types, Pte
<1>q. PICK q : q = op[c].pmap
  OBVIOUS
<1>g. PICK g : g = op[c].page
  OBVIOUS
<1>m. PICK m \in BOOLEAN : m <=> Mapped(q) /\ pte[q].page = g /\ pte[q].mod
  OBVIOUS
<1>w. g \in Pages /\ op[c].write \in BOOLEAN
  <2>1. op[c].fn = "enter" /\ SystemAt(c)
    BY Zenon DEF change_enter, SystemLock
  <2>2. op[c].write \in BOOLEAN
    BY <1>0, SMTT(30) DEF Operations
  <2> QED
    BY <1>g, <2>1, <2>2, Zenon DEF SystemAt
<1>1. /\ attributes' = attributes \cup IF Mapped(q) /\ ~(Mapped(q) /\ pte[q].page = g) /\ pte[q].mod THEN {pte[q].page} ELSE {}
      /\ written' = written
      /\ pte' = [pte EXCEPT ![q] = Entry(g, op[c].write, (Mapped(q) /\ pte[q].page = g) /\ pte[q].mod)]
  BY <1>q, <1>g, Zenon DEF change_enter, history
<1>2. \A p \in Pmaps \ {q} : pte'[p] = pte[p]
  BY <1>0, <1>q, <1>1, Zenon
<1>3. CASE pte[q] # NoPte /\ pte[q].mod /\ pte[q].page = g
  <2>1. PICK n : n = Entry(g, op[c].write, (Mapped(q) /\ pte[q].page = g) /\ pte[q].mod)
    OBVIOUS
  <2>2. PICK b \in BOOLEAN : b = ((Mapped(q) /\ pte[q].page = g) /\ pte[q].mod)
    OBVIOUS
  <2>3. n = Entry(g, op[c].write, b) /\ b
    BY <1>3, <2>1, <2>2, Zenon DEF Mapped
  <2>4. n \in Pte /\ n.page = g /\ n.mod = b
    BY <1>w, <2>3, EntryFields, Zenon
  <2>5. pte'[q] = n
    BY <1>0, <1>q, <1>1, <2>1, Zenon
  <2>6. pte'[q] # NoPte /\ pte'[q].page = pte[q].page /\ pte'[q].mod
    BY <1>0, <1>3, <2>3, <2>4, <2>5, Zenon
  <2> QED
    BY <1>1, <1>2, <2>6, Zenon DEF Carries
<1>4. CASE pte[q] # NoPte /\ pte[q].mod /\ pte[q].page # g
  <2>1. pte[q].page \in attributes'
    BY <1>1, <1>4, Zenon DEF Mapped
  <2> QED
    BY <1>1, <1>2, <2>1, Zenon DEF Carries
<1>5. CASE ~(pte[q] # NoPte /\ pte[q].mod)
  BY <1>1, <1>2, <1>5, Zenon DEF Carries
<1> QED
  BY <1>3, <1>4, <1>5, Zenon

\* Every change but that of phys_attribute_clear keeps the modify bit
\* somewhere.
LEMMA ChangeCarries == ASSUME Types, SystemLock, ClearsItsPage, NEW c \in Cpus, Changes(c)
                       PROVE  Carries(c) \/ change_clear(c)
<1> USE OpType, Zenon DEF history
<1>1. CASE change_remove(c)
  BY <1>1, RemoveCarries DEF change_remove
<1>2. CASE change_later(c)
  BY <1>2 DEF change_later, maps, Carries
<1>3. CASE change_protect(c)
  <2>1. written' = written /\ attributes' = attributes
    BY <1>3 DEF change_protect
  <2> QED
    BY <1>3, <2>1, ProtectMod DEF Carries
<1>4. CASE change_clear(c)
  BY <1>4
<1>5. CASE change_enter(c)
  BY <1>5, EnterCarries
<1>6. CASE enter_retry(c)
  BY <1>6, RemoveCarries DEF enter_retry
<1> QED
  BY <1>1, <1>2, <1>3, <1>4, <1>5, <1>6 DEF Changes

\* phys_attribute_clear clears the bit of the entry it works on.
LEMMA ClearEffect ==
    ASSUME Types, NEW c \in Cpus, change_clear(c), NEW q, q = op[c].pmap, NEW g, g = op[c].page
    PROVE  /\ q \in Pmaps /\ pc[c] = "change" /\ op[c].fn = "clear" /\ op' = op
           /\ written' = written \ {<<q, g>>} /\ attributes' = attributes
           /\ \A p \in Pmaps \ {q} : pte'[p] = pte[p]
<1>1. pte \in [Pmaps -> Pte \cup {NoPte}] /\ q \in Pmaps
  BY OpType, Zenon DEF Types
<1>2. \A p \in Pmaps \ {q} : pte'[p] = pte[p]
  BY <1>1, Zenon DEF change_clear
<1> QED
  BY <1>1, <1>2, Zenon DEF change_clear, Move

\* A write goes through an entry that is in memory too, and marks it.
LEMMA WriteMarks ==
    ASSUME Types, Writing, NEW c \in Cpus, write_end(c), NEW q, q = op[c].target, CachedAt(c, q)
    PROVE  /\ q \in Pmaps /\ tlb[c][q] \in Pte
           /\ written' = written \cup {<<q, tlb[c][q].page>>} /\ attributes' = attributes
           /\ pte'[q] # NoPte /\ pte'[q].page = pte[q].page /\ pte'[q].mod
           /\ pte[q].page = tlb[c][q].page
           /\ \A p \in Pmaps \ {q} : pte'[p] = pte[p]
<1>1. q \in Pmaps /\ InSpace(c, q) /\ tlb[c][q] # NoPte
  BY WriteEffect, ZenonT(60)
<1>2. \A p \in Pmaps \ {q} : pte'[p] = pte[p]
  BY WriteEffect, ZenonT(60)
<1>3. \/ tlb[c][q].mod /\ pte' = pte
      \/ pte[q] # NoPte /\ MarkedEntry(pte'[q], pte[q])
      \/ pte[q] = NoPte
  BY WriteEffect, Zenon
<1>4. pc[c] = "write"
  BY Zenon DEF write_end, Move
<1>5. ~Flushes(c, q)
  BY <1>4, Zenon DEF Flushes, Flushing, Taking
<1>6. Agrees(tlb[c][q], pte[q])
  BY <1>1, <1>5, Zenon DEF CachedAt
<1>7. pte'[q] # NoPte /\ pte'[q].page = pte[q].page /\ pte'[q].mod
  BY <1>3, <1>6, Zenon DEF Agrees, MarkedEntry
<1>8. tlb[c][q] \in Pte
  <2>1. tlb \in [Cpus -> [Pmaps -> Pte \cup {NoPte}]]
    BY Zenon DEF Types
  <2>2. tlb[c][q] \in Pte \cup {NoPte}
    BY <1>1, <2>1, Zenon
  <2> QED
    BY <1>1, <2>2, Zenon
<1>9. written' = written \cup {<<q, tlb[c][q].page>>} /\ attributes' = attributes
  BY Zenon DEF write_end
<1> QED
  BY <1>1, <1>2, <1>6, <1>7, <1>8, <1>9, Zenon DEF Agrees

\* pmap_change_wiring writes back what it has read.
LEMMA WiredSame ==
    ASSUME Types, NEW c \in Cpus, change_wired(c), ChangeAt(c)
    PROVE  Changeless(c)
<1>1. pte \in [Pmaps -> Pte \cup {NoPte}] /\ op[c].pmap \in Pmaps /\ op[c].old = pte[op[c].pmap]
  BY OpType, Zenon DEF Types, change_wired, Move, ChangeAt
<1>2. pte' = [pte EXCEPT ![op[c].pmap] = pte[op[c].pmap]]
  BY <1>1, Zenon DEF change_wired
<1>3. pte' = pte
  BY <1>1, <1>2, Zenon
<1> QED
  BY <1>3, Zenon DEF change_wired, history, Changeless

\* Pages that were written are named with the pmap.
LEMMA WrittenInKept ==
    ASSUME Types, LockHeld, SystemLock, ClearsItsPage, Writing, SetsMatch, NEW c \in Cpus,
           Steps(c), WrittenIn
    PROVE  WrittenIn'
<1>0. written' \subseteq written => WrittenIn'
  BY Zenon DEF WrittenIn
<1>1. CASE Changeless(c)
  BY <1>0, <1>1, Zenon DEF Changeless
<1>2. CASE Changes(c)
  <2>1. CASE Carries(c)
    BY <1>0, <2>1, Zenon DEF Carries
  <2>2. CASE change_clear(c)
    BY <1>0, <2>2, Zenon DEF change_clear
  <2> QED
    BY <1>2, <2>1, <2>2, ChangeCarries, Zenon
<1>3. CASE write_end(c)
  <2>1. PICK q : q = op[c].target
    OBVIOUS
  <2>2. q \in Pmaps /\ tlb[c][q] # NoPte
    BY <1>3, <2>1, WriteEffect, ZenonT(60)
  <2>3. tlb[c][q] \in Pte
    <3>1. tlb \in [Cpus -> [Pmaps -> Pte \cup {NoPte}]]
      BY Zenon DEF Types
    <3>2. tlb[c][q] \in Pte \cup {NoPte}
      BY <2>2, <3>1, Zenon
    <3> QED
      BY <2>2, <3>2, Zenon
  <2>4. tlb[c][q].page \in Pages
    BY <2>3, SMTT(30) DEF Pte
  <2>5. written' = written \cup {<<q, tlb[c][q].page>>}
    BY <1>3, <2>1, Zenon DEF write_end
  <2>6. PICK x : x = <<q, tlb[c][q].page>>
    OBVIOUS
  <2>7. x \in Pmaps \X Pages
    BY <2>2, <2>4, <2>6, SMTT(30)
  <2> QED
    BY <2>5, <2>6, <2>7, Zenon DEF WrittenIn
<1>4. CASE lock_write_done(c)
  BY <1>0, <1>4, Zenon DEF lock_write_done
<1>5. CASE change_wired(c)
  BY <1>0, <1>5, Zenon DEF change_wired, history
<1> QED
  BY <1>1, <1>2, <1>3, <1>4, <1>5, StepMarks, Zenon

\* A page that was written is known to be modified.
LEMMA OneMarked ==
    ASSUME Types, LockHeld, SystemLock, ClearsItsPage, Writing, SetsMatch, NEW c \in Cpus,
           Steps(c),
           WrittenIn, ChangeAt(c), ClearedAt(c), \A q \in Pmaps : CachedAt(c, q),
           \A x \in written : Known(x), NEW x \in written'
    PROVE  Known(x)'
<1> DEFINE Goal == Known(x)'
<1> SUFFICES Goal
  OBVIOUS
<1>a. x[2] \in attributes' \/ (pte'[x[1]] # NoPte /\ pte'[x[1]].page = x[2] /\ pte'[x[1]].mod) => Goal
  BY Zenon DEF Known, Mapped
<1> HIDE DEF Goal
<1>b. x \in written => x[1] \in Pmaps /\ x = <<x[1], x[2]>>
  <2>1. x \in written => x \in Pmaps \X Pages
    BY Zenon DEF WrittenIn
  <2> QED
    BY <2>1, SMTT(30)
<1>c. x \in written => x[2] \in attributes \/ (pte[x[1]] # NoPte /\ pte[x[1]].page = x[2] /\ pte[x[1]].mod)
  BY Zenon DEF Known, Mapped
<1>1. CASE Changeless(c)
  BY <1>a, <1>c, <1>1, Zenon DEF Changeless
<1>2. CASE Carries(c)
  <2>1. x \in written /\ attributes \subseteq attributes'
    BY <1>2, Zenon DEF Carries
  <2>2. CASE x[2] \in attributes
    BY <1>a, <2>1, <2>2, Zenon
  <2>3. CASE pte[x[1]] # NoPte /\ pte[x[1]].page = x[2] /\ pte[x[1]].mod
    BY <1>a, <1>b, <1>2, <2>1, <2>3, Zenon DEF Carries
  <2> QED
    BY <1>c, <2>1, <2>2, <2>3, Zenon
<1>3. CASE change_clear(c)
  <2>1. PICK q : q = op[c].pmap
    OBVIOUS
  <2>2. PICK g : g = op[c].page
    OBVIOUS
  <2>3. /\ q \in Pmaps /\ pc[c] = "change" /\ op[c].fn = "clear"
        /\ written' = written \ {<<q, g>>} /\ attributes' = attributes
    BY <1>3, <2>1, <2>2, ClearEffect, Zenon
  <2>p. pte \in [Pmaps -> Pte \cup {NoPte}]
    BY Zenon DEF Types
  <2>4. \A p \in Pmaps \ {q} : pte'[p] = pte[p]
    BY <1>3, <2>1, <2>3, <2>p, Zenon DEF change_clear
  <2>5. q \in PvList(g)
    BY <2>1, <2>2, <2>3, Zenon DEF ClearsItsPage, ClearsAt, Locked, Visiting
  <2>6. x \in written /\ x # <<q, g>>
    BY <2>3, Zenon
  <2>7. CASE x[2] \in attributes
    BY <1>a, <2>3, <2>7, Zenon
  <2>8. CASE pte[x[1]] # NoPte /\ pte[x[1]].page = x[2] /\ pte[x[1]].mod
    <3>1. x[1] # q
      BY <1>b, <2>5, <2>6, <2>8, Zenon DEF PvList
    <3>2. pte'[x[1]] = pte[x[1]]
      BY <1>b, <2>4, <2>6, <3>1, Zenon
    <3> QED
      BY <1>a, <2>8, <3>2, Zenon
  <2> QED
    BY <1>c, <2>6, <2>7, <2>8, Zenon
<1>4. CASE write_end(c)
  <2>1. PICK q : q = op[c].target
    OBVIOUS
  <2>2. q \in Pmaps /\ CachedAt(c, q)
    BY <1>4, <2>1, WriteEffect, Zenon
  <2>3. /\ written' = written \cup {<<q, tlb[c][q].page>>} /\ attributes' = attributes
        /\ pte'[q] # NoPte /\ pte'[q].page = pte[q].page /\ pte'[q].mod
        /\ pte[q].page = tlb[c][q].page
    BY <1>4, <2>1, <2>2, WriteMarks, ZenonT(60)
  <2>4. \A p \in Pmaps \ {q} : pte'[p] = pte[p]
    BY <1>4, <2>1, <2>2, WriteMarks, Zenon
  <2>5. CASE x = <<q, tlb[c][q].page>>
    <3>1. x[1] = q /\ x[2] = tlb[c][q].page
      BY <2>5, SMTT(60)
    <3> QED
      BY <1>a, <2>3, <3>1, Zenon
  <2>6. CASE x \in written /\ x[2] \in attributes
    BY <1>a, <2>3, <2>6, Zenon
  <2>7. CASE x \in written /\ pte[x[1]] # NoPte /\ pte[x[1]].page = x[2] /\ pte[x[1]].mod
    <3>1. x[1] \in Pmaps
      BY <1>b, <2>7, Zenon
    <3> QED
      BY <1>a, <2>3, <2>4, <2>7, <3>1, Zenon
  <2> QED
    BY <1>c, <2>3, <2>5, <2>6, <2>7, Zenon
<1>5. CASE lock_write_done(c)
  <2>1. PICK g : g = op[c].page
    OBVIOUS
  <2>2. pc[c] = "walk" /\ op[c].todo = {} /\ pte' = pte
    BY <1>5, Zenon DEF lock_write_done, Move
  <2>3. CASE op[c].fn # "clear"
    BY <1>a, <1>c, <1>5, <2>2, <2>3, Zenon DEF lock_write_done
  <2>4. CASE op[c].fn = "clear"
    <3>1. attributes' = attributes \ {g} /\ x \in written /\ (x[2] = g => x[1] \in PvList(g))
      BY <1>5, <2>1, <2>4, Zenon DEF lock_write_done
    <3>2. CASE x[2] # g
      BY <1>a, <1>c, <2>2, <3>1, <3>2, Zenon
    <3>3. CASE x[2] = g
      <4>1. PICK p : p = x[1]
        OBVIOUS
      <4>2. p \in PvList(g) /\ x = <<p, g>>
        BY <1>b, <3>1, <3>3, <4>1, Zenon
      <4>3. p \in Pmaps /\ pte[p] # NoPte /\ pte[p].page = g
        BY <4>2, Zenon DEF PvList, Mapped
      <4>4. pte[p].mod
        <5>1. "walk" \notin Visiting /\ p \notin op[c].todo /\ <<p, g>> \in written
          BY <2>2, <3>1, <4>2, Zenon DEF Visiting
        <5> QED
          BY <2>1, <2>2, <2>4, <4>2, <5>1, Zenon DEF ClearedAt
      <4> QED
        BY <1>a, <2>2, <3>3, <4>1, <4>3, <4>4, Zenon
    <3> QED
      BY <3>2, <3>3, Zenon
  <2> QED
    BY <2>3, <2>4, Zenon
<1>6. CASE change_wired(c)
  BY <1>1, <1>6, WiredSame, Zenon
<1> QED
  BY <1>1, <1>2, <1>3, <1>4, <1>5, <1>6, StepMarks, ChangeCarries, Zenon

\* Every step keeps it that pages written are known to be modified.
LEMMA MarkedKept ==
    ASSUME Types, LockHeld, SystemLock, ClearsItsPage, Writing, SetsMatch, NEW c \in Cpus,
           Steps(c), WrittenIn, Changing, Cleared, Cached, Marked
    PROVE  Marked'
<1> SUFFICES ASSUME ~early', ~unsignalled', NEW x \in written' PROVE Known(x)'
  BY Zenon DEF Marked
<1>1. ~early /\ ~unsignalled
  BY StepSets, Zenon DEF SetFrame
<1>2. ChangeAt(c) /\ ClearedAt(c) /\ (\A q \in Pmaps : CachedAt(c, q)) /\ (\A y \in written : Known(y))
  BY <1>1, Zenon DEF Changing, Cleared, Cached, Marked
<1> QED
  BY <1>2, OneMarked, Zenon

\* What another processor's phys_attribute_clear has visited stays cleared or marked.
LEMMA OtherCleared ==
    ASSUME Types, LockHeld, SystemLock, ClearsItsPage, Writing, SetsMatch, NEW c \in Cpus,
           Steps(c),
           \A q \in Pmaps : CachedAt(c, q), NEW a \in Cpus \ {c}, ClearedAt(a)
    PROVE  ClearedAt(a)'
<1>1. pc'[a] = pc[a] /\ op'[a] = op[a]
  BY StepPc, StepOp, Zenon DEF PcFrame, OpFrame
<1>g. PICK g : g = op[a].page
  OBVIOUS
<1> SUFFICES ASSUME op[a].fn = "clear", pc[a] \in Locked \cup {"walk"}, NEW p \in Pmaps, pte'[p] # NoPte, pte'[p].page = g
             PROVE  \/ p \in op[a].todo \/ (p = op[a].pmap /\ pc[a] \in Visiting)
                    \/ <<p, g>> \in written' => pte'[p].mod
  BY <1>1, <1>g, Zenon DEF ClearedAt, PvList, Mapped
<1>2. writer = a /\ readers = {} /\ SystemAt(c)
  <2>1. SystemAt(a) /\ "clear" \in Writers
    BY Apart, Zenon DEF SystemLock
  <2>2. writer = a
    BY <2>1, Zenon DEF SystemAt
  <2>3. pc[a] # "drain"
    BY Zenon DEF Locked
  <2> QED
    BY <2>1, <2>2, <2>3, Zenon DEF SystemAt, SystemLock
<1>3. pte[p] # NoPte /\ pte[p].page = g
  BY <1>2, StepPv, Zenon DEF PvKept
<1>4. p \in PvList(g)
  BY <1>3, Zenon DEF PvList, Mapped
<1>5. \/ p \in op[a].todo \/ (p = op[a].pmap /\ pc[a] \in Visiting)
      \/ <<p, g>> \in written => pte[p].mod
  BY <1>g, <1>4, Zenon DEF ClearedAt
<1> SUFFICES ASSUME <<p, g>> \in written => pte[p].mod PROVE <<p, g>> \in written' => pte'[p].mod
  BY <1>5, Zenon
<1>6. CASE Changeless(c)
  BY <1>6, Zenon DEF Changeless
<1>7. CASE Changes(c)
  <2>0. pc[c] = "change" /\ pc[c] \in Locked
    BY <1>7, ChangesEdit, Zenon DEF Edits, Locked
  <2>1. op[c].fn \notin Readers \cup Writers
    BY <1>2, <2>0, Zenon DEF SystemAt
  <2>2. change_protect(c)
    BY <1>7, <2>1, ChangeFn, Apart, Zenon DEF change_clear, Writers
  <2>3. pte'[p].mod = pte[p].mod
    BY <1>3, <2>2, ProtectMod, Zenon
  <2>4. written' = written
    BY <2>2, Zenon DEF change_protect, history
  <2> QED
    BY <2>3, <2>4, Zenon
<1>8. CASE write_end(c)
  <2>1. PICK q : q = op[c].target
    OBVIOUS
  <2>2. q \in Pmaps /\ CachedAt(c, q)
    BY <1>8, <2>1, WriteEffect, Zenon
  <2>3. written' = written \cup {<<q, tlb[c][q].page>>} /\ pte'[q].mod
    BY <1>8, <2>1, <2>2, WriteMarks, Zenon
  <2>4. \A m \in Pmaps \ {q} : pte'[m] = pte[m]
    BY <1>8, <2>1, <2>2, WriteMarks, Zenon
  <2>5. CASE p = q
    BY <2>3, <2>5, Zenon
  <2>6. CASE p # q
    <3>1. <<p, g>> # <<q, tlb[c][q].page>>
      BY <2>6, Zenon
    <3> QED
      BY <2>3, <2>4, <2>6, <3>1, Zenon
  <2> QED
    BY <2>5, <2>6, Zenon
<1>9. CASE lock_write_done(c)
  <2>1. pc[c] = "walk"
    BY <1>9, Zenon DEF lock_write_done, Move
  <2> QED
    BY <1>2, <2>1, Zenon DEF SystemAt
<1>10. CASE change_wired(c)
  <2>1. pc[c] = "rewrite" /\ pc[c] \in Locked
    BY <1>10, Zenon DEF change_wired, Move, Locked
  <2>2. op[c].fn \in Readers
    BY <1>2, <2>1, Zenon DEF SystemAt, Readers
  <2> QED
    BY <1>2, <2>1, <2>2, Zenon DEF SystemAt
<1> QED
  BY <1>6, <1>7, <1>8, <1>9, <1>10, StepMarks, Zenon

\* phys_attribute_clear goes through the whole pv list.
LEMMA OwnCleared ==
    ASSUME Types, LockHeld, SystemLock, ClearsItsPage, Writing, SetsMatch, NEW c \in Cpus,
           Steps(c), ClearedAt(c)
    PROVE  ClearedAt(c)'
<1> DEFINE Goal == ClearedAt(c)'
<1> SUFFICES ASSUME op'[c].fn = "clear", pc'[c] \in Locked \cup {"walk"} PROVE Goal
  BY Zenon DEF ClearedAt
<1> USE DEF Move, Goto, maps, history
<1>t. pc \in [Cpus -> Stages] /\ op[c].pmap \in Pmaps /\ op[c] \in Operations /\ SystemAt(c)
  BY OpType, Zenon DEF Types, SystemLock
<1>j. Starts(c) \/ (op'[c].page = op[c].page /\ op'[c].pmap = op[c].pmap /\ op'[c].todo = op[c].todo /\ op[c].fn = "clear")
  <2>1. "clear" \notin Collects
    BY Apart, Zenon
  <2> QED
    BY <2>1, StepJob, Zenon DEF Kept, SameJob
<1>n. pc'[c] \notin Locked \cup {"walk"} => Goal
  OBVIOUS
<1>s. /\ pte' = pte /\ written' = written /\ pc[c] \in Locked \cup {"walk"} /\ (pc[c] \in Visiting => pc'[c] \in Visiting)
      /\ op'[c].page = op[c].page /\ op'[c].pmap = op[c].pmap /\ op'[c].todo = op[c].todo /\ op[c].fn = "clear"
      => Goal
  BY Zenon DEF ClearedAt, PvList, Mapped
<1>v. /\ pte' = pte /\ written' = written /\ ~Starts(c) /\ pc[c] \in Visiting /\ pc'[c] \in Visiting => Goal
  BY <1>j, <1>s, Zenon DEF Visiting, Locked
<1>e. (\A p \in Pmaps : pte'[p] # NoPte /\ pte'[p].page = op'[c].page =>
          \/ p \in op'[c].todo \/ (p = op'[c].pmap /\ pc'[c] \in Visiting)
          \/ <<p, op'[c].page>> \in written' => pte'[p].mod) => Goal
  BY Zenon DEF ClearedAt, PvList, Mapped
<1> HIDE DEF Goal
<1>1. CASE Enters(c)
  <2>1. PICK o \in Operations, l \in Stages : Call(c, o, l) /\ Begins(o, l)
    BY <1>1, Zenon DEF Enters
  <2>2. op'[c] = o /\ pc'[c] = l
    BY <1>t, <2>1, NewOp, Zenon DEF Call
  <2> QED
    BY <2>1, <2>2, Zenon DEF Begins, Locked
<1>2. CASE Moves(c)
  BY <1>2, <1>n, MovesAway, Zenon DEF Elsewhere, Locked
<1>3. CASE Changes(c)
  <2>1. pc[c] = "change" /\ SameOp(op'[c], op[c])
    BY <1>3, ChangesEdit, Zenon DEF Edits
  <2>2. op[c].fn = "clear"
    BY <1>j, <2>1, Zenon DEF Starts
  <2>3. change_clear(c)
    BY <1>3, <2>2, ChangeFn, Apart, Zenon DEF Readers, Collects, change_protect
  <2>4. PICK q : q = op[c].pmap
    OBVIOUS
  <2>5. PICK g : g = op[c].page
    OBVIOUS
  <2>6. q \in Pmaps /\ op' = op /\ written' = written \ {<<q, g>>}
    BY <2>3, <2>4, <2>5, ClearEffect, Zenon
  <2>7. pte \in [Pmaps -> Pte \cup {NoPte}]
    BY Zenon DEF Types
  <2>8. \A p \in Pmaps \ {q} : pte'[p] = pte[p]
    BY <2>3, <2>4, <2>6, <2>7, Zenon DEF change_clear
  <2>9. ASSUME NEW p \in Pmaps, pte'[p] # NoPte, pte'[p].page = op'[c].page
        PROVE  p \in op'[c].todo \/ (<<p, op'[c].page>> \in written' => pte'[p].mod)
    <3>1. CASE p = q
      BY <2>5, <2>6, <3>1, Zenon
    <3>2. CASE p # q
      <4>1. pte'[p] = pte[p] /\ p \in PvList(g)
        BY <2>5, <2>6, <2>8, <2>9, <3>2, Zenon DEF PvList, Mapped
      <4>2. p \in op[c].todo \/ (<<p, g>> \in written => pte[p].mod)
        BY <2>1, <2>2, <2>4, <2>5, <3>2, <4>1, Zenon DEF ClearedAt, Locked
      <4> QED
        BY <2>5, <2>6, <4>1, <4>2, Zenon
    <3> QED
      BY <3>1, <3>2, Zenon
  <2> QED
    BY <1>e, <2>9, Zenon
<1>4. ASSUME NEW q \in Pmaps, tlb_load(c, q) PROVE Goal
  BY <1>4, <1>n, Zenon DEF tlb_load, Locked
<1>5. ASSUME NEW q \in Pmaps, write_start(c, q) PROVE Goal
  BY <1>5, <1>t, <1>n, Zenon DEF write_start, Locked
<1>6. ASSUME NEW q \in Pmaps, switch_context(c, q) PROVE Goal
  BY <1>6, <1>t, <1>n, Zenon DEF switch_context, Locked
<1>7. ASSUME NEW q \in Pmaps, next_mapping(c, q) PROVE Goal
  <2>1. /\ pc[c] = "walk" /\ pc'[c] = "lock" /\ pte' = pte /\ written' = written
        /\ op' = [op EXCEPT ![c].pmap = q, ![c].todo = @ \ {q}]
    BY <1>7, <1>t, Zenon DEF next_mapping
  <2>2. SameCall(op'[c], op[c]) /\ op'[c].pmap = q /\ op'[c].todo = op[c].todo \ {q}
    BY <2>1, NewPmap, Zenon
  <2>3. op'[c].page = op[c].page /\ op[c].fn = "clear"
    BY <2>2, Zenon DEF SameCall
  <2>4. ASSUME NEW p \in Pmaps, pte'[p] # NoPte, pte'[p].page = op'[c].page
        PROVE  \/ p \in op'[c].todo \/ (p = op'[c].pmap /\ pc'[c] \in Visiting)
               \/ <<p, op'[c].page>> \in written' => pte'[p].mod
    <3>1. p \in PvList(op[c].page) /\ pc[c] \notin Visiting
      BY <2>1, <2>3, <2>4, Zenon DEF PvList, Mapped, Visiting
    <3>2. p \in op[c].todo \/ (<<p, op[c].page>> \in written => pte[p].mod)
      BY <2>1, <2>3, <3>1, Zenon DEF ClearedAt
    <3>3. CASE p \in op[c].todo
      BY <2>1, <2>2, <3>3, Zenon DEF Visiting
    <3>4. CASE <<p, op[c].page>> \in written => pte[p].mod
      <4>0. pte' = pte /\ written' = written
        BY <2>1, Zenon
      <4>1. <<p, op'[c].page>> \in written' => pte'[p].mod
        BY <2>3, <3>4, <4>0, Zenon
      <4> QED
        BY <4>1, Zenon
    <3> QED
      BY <3>2, <3>3, <3>4, Zenon
  <2> QED
    BY <1>e, <2>4, Zenon
<1>8. ASSUME NEW q \in Pmaps, launched(c, q) PROVE Goal
  BY <1>8, <1>t, <1>n, Zenon DEF launched, Locked
<1>9. ASSUME NEW x \in Cpus, signal_queue(c, x) PROVE Goal
  <2>1. pc[c] \in {"update", "signal", "send"} /\ pc'[c] \in Visiting /\ pte' = pte /\ written' = written
    BY <1>9, <1>t, Zenon DEF signal_queue, Visiting
  <2> QED
    BY <1>v, <2>1, Zenon DEF Starts, Visiting
<1>10. CASE PMAP_DEACTIVATE_KERNEL(c)
  BY <1>10, <1>t, <1>n, Zenon DEF PMAP_DEACTIVATE_KERNEL, Locked
<1>11. CASE write_end(c)
  BY <1>11, <1>t, <1>n, Zenon DEF write_end, Locked
<1>12. CASE lock_read(c)
  <2>1. pc[c] = "read" /\ "clear" \notin Readers
    BY <1>12, Apart, Zenon DEF lock_read
  <2> QED
    BY <1>j, <1>t, <2>1, Zenon DEF SystemAt, Starts
<1>13. CASE want_write(c)
  BY <1>13, <1>t, <1>n, Zenon DEF want_write, Locked
<1>14. CASE lock_write(c)
  <2>1. /\ pc[c] = "drain" /\ pte' = pte
        /\ op' = [op EXCEPT ![c].todo = IF op[c].fn = "test" /\ op[c].page \in attributes THEN {} ELSE PvList(op[c].page)]
    BY <1>14, Zenon DEF lock_write
  <2>2. PICK s : s = IF op[c].fn = "test" /\ op[c].page \in attributes THEN {} ELSE PvList(op[c].page)
    OBVIOUS
  <2>3. s \in SUBSET Pmaps /\ op' = [op EXCEPT ![c].todo = s]
    BY <2>1, <2>2, Zenon DEF PvList
  <2>4. SameCall(op'[c], op[c]) /\ op'[c].todo = s
    BY <2>3, NewTodo, Zenon
  <2>5. op'[c].page = op[c].page /\ s = PvList(op[c].page)
    BY <2>2, <2>4, Zenon DEF SameCall
  <2>6. \A p \in Pmaps : pte'[p] # NoPte /\ pte'[p].page = op'[c].page => p \in op'[c].todo
    BY <2>1, <2>4, <2>5, Zenon DEF PvList, Mapped
  <2> QED
    BY <1>e, <2>6, Zenon
<1>15. CASE lock_write_done(c)
  BY <1>15, <1>t, <1>n, Zenon DEF lock_write_done, Locked
<1>16. CASE simple_lock(c)
  <2>1. pc[c] = "lock" /\ pc'[c] = AfterLock(op[c]) /\ pte' = pte /\ written' = written
    BY <1>16, <1>t, Zenon DEF simple_lock
  <2>2. op[c].fn = "clear"
    BY <1>j, <2>1, Zenon DEF Starts
  <2>3. pc'[c] = "update"
    BY <2>1, <2>2, Zenon DEF AfterLock
  <2> QED
    BY <1>v, <2>1, <2>3, Zenon DEF Starts, Visiting
<1>17. CASE simple_unlock(c)
  <2>1. pc[c] = "unlock" /\ pte' = pte /\ written' = written
    BY <1>17, Zenon DEF simple_unlock
  <2>2. CASE writer = c
    <3>1. op' = [op EXCEPT ![c] = op[c]]
      BY <1>17, <2>2, Zenon DEF simple_unlock
    <3>2. op'[c] = op[c]
      BY <1>t, <3>1, NewOp, Zenon
    <3> QED
      BY <1>s, <2>1, <3>2, Zenon DEF Locked, Visiting
  <2>3. CASE writer # c
    BY <1>17, <1>n, <1>t, <2>3, Zenon DEF simple_unlock, Locked
  <2> QED
    BY <2>2, <2>3, Zenon
<1>18. CASE signal_check(c)
  <2>1. pc[c] \in {"update", "signal", "send"} /\ pc'[c] \in Visiting /\ pte' = pte /\ written' = written
    BY <1>18, <1>t, Zenon DEF signal_check, Visiting
  <2> QED
    BY <1>v, <2>1, Zenon DEF Starts, Visiting
<1>19. CASE signal_interrupt(c)
  <2>1. pc[c] \in {"update", "signal", "send"} /\ pc'[c] \in Visiting /\ pte' = pte /\ written' = written
    BY <1>19, <1>t, Zenon DEF signal_interrupt, Visiting
  <2> QED
    BY <1>v, <2>1, Zenon DEF Starts, Visiting
<1>20. CASE update_wait(c)
  <2>1. pc[c] \in {"update", "signal", "send"} /\ pc'[c] \in Visiting /\ pte' = pte /\ written' = written
    BY <1>20, <1>t, Zenon DEF update_wait, Visiting
  <2> QED
    BY <1>v, <2>1, Zenon DEF Starts, Visiting
<1>21. CASE change_wired(c)
  <2>1. pc[c] = "rewrite"
    BY <1>21, Zenon DEF change_wired
  <2> QED
    BY <1>j, <1>t, <2>1, Zenon DEF SystemAt, Starts
<1>22. CASE pmap_update_interrupt(c)
  BY <1>22, <1>t, <1>n, Zenon DEF pmap_update_interrupt, Interrupted, Locked
<1>23. CASE idle_interrupt(c)
  BY <1>23, <1>n, Zenon DEF idle_interrupt, Locked
<1>24. CASE process_updates(c)
  BY <1>24, <1>t, <1>n, Zenon DEF process_updates, process_pmap_updates, flush_tlb, Locked
<1>25. CASE switch_to_kernel(c)
  BY <1>25, <1>t, <1>n, Zenon DEF switch_to_kernel, set_dirbase, flush_tlb, Locked
<1>26. CASE PMAP_ACTIVATE_USER(c)
  BY <1>26, <1>t, <1>n, Zenon DEF PMAP_ACTIVATE_USER, set_dirbase, flush_tlb, Locked
<1>27. CASE user_activated(c)
  BY <1>27, <1>t, <1>n, Zenon DEF user_activated, Locked
<1>28. CASE PMAP_ACTIVATE_KERNEL(c)
  BY <1>28, <1>t, <1>n, Zenon DEF PMAP_ACTIVATE_KERNEL, process_pmap_updates, flush_tlb, Locked
<1> QED
  BY <1>1, <1>2, <1>3, <1>4, <1>5, <1>6, <1>7, <1>8, <1>9, <1>10, <1>11, <1>12, <1>13, <1>14,
     <1>15, <1>16, <1>17, <1>18, <1>19, <1>20, <1>21, <1>22, <1>23, <1>24, <1>25, <1>26, <1>27,
     <1>28, Zenon DEF Steps

\* Every step keeps what phys_attribute_clear has done.
LEMMA ClearedKept ==
    ASSUME Types, LockHeld, SystemLock, ClearsItsPage, Writing, SetsMatch, NEW c \in Cpus,
           Steps(c), Cached, Cleared
    PROVE  Cleared'
<1> SUFFICES ASSUME ~early', ~unsignalled', NEW a \in Cpus PROVE ClearedAt(a)'
  BY Zenon DEF Cleared
<1>1. ~early /\ ~unsignalled
  BY StepSets, Zenon DEF SetFrame
<1>2. ClearedAt(a) /\ \A q \in Pmaps : CachedAt(c, q)
  BY <1>1, Zenon DEF Cleared, Cached
<1>3. CASE a = c
  BY <1>2, <1>3, OwnCleared, Zenon
<1>4. CASE a # c
  BY <1>2, <1>4, OtherCleared, Zenon
<1> QED
  BY <1>3, <1>4, Zenon

-----------------------------------------------------------------------------
(***************************************************************************)
(* The invariant, and what follows from it.                                *)
(***************************************************************************)
\* Type correctness, initially.
LEMMA InitTypes == ASSUME Init PROVE Types
<1>0. kernel_pmap \in Pmaps /\ "run" \in Stages /\ TRUE \in BOOLEAN /\ FALSE \in BOOLEAN
  BY PmapAssumption, Zenon DEF Stages
<1>1. pte \in [Pmaps -> Pte \cup {NoPte}]
  <2>1. \A g \in Pages, w \in BOOLEAN, m \in BOOLEAN : Entry(g, w, m) \in Pte
    BY EntryFields, Zenon
  <2>2. {Entry(g, TRUE, FALSE) : g \in Pages} \subseteq Pte \cup {NoPte}
    BY <1>0, <2>1, Zenon
  <2>3. pte \in [Pmaps -> {Entry(g, TRUE, FALSE) : g \in Pages}]
    BY Zenon DEF Init
  <2> QED
    BY <2>2, <2>3, Zenon
<1>2. tlb \in [Cpus -> [Pmaps -> Pte \cup {NoPte}]]
  BY EmptyTlbType, Zenon DEF Init
<1>3. lock \in [Pmaps -> Cpus \cup {None}]
  BY Zenon DEF Init
<1>4. cpus_using \in [Pmaps -> SUBSET Cpus]
  BY Zenon DEF Init
<1>5. update_list \in [Cpus -> Seq(Pmaps)]
  <2>1. <<>> \in Seq(Pmaps)
    BY SMT
  <2> QED
    BY <2>1, Zenon DEF Init
<1>6. dirbase \in [Cpus -> Pmaps] /\ pc \in [Cpus -> Stages] /\ users \in [Cpus -> SUBSET Cpus]
  BY <1>0, Zenon DEF Init
<1>7. op \in [Cpus -> Operations]
  BY NoOp, Zenon DEF Init
<1> QED
  BY <1>1, <1>2, <1>3, <1>4, <1>5, <1>6, <1>7, Zenon DEF Types

\* The invariant holds when the processors have been started.
LEMMA InitInv == ASSUME Init PROVE IInv
<1>0. kernel_pmap \in Pmaps /\ None \notin Cpus
  BY PmapAssumption, Zenon
<1>1. Types
  BY InitTypes, Zenon
<1>2. \A c \in Cpus : pc[c] = "run" /\ op[c] = NoOperation /\ dirbase[c] = kernel_pmap
  BY Zenon DEF Init
<1>3. \A c \in Cpus : op[c].fn = "none"
  BY <1>2, NoOp, Zenon
<1>4. LockHeld
  BY <1>2, Zenon DEF LockHeld, LockAt, Holding
<1>5. SetsMatch
  <2>1. \A p \in Pmaps : cpus_using[p] = IF p = kernel_pmap THEN Cpus ELSE {}
    BY Zenon DEF Init
  <2>2. cpus_active = Cpus /\ cpus_idle = {}
    BY Zenon DEF Init
  <2> SUFFICES ASSUME NEW c \in Cpus PROVE SetsAt(c)
    BY Zenon DEF SetsMatch
  <2>3. pc[c] = "run" /\ dirbase[c] = kernel_pmap
    BY <1>2, Zenon
  <2>4. c \in cpus_active <=> pc[c] \in Active
    BY <2>2, <2>3, Zenon DEF Active
  <2>5. c \in cpus_idle <=> pc[c] \in Idle
    BY <2>2, <2>3, Zenon DEF Idle
  <2>6. c \in cpus_using[kernel_pmap] <=> pc[c] \notin {"off", "launch"}
    BY <1>0, <2>1, <2>3, Zenon
  <2>7. \A p \in Pmaps \ {kernel_pmap} : c \in cpus_using[p] <=> dirbase[c] = p /\ pc[c] \notin {"switch", "use"}
    BY <2>1, <2>3, Zenon
  <2> QED
    BY <2>3, <2>4, <2>5, <2>6, <2>7, Zenon DEF SetsAt
<1>6. SystemLock
  <2>1. \A f : f = "none" => f \notin Writers /\ f # "enter"
    BY Apart, Zenon
  <2>2. writer = None
    BY Zenon DEF Init
  <2> SUFFICES ASSUME NEW c \in Cpus PROVE SystemAt(c)
    BY Zenon DEF SystemLock
  <2>3. pc[c] = "run" /\ op[c].fn = "none" /\ writer # c
    BY <1>0, <1>2, <1>3, <2>2, Zenon
  <2> QED
    BY <2>1, <2>3, Zenon DEF SystemAt, Locked
<1>7. ClearsItsPage
  BY <1>2, Zenon DEF ClearsItsPage, ClearsAt, Locked
<1>8. Signalling
  BY <1>2, Zenon DEF Signalling, SignalAt
<1>9. Changing
  BY <1>2, Zenon DEF Changing, ChangeAt
<1>10. Writing
  BY <1>2, Zenon DEF Writing, WritesAt
<1>11. Cached
  <2>1. \A c \in Cpus, p \in Pmaps : tlb[c][p] = NoPte
    BY EmptyTlbType, Zenon DEF Init
  <2> QED
    BY <2>1, Zenon DEF Cached, CachedAt
<1>12. Cleared
  BY <1>2, Zenon DEF Cleared, ClearedAt, Locked
<1>13. Marked /\ WrittenIn
  BY Zenon DEF Init, Marked, WrittenIn
<1> QED
  BY <1>1, <1>4, <1>5, <1>6, <1>7, <1>8, <1>9, <1>10, <1>11, <1>12, <1>13, Zenon DEF IInv

\* Every step keeps it.
LEMMA StepInv == ASSUME IInv, NEW c \in Cpus, Steps(c) PROVE IInv'
<1>0. /\ Types /\ LockHeld /\ SetsMatch /\ SystemLock /\ ClearsItsPage /\ Signalling /\ Changing
      /\ Writing /\ Cached /\ Marked /\ Cleared /\ WrittenIn
  BY Zenon DEF IInv
<1>1. Types' /\ LockHeld' /\ SystemLock' /\ ClearsItsPage' /\ Writing'
  BY <1>0, TypesKept, LockKept, SystemKept, ClearsKept, WritingKept, Zenon
<1>2. SetsMatch'
  BY <1>0, SetsKept, Zenon
<1>3. Signalling'
  BY <1>0, SignallingKept, Zenon
<1>4. Changing'
  BY <1>0, ChangingKept, Zenon
<1>5. Cached'
  BY <1>0, CachedKept, Zenon
<1>6. Marked'
  BY <1>0, MarkedKept, Zenon
<1>7. Cleared'
  BY <1>0, ClearedKept, Zenon
<1>8. WrittenIn'
  BY <1>0, WrittenInKept, Zenon
<1> QED
  BY <1>1, <1>2, <1>3, <1>4, <1>5, <1>6, <1>7, <1>8, Zenon DEF IInv

\* And so does a step that changes nothing.
LEMMA StutterInv == ASSUME IInv, UNCHANGED vars PROVE IInv'
<1>0. /\ pte' = pte /\ tlb' = tlb /\ lock' = lock /\ cpus_using' = cpus_using /\ update_list' = update_list
      /\ dirbase' = dirbase /\ pc' = pc /\ op' = op /\ users' = users /\ readers' = readers
      /\ writer' = writer /\ cpus_active' = cpus_active /\ cpus_idle' = cpus_idle
      /\ interrupt' = interrupt /\ attributes' = attributes /\ written' = written
      /\ unsignalled' = unsignalled /\ early' = early
  BY Zenon DEF vars, maps, locks, sets, requests, history
<1>t. Types' <=> Types
  BY <1>0 DEF Types
<1>1. LockHeld' <=> LockHeld
  BY <1>0 DEF LockHeld, LockAt
<1>2. SetsMatch' <=> SetsMatch
  BY <1>0, ZenonT(60) DEF SetsMatch, SetsAt
<1>3. SystemLock' <=> SystemLock
  BY <1>0, ZenonT(60) DEF SystemLock, SystemAt
<1>4. \A g : PvList(g)' = PvList(g)
  BY <1>0 DEF PvList, Mapped
<1>5. ClearsItsPage' <=> ClearsItsPage
  BY <1>0, Zenon DEF ClearsItsPage, ClearsAt, PvList, Mapped
<1>6. Signalling' <=> Signalling
  BY <1>0, SMTT(60) DEF Signalling, SignalAt, Asked, Requested
<1>7. Changing' <=> Changing
  BY <1>0, SMTT(60) DEF Changing, ChangeAt, Quiet, Asked, Requested
<1>8. Writing' <=> Writing
  BY <1>0 DEF Writing, WritesAt, InSpace
<1>9. Cached' <=> Cached
  BY <1>0, Zenon DEF Cached, CachedAt, InSpace, Flushes, Requested
<1>10. Marked' <=> Marked
  BY <1>0 DEF Marked, Known, Mapped
<1>11. Cleared' <=> Cleared
  BY <1>0 DEF Cleared, ClearedAt, PvList, Mapped
<1>12. WrittenIn' <=> WrittenIn
  BY <1>0 DEF WrittenIn
<1> QED
  BY <1>t, <1>1, <1>2, <1>3, <1>5, <1>6, <1>7, <1>8, <1>9, <1>10, <1>11, <1>12, Zenon DEF IInv

\* The invariant is inductive.
LEMMA NextInv == IInv /\ [Next]_vars => IInv'
<1> SUFFICES ASSUME IInv, [Next]_vars PROVE IInv'
  OBVIOUS
<1>1. CASE Next
  <2>1. Types
    BY Zenon DEF IInv
  <2>2. PICK c \in Cpus : Steps(c)
    BY <1>1, <2>1, NextSteps, Zenon
  <2> QED
    BY <2>2, StepInv, Zenon
<1>2. CASE UNCHANGED vars
  BY <1>2, StutterInv, Zenon
<1> QED
  BY <1>1, <1>2, Zenon

\* The invariant gives the properties.
LEMMA InvCoherent == IInv => TlbCoherent
<1> SUFFICES ASSUME IInv, ~unsignalled, ~early, NEW c \in Cpus, NEW p \in Pmaps,
                    CanUse(c), InSpace(c, p), tlb[c][p] # NoPte
             PROVE  Agrees(tlb[c][p], pte[p])
  BY Zenon DEF TlbCoherent, Coherent
<1>1. CachedAt(c, p)
  BY Zenon DEF IInv, Cached
<1>2. ~Flushes(c, p)
  BY Zenon DEF CanUse, Flushes, Flushing, Taking
<1> QED
  BY <1>1, <1>2, Zenon DEF CachedAt

\* A writer uses the pmap, so that whoever changes it has waited for the
\* writer.
LEMMA InvNoImplicit == IInv => NoImplicitUpdate
<1> SUFFICES ASSUME IInv, ~unsignalled, ~early, NEW c \in Cpus, NEW d \in Cpus,
                    pc[c] = "change", pc[d] = "write", d # c, op[d].target = op[c].pmap
             PROVE  FALSE
  BY Zenon DEF NoImplicitUpdate
<1>0. Types /\ Writing /\ SetsMatch /\ ChangeAt(c) /\ \A p \in Pmaps : CachedAt(d, p)
  BY Zenon DEF IInv, Changing, Cached
<1>1. PICK p : p = op[c].pmap
  OBVIOUS
<1>2. p \in Pmaps /\ InSpace(d, p) /\ tlb[d][p] # NoPte
  BY <1>0, <1>1, Zenon DEF Writing, WritesAt
<1>3. d \in cpus_using[p]
  BY <1>0, <1>1, <1>2, WriterUses, Zenon
<1>4. CASE pte[p] = NoPte
  <2>1. ~Flushes(d, p)
    BY Zenon DEF Flushes, Flushing, Taking
  <2> QED
    BY <1>0, <1>2, <1>4, <2>1, Zenon DEF CachedAt, Agrees
<1>5. CASE Quiet(c, p)
  BY <1>3, <1>5, Zenon DEF Quiet
<1> QED
  BY <1>0, <1>1, <1>4, <1>5, Zenon DEF ChangeAt

\* A user that was asked and is still active is on its way to answer.
LEMMA InvNoCycle == IInv => NoWaitCycle
<1> SUFFICES ASSUME IInv, ~early, NEW c \in Cpus, NEW d \in Cpus, pc[c] = "update", users[c] = {}, d # c,
                    d \in cpus_using[op[c].pmap], d \in cpus_active
             PROVE  ~Spins(d) /\ (pc[d] = "run" => d \in interrupt)
  BY Zenon DEF NoWaitCycle
<1>0. Types /\ SetsAt(d) /\ SignalAt(c, d)
  BY Zenon DEF IInv, SetsMatch, Signalling
<1>1. PICK p : p = op[c].pmap
  OBVIOUS
<1>2. p \in Pmaps /\ kernel_pmap \in Pmaps
  BY <1>0, <1>1, OpType, PmapAssumption, Zenon
<1>3. Asked(d, p)
  BY <1>0, <1>1, Zenon DEF SignalAt
<1>4. pc[d] \in Active
  BY <1>0, Zenon DEF SetsAt
<1>5. pc[d] # "off"
  BY <1>0, <1>1, <1>2, Zenon DEF SetsAt
<1>6. ~Spins(d)
  BY <1>4, <1>5, Zenon DEF Spins, Active
<1>7. pc[d] = "run" => d \in interrupt
  BY <1>3, Zenon DEF Asked
<1> QED
  BY <1>6, <1>7, Zenon

\* Marks are known where the property says.
LEMMA InvModify == IInv => ModifyKept
  BY Zenon DEF IInv, Marked, Known, ModifyKept

\* The invariant holds throughout.
LEMMA Inductive == Spec => []IInv
<1>1. Init => IInv
  BY InitInv
<1> QED
  BY <1>1, NextInv, PTL DEF Spec

\* No processor uses a translation that differs from the page table's: the
\* signals, waits and flushes of PMAP_UPDATE_TLBS and pmap_update_interrupt are
\* enough, with processors that switch, idle, stop and start.
THEOREM Coherence == Spec => []TlbCoherent
  BY Inductive, InvCoherent, PTL

\* No modify bit is being set in an entry while PMAP_UPDATE_TLBS' caller changes it.
THEOREM UpdateAlone == Spec => []NoImplicitUpdate
  BY Inductive, InvNoImplicit, PTL

\* A page written since phys_attribute_clear is known to be modified.
THEOREM ModifyBits == Spec => []ModifyKept
  BY Inductive, InvModify, PTL

\* PMAP_UPDATE_TLBS waits for no processor that itself waits.
THEOREM WaitsEnd == Spec => []NoWaitCycle
  BY Inductive, InvNoCycle, PTL
=============================================================================
