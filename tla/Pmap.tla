------------------------------- MODULE Pmap --------------------------------
(***************************************************************************)
(* Physical maps on a multiprocessor: the locks on pmaps, the changes of   *)
(* page-table entries, and the interrupts that keep the translation        *)
(* buffers (TLBs) of the other processors consistent with them             *)
(* (mach4-i386/kernel/intel/pmap.c and pmap.h).                            *)
(*                                                                         *)
(* A pmap maps one virtual page here; its entry is NoPte or says which     *)
(* physical page is mapped, whether it may be written, and whether it was  *)
(* (the hardware's modify bit). The wired bit is left out.                 *)
(*                                                                         *)
(* Hardware: a processor at low priority loads entries in its TLB and      *)
(* writes through them. A write that has started ends whatever arrives;    *)
(* none starts before a pending interrupt is taken. Code at splvm or above *)
(* blocks the interrupt and touches no pageable memory.                    *)
(***************************************************************************)
EXTENDS Integers, Sequences

CONSTANTS
    Cpus,                   \* the processors
    Pmaps, kernel_pmap,     \* all pmaps, and the one every processor uses
    Pages,                  \* physical pages
    None, NoPte,
    UPDATE_LIST_SIZE,       \* update requests that a processor can queue
    MaxChoices              \* bound on what processors choose to do

ASSUME PmapAssumption ==
    /\ kernel_pmap \in Pmaps
    /\ None \notin Cpus
    /\ NoPte \notin [page : Pages, write : BOOLEAN, mod : BOOLEAN]
    /\ UPDATE_LIST_SIZE \in Nat \ {0}
    /\ MaxChoices \in Nat

VARIABLES
    pte,            \* [Pmaps -> entry], the page tables in memory
    tlb,            \* tlb[c][p], what processor c has cached of pmap p
    attributes,     \* pmap_phys_attributes: pages collected as modified
    lock,           \* [Pmaps -> Cpus or None], the simple lock of a pmap
    readers, writer,\* pmap_system_lock
    cpus_using,     \* [Pmaps -> SUBSET Cpus]
    cpus_active,    \* processors that may be using a pmap
    cpus_idle,
    interrupt,      \* processors with an update interrupt pending
    update_list,    \* [Cpus -> Seq(Pmaps)], cpu_update_list
    dirbase,        \* [Cpus -> Pmaps], the page directory in cr3
    pc, op,         \* where a processor is, and in which operation
    users,          \* [Cpus -> SUBSET Cpus], signal_cpus' use_list
    written,        \* history: <<p, page>>, page written through p and its
                    \* modify bit not cleared since
    unsignalled,    \* history: a pmap was changed without signalling its users
    early,          \* history: a request was taken from its list before the
                    \* interrupt that goes with it was sent
    choices         \* choices made so far

maps == <<pte, attributes>>
locks == <<lock, readers, writer>>
sets == <<cpus_using, cpus_active, cpus_idle>>
requests == <<interrupt, update_list>>
history == <<written, unsignalled, early>>
vars == <<maps, tlb, locks, sets, requests, dirbase, pc, op, users, history, choices>>

Pte == [page : Pages, write : BOOLEAN, mod : BOOLEAN]
Entry(g, w, m) == [page |-> g, write |-> w, mod |-> m]
Mapped(p) == pte[p] # NoPte
EmptyTlb == [p \in Pmaps |-> NoPte]

\* A call of the pmap interface: the function, the pmap or the page it is
\* about, the protection asked for, and the pmaps of the page's pv list that
\* are still to be visited; then the processor it is signalling (or the pmap
\* that is written through), and an entry it has read.
Operation(f, p, g, w) ==
    [page |-> g, write |-> w, fn |-> f, pmap |-> p, todo |-> {},
     target |-> None, old |-> NoPte]
NoOperation == Operation("none", kernel_pmap, None, FALSE)

Goto(c, l) == pc' = [pc EXCEPT ![c] = l]
Move(c, from, to) == pc[c] = from /\ Goto(c, to)

-----------------------------------------------------------------------------
(* The hardware.                                                           *)

flush_tlb(c) == tlb' = [tlb EXCEPT ![c] = EmptyTlb]

InSpace(c, p) == p \in {kernel_pmap, dirbase[c]}

tlb_load(c, p) ==
    /\ pc[c] = "run" /\ c \notin interrupt
    /\ InSpace(c, p) /\ tlb[c][p] = NoPte /\ Mapped(p)
    /\ tlb' = [tlb EXCEPT ![c][p] = pte[p]]
    /\ UNCHANGED <<maps, locks, sets, requests, dirbase, pc, op, users, history>>

write_start(c, p) ==
    /\ Move(c, "run", "write") /\ c \notin interrupt
    /\ InSpace(c, p) /\ tlb[c][p] # NoPte /\ tlb[c][p].write
    /\ op' = [op EXCEPT ![c].target = p]
    /\ UNCHANGED <<maps, tlb, locks, sets, requests, dirbase, users, history>>

\* The write is done; an entry that is cached without its modify bit has the
\* bit set, in the TLB and, if it is valid there, in memory.
write_end(c) ==
    LET p == op[c].target
        e == tlb[c][p]
    IN /\ Move(c, "write", "run")
       /\ written' = written \cup {<<p, e.page>>}
       /\ IF e.mod THEN UNCHANGED <<tlb, pte>>
          ELSE /\ tlb' = [tlb EXCEPT ![c][p].mod = TRUE]
               /\ pte' = IF Mapped(p) THEN [pte EXCEPT ![p].mod = TRUE] ELSE pte
       /\ op' = [op EXCEPT ![c].target = None]
       /\ UNCHANGED <<attributes, locks, sets, requests, dirbase, users, unsignalled, early>>

-----------------------------------------------------------------------------
(* Calls of the pmap interface: SPLVM (interrupts are blocked and the      *)
(* processor leaves cpus_active), then the locks of its protocol.          *)

\* Mutant: splvm without leaving cpus_active.
Call_StaysActive(c, o, l) ==
    /\ Move(c, "run", l) /\ c \notin interrupt
    /\ op' = [op EXCEPT ![c] = o]
    /\ UNCHANGED <<maps, tlb, locks, sets, requests, dirbase, users, history>>

Call(c, o, l) ==
    /\ Move(c, "run", l) /\ c \notin interrupt
    /\ op' = [op EXCEPT ![c] = o]
    /\ cpus_active' = cpus_active \ {c}
    /\ UNCHANGED <<maps, tlb, locks, cpus_using, cpus_idle, requests, dirbase, users, history>>

PMAP_READ_LOCK(c, o) == Call(c, o, "read")
PMAP_WRITE_LOCK(c, o) == Call(c, o, "want_write")
SPLVM(c, o) == Call(c, o, "lock")

pmap_remove(c, p) == PMAP_READ_LOCK(c, Operation("remove", p, None, FALSE))

\* Lowering to read-only; the kernel pmap's mapping is removed instead.
pmap_protect(c, p) ==
    IF p = kernel_pmap THEN pmap_remove(c, p)
    ELSE SPLVM(c, Operation("protect", p, None, FALSE))

pmap_enter(c, p, g, w) == PMAP_READ_LOCK(c, Operation("enter", p, g, w))

pmap_change_wiring(c, p) == PMAP_READ_LOCK(c, Operation("change_wiring", p, None, FALSE))

pmap_extract(c, p) == SPLVM(c, Operation("extract", p, None, FALSE))

pmap_collect(c, p) ==
    /\ p # kernel_pmap
    /\ PMAP_READ_LOCK(c, Operation("collect", p, None, FALSE))

\* w: lowered to read-only, otherwise every mapping of g is removed.
pmap_page_protect(c, g, w) == PMAP_WRITE_LOCK(c, Operation("page_protect", kernel_pmap, g, w))

phys_attribute_clear(c, g) == PMAP_WRITE_LOCK(c, Operation("clear", kernel_pmap, g, FALSE))

phys_attribute_test(c, g) == PMAP_WRITE_LOCK(c, Operation("test", kernel_pmap, g, FALSE))

-----------------------------------------------------------------------------
(* The locks.                                                              *)

PvList(g) == {p \in Pmaps : Mapped(p) /\ pte[p].page = g}

lock_read(c) ==
    /\ Move(c, "read", "lock")
    /\ writer = None
    /\ readers' = readers \cup {c}
    /\ UNCHANGED <<maps, tlb, lock, writer, sets, requests, dirbase, op, users, history>>

want_write(c) ==
    /\ Move(c, "want_write", "drain")
    /\ writer = None
    /\ writer' = c
    /\ UNCHANGED <<maps, tlb, lock, readers, sets, requests, dirbase, op, users, history>>

\* lock_write succeeds: the pv list of the page will not change. A page known
\* to be modified needs no test of its mappings.
lock_write(c) ==
    /\ Move(c, "drain", "walk")
    /\ readers = {}
    /\ op' = [op EXCEPT ![c].todo = IF op[c].fn = "test" /\ op[c].page \in attributes
                                    THEN {} ELSE PvList(op[c].page)]
    /\ UNCHANGED <<maps, tlb, locks, sets, requests, dirbase, users, history>>

next_mapping(c, p) ==
    /\ Move(c, "walk", "lock")
    /\ p \in op[c].todo
    /\ op' = [op EXCEPT ![c].pmap = p, ![c].todo = @ \ {p}]
    /\ UNCHANGED <<maps, tlb, locks, sets, requests, dirbase, users, history>>

\* The walk is over. Bits that were collected from mappings now gone are
\* cleared with the page's attributes.
lock_write_done(c) ==
    LET g == op[c].page IN
    /\ Move(c, "walk", "splx")
    /\ op[c].todo = {}
    /\ writer' = None
    /\ op' = [op EXCEPT ![c] = NoOperation]
    /\ IF op[c].fn = "clear"
       THEN /\ attributes' = attributes \ {g}
            /\ written' = {x \in written : x[2] = g => x[1] \in PvList(g)}
       ELSE UNCHANGED <<attributes, written>>
    /\ UNCHANGED <<pte, tlb, lock, readers, sets, requests, dirbase, users, unsignalled, early>>

\* What the holder of the pmap's lock does next: bring the TLBs up to date
\* before it changes an entry, change it at once, or only look.
AfterLock(o) ==
    CASE o.fn \in {"remove", "protect", "page_protect", "clear", "collect"} -> "update"
      [] o.fn = "enter" /\ Mapped(o.pmap)                                   -> "update"
      [] o.fn = "enter" /\ ~Mapped(o.pmap) /\ (o.pmap = kernel_pmap => o.write) -> "change"
      [] o.fn = "change_wiring" /\ Mapped(o.pmap)                           -> "rewrite"
      [] o.fn = "collect_more"                                              -> "change"
      [] OTHER                                                              -> "unlock"

\* pmap_change_wiring, and pmap_collect when it has let go of the lock to free
\* a page of page tables, do not signal.
Unsignalled(c) ==
    \/ op[c].fn = "change_wiring" /\ cpus_using[op[c].pmap] \ {c} # {}
    \/ op[c].fn = "collect_more" /\ cpus_using[op[c].pmap] # {}

simple_lock(c) ==
    LET p == op[c].pmap IN
    /\ Move(c, "lock", AfterLock(op[c]))
    /\ lock[p] = None
    /\ lock' = [lock EXCEPT ![p] = c]
    /\ op' = [op EXCEPT ![c].old = IF op[c].fn = "change_wiring" THEN pte[p] ELSE NoPte]
    /\ users' = [users EXCEPT ![c] = IF AfterLock(op[c]) = "update" THEN cpus_using[p] \ {c} ELSE {}]
    /\ unsignalled' = (unsignalled \/ Unsignalled(c))
    /\ UNCHANGED <<maps, tlb, readers, writer, sets, requests, dirbase, written, early>>

simple_unlock(c) ==
    /\ Move(c, "unlock", IF writer = c THEN "walk" ELSE "splx")
    /\ lock' = [lock EXCEPT ![op[c].pmap] = None]
    /\ readers' = readers \ {c}
    /\ op' = [op EXCEPT ![c] = IF writer = c \/ @.fn = "collect_more" THEN @ ELSE NoOperation]
    /\ UNCHANGED <<maps, tlb, writer, sets, requests, dirbase, users, history>>

SPLX(c) ==
    /\ Move(c, "splx", "run")
    /\ cpus_active' = cpus_active \cup {c}
    /\ UNCHANGED <<maps, tlb, locks, cpus_using, cpus_idle, requests, dirbase, op, users, history>>

-----------------------------------------------------------------------------
(* PMAP_UPDATE_TLBS.                                                       *)

\* A full list has its last request widened to everything.
Queue(l, p) ==
    IF Len(l) >= UPDATE_LIST_SIZE THEN [l EXCEPT ![UPDATE_LIST_SIZE] = kernel_pmap]
    ELSE Append(l, p)

cpu_update_needed(d) == update_list[d] # <<>>

signal_queue(c, d) ==
    /\ Move(c, "update", "signal")
    /\ d \in users[c]
    /\ update_list' = [update_list EXCEPT ![d] = Queue(@, op[c].pmap)]
    /\ op' = [op EXCEPT ![c].target = d]
    /\ users' = [users EXCEPT ![c] = @ \ {d}]
    /\ UNCHANGED <<maps, tlb, locks, sets, interrupt, dirbase, history>>

\* An idle processor is not interrupted: it takes its requests when it wakes.
signal_check(c) ==
    LET idles == op[c].target \in cpus_idle IN
    /\ Move(c, "signal", IF idles THEN "update" ELSE "send")
    /\ op' = [op EXCEPT ![c].target = IF idles THEN None ELSE @]
    /\ UNCHANGED <<maps, tlb, locks, sets, requests, dirbase, users, history>>

signal_interrupt(c) ==
    /\ Move(c, "send", "update")
    /\ interrupt' = interrupt \cup {op[c].target}
    /\ op' = [op EXCEPT ![c].target = None]
    /\ UNCHANGED <<maps, tlb, locks, sets, update_list, dirbase, users, history>>

\* Mutant: the others are signalled and not waited for.
update_wait_Not(c) ==
    LET p == op[c].pmap IN
    /\ Move(c, "update", "change")
    /\ users[c] = {}
    /\ IF c \in cpus_using[p] THEN flush_tlb(c) ELSE UNCHANGED tlb
    /\ UNCHANGED <<maps, locks, sets, requests, dirbase, op, users, history>>

\* Everyone has been signalled; wait until no one is using the pmap.
update_wait(c) ==
    LET p == op[c].pmap IN
    /\ Move(c, "update", "change")
    /\ users[c] = {}
    /\ cpus_using[p] \cap cpus_active \subseteq {c}
    /\ IF c \in cpus_using[p] THEN flush_tlb(c) ELSE UNCHANGED tlb
    /\ UNCHANGED <<maps, locks, sets, requests, dirbase, op, users, history>>

-----------------------------------------------------------------------------
(* The changes, with the pmap locked.                                      *)

\* Mutant: the modify bit is lost with the entry.
remove_range_Forgets(p) ==
    /\ pte' = [pte EXCEPT ![p] = NoPte]
    /\ UNCHANGED attributes

\* An entry is zeroed; its modify bit goes to the page's attributes.
remove_range(p) ==
    /\ pte' = [pte EXCEPT ![p] = NoPte]
    /\ attributes' = attributes \cup IF Mapped(p) /\ pte[p].mod THEN {pte[p].page} ELSE {}

Removes(o) ==
    \/ o.fn \in {"remove", "collect", "collect_more"}
    \/ o.fn = "page_protect" /\ (~o.write \/ o.pmap = kernel_pmap)
    \/ o.fn = "enter" /\ o.pmap = kernel_pmap /\ ~o.write

change_remove(c) ==
    /\ Move(c, "change", "unlock")
    /\ Removes(op[c])
    /\ remove_range(op[c].pmap)
    /\ op' = [op EXCEPT ![c].fn = IF @ = "collect_more" THEN "collect" ELSE @]
    /\ UNCHANGED <<tlb, locks, sets, requests, dirbase, users, history>>

\* The page mapped is in a later page of page tables: pmap_collect unlocks to
\* free an earlier one, and locks again.
change_later(c) ==
    /\ Move(c, "change", "unlock")
    /\ op[c].fn \in {"collect", "collect_more"}
    /\ op' = [op EXCEPT ![c].fn = "collect_more"]
    /\ UNCHANGED <<maps, tlb, locks, sets, requests, dirbase, users, history>>

collect_resume(c) ==
    /\ op[c].fn = "collect_more"
    /\ PMAP_READ_LOCK(c, op[c])

change_protect(c) ==
    LET p == op[c].pmap IN
    /\ Move(c, "change", "unlock")
    /\ op[c].fn \in {"protect", "page_protect"} /\ ~Removes(op[c])
    /\ pte' = IF Mapped(p) THEN [pte EXCEPT ![p].write = FALSE] ELSE pte
    /\ UNCHANGED <<attributes, tlb, locks, sets, requests, dirbase, op, users, history>>

change_clear(c) ==
    LET p == op[c].pmap IN
    /\ Move(c, "change", "unlock")
    /\ op[c].fn = "clear"
    /\ pte' = [pte EXCEPT ![p].mod = FALSE]
    /\ written' = written \ {<<p, op[c].page>>}
    /\ UNCHANGED <<attributes, tlb, locks, sets, requests, dirbase, op, users, unsignalled, early>>

\* The same page keeps its modify bit; another one is removed first.
change_enter(c) ==
    LET p == op[c].pmap
        g == op[c].page
        same == Mapped(p) /\ pte[p].page = g
    IN /\ Move(c, "change", "unlock")
       /\ op[c].fn = "enter" /\ ~Removes(op[c])
       /\ pte' = [pte EXCEPT ![p] = Entry(g, op[c].write, same /\ pte[p].mod)]
       /\ attributes' = attributes \cup
              IF Mapped(p) /\ ~same /\ pte[p].mod THEN {pte[p].page} ELSE {}
       /\ UNCHANGED <<tlb, locks, sets, requests, dirbase, op, users, history>>

\* No page table for the address, or no entry for the pv list: pmap_enter lets
\* go of its locks to allocate one, and starts again.
enter_retry(c) ==
    LET p == op[c].pmap IN
    /\ Move(c, "change", "unlock")
    /\ op[c].fn = "enter" /\ ~Removes(op[c])
    /\ Mapped(p) => pte[p].page # op[c].page
    /\ remove_range(p)
    /\ UNCHANGED <<tlb, locks, sets, requests, dirbase, op, users, history>>

\* pmap_change_wiring writes back the entry it has read, with the wired bit
\* changed.
change_wired(c) ==
    /\ Move(c, "rewrite", "unlock")
    /\ pte' = [pte EXCEPT ![op[c].pmap] = op[c].old]
    /\ op' = [op EXCEPT ![c].old = NoPte]
    /\ UNCHANGED <<attributes, tlb, locks, sets, requests, dirbase, users, history>>

-----------------------------------------------------------------------------
(* pmap_update_interrupt.                                                  *)

MyPmap(c) == IF c \in cpus_using[dirbase[c]] THEN dirbase[c] ELSE kernel_pmap

Interrupted(c, from) ==
    /\ Move(c, from, "spin_my")
    /\ cpus_active' = cpus_active \ {c}

pmap_update_interrupt(c) ==
    /\ c \in interrupt
    /\ interrupt' = interrupt \ {c}
    /\ Interrupted(c, "run")
    /\ UNCHANGED <<maps, tlb, locks, cpus_using, cpus_idle, update_list, dirbase, op, users, history>>

\* One that has become idle since it was looked at returns at once.
idle_interrupt(c) ==
    /\ c \in interrupt /\ c \in cpus_idle /\ pc[c] = "idle"
    /\ interrupt' = interrupt \ {c}
    /\ UNCHANGED <<maps, tlb, locks, sets, update_list, dirbase, pc, op, users, history>>

\* The two locks are read one after the other.
spin_my(c) ==
    /\ Move(c, "spin_my", "spin_kernel")
    /\ lock[MyPmap(c)] = None
    /\ UNCHANGED <<maps, tlb, locks, sets, requests, dirbase, op, users, history>>

spin_kernel(c) ==
    /\ Move(c, "spin_kernel", IF lock[kernel_pmap] = None THEN "process" ELSE "spin_my")
    /\ UNCHANGED <<maps, tlb, locks, sets, requests, dirbase, op, users, history>>

\* Mutant: only requests for the current pmap count.
Requested_Mine(c, p) == \E i \in DOMAIN update_list[c] : update_list[c][i] = p

Requested(c, p) == \E i \in DOMAIN update_list[c] : update_list[c][i] \in {p, kernel_pmap}

process_pmap_updates(c, p) ==
    /\ IF Requested(c, p) THEN flush_tlb(c) ELSE UNCHANGED tlb
    /\ update_list' = [update_list EXCEPT ![c] = <<>>]

process_updates(c) ==
    /\ Move(c, "process", "activate")
    /\ process_pmap_updates(c, MyPmap(c))
    /\ early' = (early \/ \E d \in Cpus : pc[d] \in {"signal", "send"} /\ op[d].target = c)
    /\ UNCHANGED <<maps, locks, sets, interrupt, dirbase, op, users, written, unsignalled>>

set_active(c) ==
    /\ Move(c, "activate", "again")
    /\ cpus_active' = cpus_active \cup {c}
    /\ UNCHANGED <<maps, tlb, locks, cpus_using, cpus_idle, requests, dirbase, op, users, history>>

\* More requests have come in: once more around the loop.
update_again(c) ==
    /\ cpu_update_needed(c)
    /\ Interrupted(c, "again")
    /\ UNCHANGED <<maps, tlb, locks, cpus_using, cpus_idle, requests, dirbase, op, users, history>>

interrupt_return(c) ==
    /\ Move(c, "again", "run")
    /\ ~cpu_update_needed(c)
    /\ UNCHANGED <<maps, tlb, locks, sets, requests, dirbase, op, users, history>>

-----------------------------------------------------------------------------
(* Processors that change address spaces, idle, start and stop. A switch   *)
(* happens with interrupts blocked; the idle thread is a kernel thread.    *)

switch_context(c, p) ==
    /\ Move(c, "run", "switch") /\ c \notin interrupt
    /\ p # dirbase[c]
    /\ cpus_using' = IF dirbase[c] = kernel_pmap THEN cpus_using
                     ELSE [cpus_using EXCEPT ![dirbase[c]] = @ \ {c}]
    /\ op' = [op EXCEPT ![c] = Operation("switch", p, None, FALSE)]
    /\ UNCHANGED <<maps, tlb, locks, cpus_active, cpus_idle, requests, dirbase, users, history>>

set_dirbase(c, p) ==
    /\ dirbase' = [dirbase EXCEPT ![c] = p]
    /\ flush_tlb(c)

switch_to_kernel(c) ==
    /\ Move(c, "switch", "run")
    /\ op[c].pmap = kernel_pmap
    /\ set_dirbase(c, kernel_pmap)
    /\ op' = [op EXCEPT ![c] = NoOperation]
    /\ UNCHANGED <<maps, locks, sets, requests, users, history>>

switch_to_user(c) ==
    /\ Move(c, "switch", "use")
    /\ op[c].pmap # kernel_pmap
    /\ cpus_active' = cpus_active \ {c}
    /\ UNCHANGED <<maps, tlb, locks, cpus_using, cpus_idle, requests, dirbase, op, users, history>>

PMAP_ACTIVATE_USER(c) ==
    LET p == op[c].pmap IN
    /\ Move(c, "use", "used")
    /\ lock[p] = None
    /\ lock' = [lock EXCEPT ![p] = c]
    /\ set_dirbase(c, p)
    /\ cpus_using' = [cpus_using EXCEPT ![p] = @ \cup {c}]
    /\ cpus_active' = cpus_active \cup {c}
    /\ UNCHANGED <<maps, readers, writer, cpus_idle, requests, op, users, history>>

user_activated(c) ==
    /\ Move(c, "used", "run")
    /\ lock' = [lock EXCEPT ![op[c].pmap] = None]
    /\ op' = [op EXCEPT ![c] = NoOperation]
    /\ UNCHANGED <<maps, tlb, readers, writer, sets, requests, dirbase, users, history>>

MARK_CPU_IDLE(c) ==
    /\ Move(c, "run", "idling") /\ c \notin interrupt
    /\ dirbase[c] = kernel_pmap
    /\ cpus_idle' = cpus_idle \cup {c}
    /\ UNCHANGED <<maps, tlb, locks, cpus_using, cpus_active, requests, dirbase, op, users, history>>

\* Mutant: an idle processor counts as active.
idle_StaysActive(c) ==
    /\ Move(c, "idling", "idle")
    /\ UNCHANGED <<maps, tlb, locks, sets, requests, dirbase, op, users, history>>

idle(c) ==
    /\ Move(c, "idling", "idle")
    /\ cpus_active' = cpus_active \ {c}
    /\ UNCHANGED <<maps, tlb, locks, cpus_using, cpus_idle, requests, dirbase, op, users, history>>

MARK_CPU_ACTIVE(c) ==
    /\ Move(c, "idle", "waking")
    /\ cpus_idle' = cpus_idle \ {c}
    /\ UNCHANGED <<maps, tlb, locks, cpus_using, cpus_active, requests, dirbase, op, users, history>>

\* Requests queued while the processor was idle are taken now.
wake_update(c) ==
    /\ cpu_update_needed(c)
    /\ Interrupted(c, "waking")
    /\ UNCHANGED <<maps, tlb, locks, cpus_using, cpus_idle, requests, dirbase, op, users, history>>

wake(c) ==
    /\ Move(c, "waking", "woken")
    /\ ~cpu_update_needed(c)
    /\ UNCHANGED <<maps, tlb, locks, sets, requests, dirbase, op, users, history>>

wake_active(c) ==
    /\ Move(c, "woken", "run")
    /\ cpus_active' = cpus_active \cup {c}
    /\ UNCHANGED <<maps, tlb, locks, cpus_using, cpus_idle, requests, dirbase, op, users, history>>

\* processor_doshutdown, on a kernel thread.
PMAP_DEACTIVATE_KERNEL(c) ==
    /\ Move(c, "run", "off") /\ c \notin interrupt
    /\ dirbase[c] = kernel_pmap /\ cpus_using[kernel_pmap] # {c}
    /\ cpus_using' = [cpus_using EXCEPT ![kernel_pmap] = @ \ {c}]
    /\ UNCHANGED <<maps, tlb, locks, cpus_active, cpus_idle, requests, dirbase, op, users, history>>

\* cpu_launch_first_thread.
launch(c) ==
    /\ Move(c, "off", "launch")
    /\ cpus_active' = cpus_active \ {c}
    /\ UNCHANGED <<maps, tlb, locks, cpus_using, cpus_idle, requests, dirbase, op, users, history>>

PMAP_ACTIVATE_KERNEL(c) ==
    /\ Move(c, "launch", "launched")
    /\ lock[kernel_pmap] = None
    /\ lock' = [lock EXCEPT ![kernel_pmap] = c]
    /\ process_pmap_updates(c, kernel_pmap)
    /\ cpus_using' = [cpus_using EXCEPT ![kernel_pmap] = @ \cup {c}]
    /\ cpus_active' = cpus_active \cup {c}
    /\ UNCHANGED <<maps, readers, writer, cpus_idle, interrupt, dirbase, op, users, history>>

launched(c, p) ==
    /\ Move(c, "launched", "switch")
    /\ lock' = [lock EXCEPT ![kernel_pmap] = None]
    /\ op' = [op EXCEPT ![c] = Operation("switch", p, None, FALSE)]
    /\ UNCHANGED <<maps, tlb, readers, writer, sets, requests, dirbase, users, history>>

-----------------------------------------------------------------------------

\* Processors have been started, on kernel threads; every pmap has a
\* page entered that was not used yet.
Init ==
    /\ pte \in [Pmaps -> {Entry(g, TRUE, FALSE) : g \in Pages}]
    /\ tlb = [c \in Cpus |-> EmptyTlb]
    /\ attributes = {}
    /\ lock = [p \in Pmaps |-> None]
    /\ readers = {} /\ writer = None
    /\ cpus_using = [p \in Pmaps |-> IF p = kernel_pmap THEN Cpus ELSE {}]
    /\ cpus_active = Cpus /\ cpus_idle = {}
    /\ interrupt = {}
    /\ update_list = [c \in Cpus |-> <<>>]
    /\ dirbase = [c \in Cpus |-> kernel_pmap]
    /\ pc = [c \in Cpus |-> "run"]
    /\ op = [c \in Cpus |-> NoOperation]
    /\ users = [c \in Cpus |-> {}]
    /\ written = {} /\ unsignalled = FALSE /\ early = FALSE
    /\ choices = 0

Calls(c) ==
    \/ \E p \in Pmaps :
        \/ pmap_remove(c, p) \/ pmap_protect(c, p) \/ pmap_extract(c, p)
        \/ pmap_change_wiring(c, p) \/ pmap_collect(c, p)
        \/ \E g \in Pages, w \in BOOLEAN : pmap_enter(c, p, g, w)
    \/ collect_resume(c)
    \/ \E g \in Pages :
        \/ \E w \in BOOLEAN : pmap_page_protect(c, g, w)
        \/ phys_attribute_clear(c, g) \/ phys_attribute_test(c, g)

\* What a processor may do next, but need not.
Choices(c) ==
    \/ Calls(c)
    \/ \E p \in Pmaps : tlb_load(c, p) \/ write_start(c, p) \/ switch_context(c, p)
    \/ MARK_CPU_IDLE(c) \/ MARK_CPU_ACTIVE(c)
    \/ PMAP_DEACTIVATE_KERNEL(c) \/ launch(c)

\* What it does without fail once it is at that point.
Progress(c) ==
    \/ write_end(c)
    \/ lock_read(c) \/ want_write(c) \/ lock_write(c) \/ lock_write_done(c)
    \/ \E p \in Pmaps : next_mapping(c, p) \/ launched(c, p)
    \/ simple_lock(c) \/ simple_unlock(c) \/ SPLX(c)
    \/ \E d \in Cpus : signal_queue(c, d)
    \/ signal_check(c) \/ signal_interrupt(c) \/ update_wait(c)
    \/ change_remove(c) \/ change_later(c) \/ change_protect(c) \/ change_clear(c)
    \/ change_enter(c) \/ enter_retry(c) \/ change_wired(c)
    \/ pmap_update_interrupt(c) \/ idle_interrupt(c)
    \/ spin_my(c) \/ spin_kernel(c) \/ process_updates(c) \/ set_active(c)
    \/ update_again(c) \/ interrupt_return(c)
    \/ switch_to_kernel(c) \/ switch_to_user(c) \/ PMAP_ACTIVATE_USER(c) \/ user_activated(c)
    \/ idle(c) \/ wake_update(c) \/ wake(c) \/ wake_active(c)
    \/ PMAP_ACTIVATE_KERNEL(c)

Choose(c) == choices < MaxChoices /\ choices' = choices + 1 /\ Choices(c)

Continue(c) == Progress(c) /\ UNCHANGED choices

Next == \E c \in Cpus : Choose(c) \/ Continue(c)

Spec == Init /\ [][Next]_vars

\* A processor keeps executing instructions and takes its interrupts. The
\* locks are not fair, and no call is ever forced to happen.
FairSpec == Spec /\ \A c \in Cpus : WF_vars(Continue(c))

-----------------------------------------------------------------------------
(* Properties.                                                             *)

\* Processor c may use what it has cached: it is about to execute at low
\* priority with no update interrupt to take first, or in the middle of a write.
CanUse(c) == pc[c] = "write" \/ (pc[c] = "run" /\ c \notin interrupt)

Agrees(e, f) == f # NoPte /\ e.page = f.page /\ e.write = f.write /\ (e.mod => f.mod)

Coherent ==
    \A c \in Cpus, p \in Pmaps :
        CanUse(c) /\ InSpace(c, p) /\ tlb[c][p] # NoPte => Agrees(tlb[c][p], pte[p])

\* Whatever processors do at once, none uses a translation that differs from
\* the page table's, unless an entry was changed without signalling or a
\* request was taken early (PMAP_UPDATE_TLBS, pmap_update_interrupt,
\* MARK_CPU_ACTIVE).
TlbCoherent == ~unsignalled /\ ~early => Coherent

\* The same of every update that is signalled: the comment of
\* pmap_update_interrupt says that to spin on the values of the locks is
\* enough, later updates being signalled by another interrupt.
SignalledCoherent == ~unsignalled => Coherent

\* While a processor changes an entry no other is in the middle of a write
\* through that pmap, whose implicit update of the entry it would lose
\* (the wait in PMAP_UPDATE_TLBS).
NoImplicitUpdate ==
    ~unsignalled /\ ~early => \A c, d \in Cpus :
        pc[c] = "change" /\ pc[d] = "write" /\ d # c
            => op[d].target # op[c].pmap

\* A page that was written since its modify bit was last cleared is known to
\* be modified, in the entry it was written through or in its attributes
\* (remove_range, pmap_page_protect, phys_attribute_clear).
ModifyKept ==
    ~unsignalled /\ ~early =>
        \A x \in written :
            \/ x[2] \in attributes
            \/ Mapped(x[1]) /\ pte[x[1]].page = x[2] /\ pte[x[1]].mod

\* Spinning d needs something that another processor holds or must do.
Spins(d) == pc[d] \in {"read", "want_write", "drain", "lock", "use", "launch", "update",
                       "spin_my", "spin_kernel", "idle", "off"}

\* A processor that has signalled all users of a pmap waits only for ones that
\* come to answer by themselves: none that it waits for is spinning, or runs
\* without an interrupt to take (SPLVM, PMAP_ACTIVATE_USER, MARK_CPU_IDLE and
\* pmap_update_interrupt leave cpus_active first).
NoWaitCycle ==
    ~early => \A c, d \in Cpus :
        /\ pc[c] = "update" /\ users[c] = {} /\ d # c
        /\ d \in cpus_using[op[c].pmap] \cap cpus_active
        => ~Spins(d) /\ (pc[d] = "run" => d \in interrupt)

\* A processor that waits in PMAP_UPDATE_TLBS for the others to stop using the
\* pmap does not wait forever, also when others wait for it (SPLVM), are idle,
\* or come and go.
UpdateEnds == \A c \in Cpus : pc[c] = "update" ~> (pc[c] = "change" \/ early)
=============================================================================
