------------------------------ MODULE KernLock ------------------------------
(***************************************************************************)
(* The sleep lock of kern/lock.c: many readers or one writer, upgrade from *)
(* read to write, downgrade, and re-acquisition by a "recursive" owner.    *)
(*                                                                         *)
(* Every field of struct lock is read and written with l->interlock held,  *)
(* and thread_sleep asserts the wait before it drops the interlock.  So    *)
(* one action is one critical section of the interlock.  The module models *)
(* the NCPUS > 1 build, where a thread that cannot have the lock first     *)
(* spins (lock_wait_time > 0) and sleeps only if the re-check fails too.   *)
(*                                                                         *)
(* The code does not know who holds the lock.  Three history variables do: *)
(* readers (one pair <<t, i>> for the i-th read hold of t), wbit and ubit  *)
(* (the thread that set want_write and want_upgrade).  They also state     *)
(* what the callers owe the lock: see CallerMay...                         *)
(***************************************************************************)
EXTENDS Integers, FiniteSets

CONSTANTS
    Threads,    \* the threads that use the lock
    NoThread,   \* l->thread == (struct thread *) -1
    MaxReads,   \* bound: read holds of one thread
    MaxDepth    \* bound: nested write holds of the recursive owner

Tokens == Threads \X (1..MaxReads)

\* struct lock: read_count:16 and recursion_depth:12 are unsigned bit-fields.
ReadCountMod == 65536
DepthMod == 4096

ASSUME LockAssumption ==
    /\ IsFiniteSet(Threads)
    /\ NoThread \notin Threads
    /\ MaxReads \in Nat
    /\ MaxDepth \in Nat /\ MaxDepth < DepthMod
    /\ Cardinality(Tokens) < ReadCountMod

VARIABLES
    want_write, want_upgrade, read_count, waiting, can_sleep,
    thread, recursion_depth,    \* the fields of struct lock
    pc,         \* where each thread is inside kern/lock.c
    asleep,     \* the threads in thread_sleep(l, ...)
    readers, wbit, ubit         \* history: who holds what

lockvars == <<want_write, want_upgrade, read_count, waiting, can_sleep,
              thread, recursion_depth>>
history == <<readers, wbit, ubit>>
vars == <<lockvars, pc, asleep, history>>

-----------------------------------------------------------------------------
Inc(n, m) == (n + 1) % m
Dec(n, m) == (n - 1) % m

HoldsRead(t) == \E i \in 1..MaxReads : <<t, i>> \in readers
HoldsWrite(t) ==
    \/ wbit = t /\ pc[t] # "write2"
    \/ ubit = t /\ pc[t] \notin {"upgrade", "try_upgrade"}
Holds(t) == HoldsRead(t) \/ HoldsWrite(t)
OneRead(t) == \E i \in 1..MaxReads :
    /\ <<t, i>> \in readers
    /\ \A j \in 1..MaxReads : j # i => <<t, j>> \notin readers

\* The caller gains or gives up one read hold; it gives up the newest first.
Grant(t) == \E i \in 1..MaxReads :
    /\ <<t, i>> \notin readers
    /\ \A j \in 1..(i - 1) : <<t, j>> \in readers
    /\ readers' = readers \cup {<<t, i>>}
Drop(t) == \E i \in 1..MaxReads :
    /\ <<t, i>> \in readers
    /\ \A j \in (i + 1)..MaxReads : <<t, j>> \notin readers
    /\ readers' = readers \ {<<t, i>>}

(***************************************************************************)
(* What the callers owe the lock.  A thread calls lock_read or lock_write  *)
(* while it holds the lock only as the recursive owner.  The owner nests   *)
(* for write ("for read, write, or update") while it has the lock for      *)
(* write, and above its write holds, not above its read holds.  It clears  *)
(* l->thread before its last lock_done (vm_map_pageable, vm_fault_unwire). *)
(***************************************************************************)
CallerMayNestWrite(t) ==
    HoldsWrite(t) /\ ~HoldsRead(t) /\ recursion_depth < MaxDepth
CallerMayUpgrade(t) ==
    /\ OneRead(t)
    /\ thread = t => HoldsWrite(t) /\ recursion_depth < MaxDepth
CallerMayRelease(t) ==
    /\ Holds(t)
    /\ thread = t => \/ recursion_depth # 0
                     \/ HoldsWrite(t) /\ HoldsRead(t)
                     \/ HoldsRead(t) /\ ~OneRead(t)

-----------------------------------------------------------------------------
Init ==
    /\ want_write = FALSE /\ want_upgrade = FALSE /\ waiting = FALSE
    /\ read_count = 0 /\ recursion_depth = 0
    /\ can_sleep \in BOOLEAN
    /\ thread = NoThread
    /\ pc = [t \in Threads |-> "run"]
    /\ asleep = {}
    /\ readers = {} /\ wbit = NoThread /\ ubit = NoThread

lock_sleepable(b) ==
    /\ can_sleep' = b
    /\ UNCHANGED <<want_write, want_upgrade, read_count, waiting, thread,
                   recursion_depth, pc, asleep, history>>

\* l->waiting = TRUE; thread_sleep(l, interlock, FALSE)
Sleep(t) == waiting' = TRUE /\ asleep' = asleep \cup {t}

\* if (l->waiting && cond) { l->waiting = FALSE; thread_wakeup(l); }
WakeupIf(cond) ==
    IF waiting /\ cond THEN waiting' = FALSE /\ asleep' = {}
                       ELSE UNCHANGED <<waiting, asleep>>

\* Mutant: a writer does not wait for a pending or granted upgrade.
MustWait_NoUpgrade(p) ==
    CASE p = "write1" -> want_write
      [] p = "write2" -> read_count # 0
      [] p = "read" -> want_write \/ want_upgrade
      [] p \in {"upgrade", "try_upgrade"} -> read_count # 0
      [] OTHER -> FALSE

\* Mutant: readers do not look at want_upgrade.
MustWait_ReadersPassUpgrade(p) ==
    CASE p = "write1" -> want_write
      [] p = "write2" -> read_count # 0 \/ want_upgrade
      [] p = "read" -> want_write
      [] p \in {"upgrade", "try_upgrade"} -> read_count # 0
      [] OTHER -> FALSE

\* Mutant: readers join other readers although a writer is waiting.
MustWait_ReadersFirst(p) ==
    CASE p = "write1" -> want_write
      [] p = "write2" -> read_count # 0 \/ want_upgrade
      [] p = "read" -> want_upgrade \/ (want_write /\ read_count = 0)
      [] p \in {"upgrade", "try_upgrade"} -> read_count # 0
      [] OTHER -> FALSE

\* The condition on which each loop of lock.c keeps its thread waiting.
MustWait(p) ==
    CASE p = "write1" -> want_write
      [] p = "write2" -> read_count # 0 \/ want_upgrade
      [] p = "read" -> want_write \/ want_upgrade
      [] p \in {"upgrade", "try_upgrade"} -> read_count # 0
      [] OTHER -> FALSE

\* One more turn of a waiting loop that fails: sleep, or spin if the lock may
\* not sleep.  lock_try_read_to_write does not look at can_sleep.
StillWaits(t) ==
    /\ pc[t] # "run" /\ t \notin asleep
    /\ MustWait(pc[t])
    /\ can_sleep \/ pc[t] = "try_upgrade"
    /\ Sleep(t)
    /\ UNCHANGED <<want_write, want_upgrade, read_count, can_sleep, thread,
                   recursion_depth, pc, history>>

-----------------------------------------------------------------------------
\* Recursive path of lock_write and of lock_try_write.
NestWrite(t) ==
    /\ pc[t] = "run" /\ thread = t /\ CallerMayNestWrite(t)
    /\ recursion_depth' = Inc(recursion_depth, DepthMod)
    /\ UNCHANGED <<want_write, want_upgrade, read_count, waiting, can_sleep,
                   thread, pc, asleep, history>>

\* Mutant: lock_write skips the second loop when only an upgrade is pending.
TakeWriteBit_NoUpgrade(t) ==
    /\ ~want_write
    /\ want_write' = TRUE /\ wbit' = t
    /\ pc' = [pc EXCEPT ![t] = IF read_count # 0 THEN "write2" ELSE "run"]
    /\ UNCHANGED <<want_upgrade, read_count, waiting, can_sleep, thread,
                   recursion_depth, asleep, readers, ubit>>

TakeWriteBit(t) ==
    /\ ~want_write
    /\ want_write' = TRUE /\ wbit' = t
    /\ pc' = [pc EXCEPT ![t] =
                 IF read_count # 0 \/ want_upgrade THEN "write2" ELSE "run"]
    /\ UNCHANGED <<want_upgrade, read_count, waiting, can_sleep, thread,
                   recursion_depth, asleep, readers, ubit>>

lock_write(t) ==
    \/ NestWrite(t)
    \/ /\ pc[t] = "run" /\ thread # t /\ ~Holds(t)
       /\ \/ TakeWriteBit(t)
          \/ /\ want_write
             /\ pc' = [pc EXCEPT ![t] = "write1"]
             /\ UNCHANGED <<lockvars, asleep, history>>

lock_write_retry(t) ==
    /\ t \notin asleep
    /\ \/ pc[t] = "write1" /\ TakeWriteBit(t)
       \/ /\ pc[t] = "write2" /\ ~MustWait("write2")
          /\ pc' = [pc EXCEPT ![t] = "run"]
          /\ UNCHANGED <<lockvars, asleep, history>>

-----------------------------------------------------------------------------
AddReader(t) ==
    /\ read_count' = Inc(read_count, ReadCountMod)
    /\ Grant(t)
    /\ pc' = [pc EXCEPT ![t] = "run"]
    /\ UNCHANGED <<want_write, want_upgrade, waiting, can_sleep, thread,
                   recursion_depth, asleep, wbit, ubit>>

lock_read(t) ==
    /\ pc[t] = "run"
    /\ \/ thread = t /\ AddReader(t)
       \/ /\ thread # t /\ ~Holds(t)
          /\ \/ ~MustWait("read") /\ AddReader(t)
             \/ /\ MustWait("read")
                /\ pc' = [pc EXCEPT ![t] = "read"]
                /\ UNCHANGED <<lockvars, asleep, history>>

lock_read_retry(t) ==
    /\ pc[t] = "read" /\ t \notin asleep /\ ~MustWait("read")
    /\ AddReader(t)

-----------------------------------------------------------------------------
\* Recursive path of lock_read_to_write and of lock_try_read_to_write.
NestUpgrade(t) ==
    /\ thread = t
    /\ read_count' = Dec(read_count, ReadCountMod) /\ Drop(t)
    /\ recursion_depth' = Inc(recursion_depth, DepthMod)
    /\ UNCHANGED <<want_write, want_upgrade, waiting, can_sleep, thread,
                   pc, asleep, wbit, ubit>>

\* l->want_upgrade = TRUE, and wait at p for the other readers.
TakeUpgradeBit(t, p) ==
    /\ thread # t /\ ~want_upgrade
    /\ read_count' = Dec(read_count, ReadCountMod) /\ Drop(t)
    /\ want_upgrade' = TRUE /\ ubit' = t
    /\ pc' = [pc EXCEPT ![t] = IF read_count' # 0 THEN p ELSE "run"]
    /\ UNCHANGED <<want_write, can_sleep, thread, recursion_depth, wbit>>

\* Mutant: the failing upgrade keeps its read_count.
lock_read_to_write_KeepsCount(t) ==
    /\ pc[t] = "run" /\ CallerMayUpgrade(t)
    /\ \/ NestUpgrade(t)
       \/ TakeUpgradeBit(t, "upgrade") /\ UNCHANGED <<waiting, asleep>>
       \/ /\ thread # t /\ want_upgrade
          /\ Drop(t)
          /\ UNCHANGED <<lockvars, asleep, pc, wbit, ubit>>

lock_read_to_write(t) ==
    /\ pc[t] = "run" /\ CallerMayUpgrade(t)
    /\ \/ NestUpgrade(t)
       \/ TakeUpgradeBit(t, "upgrade") /\ UNCHANGED <<waiting, asleep>>
       \/ /\ thread # t /\ want_upgrade     \* returns TRUE: no lock is held
          /\ read_count' = Dec(read_count, ReadCountMod) /\ Drop(t)
          /\ WakeupIf(read_count' = 0)
          /\ UNCHANGED <<want_write, want_upgrade, can_sleep, thread,
                         recursion_depth, pc, wbit, ubit>>

\* Fails, and changes nothing, if want_upgrade is set.
lock_try_read_to_write(t) ==
    /\ pc[t] = "run" /\ CallerMayUpgrade(t)
    /\ \/ NestUpgrade(t)
       \/ /\ TakeUpgradeBit(t, "try_upgrade")
          /\ IF read_count' # 0 THEN Sleep(t) ELSE UNCHANGED <<waiting, asleep>>

upgrade_retry(t) ==
    /\ pc[t] \in {"upgrade", "try_upgrade"} /\ t \notin asleep
    /\ ~MustWait(pc[t])
    /\ pc' = [pc EXCEPT ![t] = "run"]
    /\ UNCHANGED <<lockvars, asleep, history>>

-----------------------------------------------------------------------------
\* Mutant: the test of recursion_depth is missing.
ReleaseWrite_NoDepthTest ==
    /\ recursion_depth' = Dec(recursion_depth, DepthMod)
    /\ UNCHANGED <<want_write, want_upgrade, wbit, ubit>>

\* The else-if chain shared by lock_done and lock_write_to_read.
ReleaseWrite ==
    IF recursion_depth # 0
    THEN /\ recursion_depth' = Dec(recursion_depth, DepthMod)
         /\ UNCHANGED <<want_write, want_upgrade, wbit, ubit>>
    ELSE IF want_upgrade
    THEN /\ want_upgrade' = FALSE /\ ubit' = NoThread
         /\ UNCHANGED <<want_write, recursion_depth, wbit>>
    ELSE /\ want_write' = FALSE /\ wbit' = NoThread
         /\ UNCHANGED <<want_upgrade, recursion_depth, ubit>>

\* Mutant: lock_done wakes the waiters only when it releases a write hold.
lock_done_ReaderNoWakeup(t) ==
    /\ pc[t] = "run" /\ CallerMayRelease(t)
    /\ IF read_count # 0
       THEN /\ read_count' = Dec(read_count, ReadCountMod) /\ Drop(t)
            /\ UNCHANGED <<want_write, want_upgrade, recursion_depth,
                           wbit, ubit, waiting, asleep>>
       ELSE ReleaseWrite /\ WakeupIf(TRUE) /\ UNCHANGED <<read_count, readers>>
    /\ UNCHANGED <<can_sleep, thread, pc>>

lock_done(t) ==
    /\ pc[t] = "run" /\ CallerMayRelease(t)
    /\ IF read_count # 0
       THEN /\ read_count' = Dec(read_count, ReadCountMod) /\ Drop(t)
            /\ UNCHANGED <<want_write, want_upgrade, recursion_depth,
                           wbit, ubit>>
       ELSE ReleaseWrite /\ UNCHANGED <<read_count, readers>>
    /\ WakeupIf(read_count' = 0)
    /\ UNCHANGED <<can_sleep, thread, pc>>

lock_write_to_read(t) ==
    /\ pc[t] = "run" /\ HoldsWrite(t) /\ ~HoldsRead(t)
    /\ read_count' = Inc(read_count, ReadCountMod) /\ Grant(t)
    /\ ReleaseWrite
    /\ WakeupIf(TRUE)
    /\ UNCHANGED <<can_sleep, thread, pc>>

-----------------------------------------------------------------------------
\* Each fails, and changes nothing, where it is not enabled below.
lock_try_write(t) ==
    \/ NestWrite(t)
    \/ /\ pc[t] = "run" /\ thread # t
       /\ ~want_upgrade /\ read_count = 0
       /\ TakeWriteBit(t)

lock_try_read(t) ==
    /\ pc[t] = "run"
    /\ thread = t \/ ~MustWait("read")
    /\ AddReader(t)

\* Panics unless want_write is set: an upgraded holder must not call it.
lock_set_recursive(t) ==
    /\ pc[t] = "run" /\ HoldsWrite(t) /\ wbit = t
    /\ thread' = t
    /\ UNCHANGED <<want_write, want_upgrade, read_count, waiting, can_sleep,
                   recursion_depth, pc, asleep, history>>

lock_clear_recursive(t) ==
    /\ pc[t] = "run" /\ thread = t /\ recursion_depth = 0
    /\ thread' = NoThread
    /\ UNCHANGED <<want_write, want_upgrade, read_count, waiting, can_sleep,
                   recursion_depth, pc, asleep, history>>

-----------------------------------------------------------------------------
Retry(t) ==
    StillWaits(t) \/ lock_write_retry(t) \/ lock_read_retry(t) \/ upgrade_retry(t)

Call(t) ==
    \/ lock_write(t) \/ lock_read(t)
    \/ lock_read_to_write(t) \/ lock_try_read_to_write(t)
    \/ lock_done(t) \/ lock_write_to_read(t)
    \/ lock_try_write(t) \/ lock_try_read(t)
    \/ lock_set_recursive(t) \/ lock_clear_recursive(t)

Next ==
    \/ \E t \in Threads : Retry(t) \/ Call(t)
    \/ \E b \in BOOLEAN : lock_sleepable(b)

Spec == Init /\ [][Next]_vars

-----------------------------------------------------------------------------
(***************************************************************************)
(* Properties                                                              *)
(***************************************************************************)
Upgrading(t) == pc[t] \in {"upgrade", "try_upgrade"}

\* Types.  The counters stay below the width of their bit-fields.
TypeOK ==
    /\ want_write \in BOOLEAN /\ want_upgrade \in BOOLEAN
    /\ waiting \in BOOLEAN /\ can_sleep \in BOOLEAN
    /\ read_count \in 0..(ReadCountMod - 1)
    /\ recursion_depth \in 0..MaxDepth
    /\ thread \in Threads \cup {NoThread}
    /\ pc \in [Threads -> {"run", "write1", "write2", "read",
                            "upgrade", "try_upgrade"}]
    /\ asleep \subseteq Threads
    /\ readers \subseteq Tokens
    /\ wbit \in Threads \cup {NoThread} /\ ubit \in Threads \cup {NoThread}

\* A thread that lock_write, lock_read_to_write or a try routine has given
\* the lock for write is alone: no other thread holds it for write or read.
Exclusion == \A t, u \in Threads :
    HoldsWrite(t) /\ t # u => ~Holds(u)

\* l->read_count is the number of read holds, whichever mix of lock_done,
\* upgrades, downgrades and recursive reads led here: lock_done, which
\* guesses from the counters what is being released, never guesses wrong.
ReadCountExact == read_count = Cardinality(readers)

\* No wakeup is lost: a thread in thread_sleep(l) still has to wait, and
\* l->waiting is set, so that the release it waits for calls thread_wakeup.
\* (lock_done wakes only at read_count 0, and one bit serves all waiters.)
NoLostWakeup == \A t \in asleep : waiting /\ MustWait(pc[t])

\* Between lock_read_to_write giving up its read count and its return, no
\* other thread has the lock for write, and no other upgrade is pending.
UpgradeUndisturbed == \A t, u \in Threads :
    Upgrading(t) /\ t # u => ~HoldsWrite(u) /\ ~Upgrading(u)

\* Every history of kern/lock.c is one of the abstract lock: see RWLock.
Abs == INSTANCE RWLock WITH
    holdR <- readers \cup {<<t, 1>> : t \in {u \in Threads : Upgrading(u)}},
    holdW <- IF \E t \in Threads : HoldsWrite(t)
             THEN CHOOSE t \in Threads : HoldsWrite(t) ELSE NoThread,
    nest <- recursion_depth

\* The lock implements RWLock: in particular an upgrade is atomic.
ImplementsRWLock == Abs!Spec

\* A waiting thread that is awake takes its next turn (it is on a run queue
\* or spinning); callers are not forced to do anything.
FairSpec == Spec /\ \A t \in Threads : WF_vars(Retry(t))

\* If every holder lets go again and again, a writer that has set want_write
\* gets the lock (lock_write's second loop ends: new readers stay out), and
\* so does an upgrading reader.
WriterGetsIn ==
    (\A t \in Threads : []<>~Holds(t))
    => \A t \in Threads : pc[t] = "write2" \/ Upgrading(t) ~> HoldsWrite(t)
=============================================================================
