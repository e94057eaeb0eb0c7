--------------------------- MODULE KernLockProofs ---------------------------
(***************************************************************************)
(* Safety of kern/lock.c for any number of threads and read holds.         *)
(*                                                                         *)
(* Exclusion is not inductive: it does not say which bit protects a hold,  *)
(* nor that read_count counts the read holds.  IInv adds, part by part,    *)
(* who may own the two bits, what a granted bit excludes, and where the    *)
(* recursive owner stands.                                                 *)
(***************************************************************************)
EXTENDS KernLock, FiniteSetTheorems, TLAPS

\* Each bit is set exactly while the thread that set it has not cleared it.
BitOwners ==
    /\ want_write <=> wbit # NoThread
    /\ want_upgrade <=> ubit # NoThread

\* Where a thread waits tells what it holds.
Waiters == \A t \in Threads :
    /\ pc[t] = "write2" => wbit = t
    /\ Upgrading(t) => ubit = t
    /\ pc[t] \in {"write1", "read"} => wbit # t /\ ubit # t
    /\ pc[t] # "run" => ~HoldsRead(t)

\* A granted write bit excludes the upgrades and the reads of others.
WriteGranted == \A t \in Threads : wbit = t /\ pc[t] # "write2" =>
    /\ ubit \in {NoThread, t}
    /\ \A h \in readers : h[1] = t

\* A pending upgrade is not the recursive owner's nor a writer's; a granted
\* one excludes the reads of others.
UpgradeGranted == \A t \in Threads : ubit = t =>
    /\ Upgrading(t) => thread # t /\ wbit # t
    /\ ~Upgrading(t) => \A h \in readers : h[1] = t

\* The recursive owner holds the lock; if it holds it for write, or has
\* nested, the write bit is its own.
Owner == \A t \in Threads : thread = t =>
    /\ pc[t] = "run" /\ Holds(t)
    /\ ubit = t \/ recursion_depth # 0 => wbit = t

Depth == thread = NoThread => recursion_depth = 0

Sleepers == NoLostWakeup /\ \A t \in asleep : pc[t] # "run"

\* The inductive invariant.
IInv ==
    /\ TypeOK /\ BitOwners /\ Waiters /\ WriteGranted /\ UpgradeGranted
    /\ Owner /\ Depth /\ ReadCountExact /\ Sleepers

-----------------------------------------------------------------------------
\* The widths of the bit-fields, as far as the proofs need them.
LEMMA Widths == ReadCountMod \in Nat \ {0, 1} /\ DepthMod \in Nat \ {0, 1}
  BY SMT DEF ReadCountMod, DepthMod

\* There are finitely many read holds, fewer than read_count can count.
LEMMA TokensFinite == IsFiniteSet(Tokens) /\ Cardinality(Tokens) \in Nat
<1>1. IsFiniteSet(1..MaxReads)
  BY LockAssumption, FS_Interval
<1>2. IsFiniteSet(Tokens)
  BY <1>1, LockAssumption, FS_Product DEF Tokens
<1> QED
  BY <1>2, FS_CardinalityType

\* The read holds of a reachable state can be counted in read_count's 16 bits.
LEMMA ReadersBounded ==
    ASSUME NEW R, R \subseteq Tokens
    PROVE  /\ IsFiniteSet(R) /\ Cardinality(R) \in 0..(ReadCountMod - 1)
           /\ Cardinality(R) = 0 <=> R = {}
<1>1. IsFiniteSet(R) /\ Cardinality(R) <= Cardinality(Tokens)
  BY TokensFinite, FS_Subset
<1>2. Cardinality(R) \in Nat
  BY <1>1, FS_CardinalityType
<1>3. Cardinality(R) = 0 <=> R = {}
  BY <1>1, FS_EmptySet
<1> QED
  BY <1>1, <1>2, <1>3, TokensFinite, Widths, LockAssumption, SMT

\* Counting up and down below the width of the field is plain arithmetic.
LEMMA IncDec ==
    ASSUME NEW m \in {ReadCountMod, DepthMod}, NEW n \in 0..(m - 1)
    PROVE  /\ n + 1 < m => Inc(n, m) = n + 1
           /\ n # 0 => Dec(n, m) = n - 1
  BY SMT DEF Inc, Dec, ReadCountMod, DepthMod

\* l->read_count++ for a new read hold counts it.
LEMMA GrantCounts ==
    ASSUME NEW t \in Threads, TypeOK, ReadCountExact, Grant(t),
           read_count' = Inc(read_count, ReadCountMod)
    PROVE  /\ ReadCountExact' /\ readers' \subseteq Tokens
           /\ read_count' \in 0..(ReadCountMod - 1) /\ read_count' # 0
<1>1. PICK i \in 1..MaxReads : <<t, i>> \notin readers /\ readers' = readers \cup {<<t, i>>}
  BY DEF Grant
<1>2. readers' \subseteq Tokens
  BY <1>1 DEF TypeOK, Tokens
<1>3. Cardinality(readers') = Cardinality(readers) + 1
  BY <1>1, ReadersBounded, FS_AddElement DEF TypeOK
<1>4. read_count + 1 < ReadCountMod
  BY <1>2, <1>3, ReadersBounded, Widths, SMT DEF ReadCountExact, TypeOK
<1> QED
  BY <1>2, <1>3, <1>4, IncDec, Widths, SMT DEF ReadCountExact, TypeOK

\* l->read_count-- for a read hold given up counts it off, and never wraps.
LEMMA DropCounts ==
    ASSUME NEW t \in Threads, TypeOK, ReadCountExact, Drop(t),
           read_count' = Dec(read_count, ReadCountMod)
    PROVE  /\ ReadCountExact' /\ readers' \subseteq Tokens
           /\ read_count' \in 0..(ReadCountMod - 1)
           /\ read_count # 0
<1>1. PICK i \in 1..MaxReads : <<t, i>> \in readers /\ readers' = readers \ {<<t, i>>}
  BY DEF Drop
<1>2. readers' \subseteq Tokens
  BY <1>1 DEF TypeOK
<1>3. Cardinality(readers') = Cardinality(readers) - 1
  BY <1>1, ReadersBounded, FS_RemoveElement DEF TypeOK
<1>4. read_count # 0
  BY <1>1, ReadersBounded DEF ReadCountExact, TypeOK
<1> QED
  BY <1>2, <1>3, <1>4, IncDec, Widths, SMT DEF ReadCountExact, TypeOK

\* The inductive invariant gives exclusion: a write hold of t leaves no hold
\* to another thread.
LEMMA IInvExclusion == IInv => Exclusion
<1> SUFFICES ASSUME IInv, NEW t \in Threads, NEW u \in Threads,
                    HoldsWrite(t), t # u
             PROVE  ~Holds(u)
  BY DEF Exclusion
<1> USE LockAssumption DEF IInv
<1>1. \A h \in readers : h[1] = t
  BY DEF HoldsWrite, WriteGranted, UpgradeGranted, Upgrading
<1>2. ~HoldsRead(u)
  BY <1>1 DEF HoldsRead
<1>3. ~HoldsWrite(u)
  BY DEF HoldsWrite, WriteGranted, UpgradeGranted, Upgrading
<1> QED
  BY <1>2, <1>3 DEF Holds

\* The inductive invariant protects a pending upgrade from other writers.
LEMMA IInvUpgrade == IInv => UpgradeUndisturbed
  BY LockAssumption DEF IInv, UpgradeUndisturbed, HoldsWrite, WriteGranted, Waiters, Upgrading

-----------------------------------------------------------------------------
\* A turn of a waiting loop that fails keeps the invariant.
LEMMA StillWaitsInv ==
    ASSUME NEW t \in Threads, IInv, StillWaits(t)
    PROVE  IInv'
<1> USE DEF IInv, StillWaits, Sleep, history
<1>1. TypeOK'
  BY DEF TypeOK
<1>2. BitOwners' /\ Depth' /\ ReadCountExact'
  BY DEF BitOwners, Depth, ReadCountExact
<1>3. Waiters' /\ WriteGranted' /\ UpgradeGranted' /\ Owner'
  BY DEF Waiters, WriteGranted, UpgradeGranted, Owner, HoldsRead, HoldsWrite, Holds, Upgrading
<1>4. Sleepers'
  BY DEF Sleepers, NoLostWakeup, MustWait, TypeOK
<1> QED
  BY <1>1, <1>2, <1>3, <1>4

\* Setting want_write keeps the invariant.
LEMMA TakeWriteBitInv ==
    ASSUME NEW t \in Threads, IInv, TakeWriteBit(t),
           pc[t] \in {"run", "write1"}, t \notin asleep, ~Holds(t)
    PROVE  IInv'
<1> USE LockAssumption DEF IInv, TakeWriteBit
<1>1. TypeOK'
  BY DEF TypeOK
<1>2. BitOwners' /\ Depth' /\ ReadCountExact'
  BY DEF BitOwners, Depth, ReadCountExact, TypeOK
<1>3. Waiters'
  BY DEF Waiters, BitOwners, TypeOK, HoldsRead, HoldsWrite, Holds, Upgrading
<1>4. WriteGranted'
  <2>1. read_count = 0 => readers = {}
    BY ReadersBounded DEF ReadCountExact, TypeOK
  <2> QED
    BY <2>1 DEF WriteGranted, BitOwners, TypeOK
<1>5. UpgradeGranted' /\ Owner'
  BY DEF UpgradeGranted, Owner, Waiters, TypeOK, HoldsRead, HoldsWrite, Holds, Upgrading, BitOwners
<1>6. Sleepers'
  BY DEF Sleepers, NoLostWakeup, MustWait, TypeOK
<1> QED
  BY <1>1, <1>2, <1>3, <1>4, <1>5, <1>6

\* Entering a waiting loop of lock_write or lock_read keeps the invariant.
LEMMA EnterLoopInv ==
    ASSUME NEW t \in Threads, IInv, ~Holds(t), thread # t, t \notin asleep,
           NEW p \in {"write1", "read"}, pc[t] = "run",
           pc' = [pc EXCEPT ![t] = p], UNCHANGED <<lockvars, asleep, history>>
    PROVE  IInv'
<1> USE LockAssumption DEF IInv, lockvars, history
<1>1. TypeOK'
  BY DEF TypeOK
<1>2. BitOwners' /\ Depth' /\ ReadCountExact'
  BY DEF BitOwners, Depth, ReadCountExact
<1>3. Waiters'
  BY DEF Waiters, BitOwners, TypeOK, HoldsRead, HoldsWrite, Holds, Upgrading
<1>4. WriteGranted'
  BY DEF WriteGranted, Waiters, BitOwners, TypeOK, HoldsRead, HoldsWrite, Holds, Upgrading
<1>5. UpgradeGranted'
  BY DEF UpgradeGranted, Waiters, BitOwners, TypeOK, HoldsRead, HoldsWrite, Holds, Upgrading
<1>6. Owner'
  BY DEF Owner, Waiters, BitOwners, TypeOK, HoldsRead, HoldsWrite, Holds, Upgrading
<1>7. Sleepers'
  BY DEF Sleepers, NoLostWakeup, MustWait, TypeOK
<1> QED
  BY <1>1, <1>2, <1>3, <1>4, <1>5, <1>6, <1>7

\* A write or an upgrade that is granted when the last reader has gone keeps
\* the invariant.
LEMMA GrantedInv ==
    ASSUME NEW t \in Threads, IInv, t \notin asleep,
           pc[t] \in {"write2", "upgrade", "try_upgrade"}, ~MustWait(pc[t]),
           pc' = [pc EXCEPT ![t] = "run"], UNCHANGED <<lockvars, asleep, history>>
    PROVE  IInv'
<1> USE LockAssumption DEF IInv, lockvars, history
<1>1. TypeOK'
  BY DEF TypeOK
<1>2. BitOwners' /\ Depth' /\ ReadCountExact'
  BY DEF BitOwners, Depth, ReadCountExact
<1>3. readers = {} /\ (pc[t] = "write2" => ubit = NoThread)
  <2>1. read_count = 0 /\ (pc[t] = "write2" => ~want_upgrade)
    BY DEF MustWait
  <2> QED
    BY <2>1, ReadersBounded DEF ReadCountExact, TypeOK, BitOwners
<1>4. Waiters'
  BY DEF Waiters, TypeOK, HoldsRead, Upgrading
<1>5. WriteGranted' /\ UpgradeGranted'
  BY <1>3 DEF WriteGranted, UpgradeGranted, Waiters, TypeOK, Upgrading
<1>6. Owner'
  BY DEF Owner, TypeOK, HoldsRead, HoldsWrite, Holds
<1>7. Sleepers'
  BY DEF Sleepers, NoLostWakeup, MustWait, TypeOK
<1> QED
  BY <1>1, <1>2, <1>4, <1>5, <1>6, <1>7

\* A new read hold keeps the invariant: the caller is the recursive owner,
\* or neither bit is set.
LEMMA AddReaderInv ==
    ASSUME NEW t \in Threads, IInv, AddReader(t), t \notin asleep,
           pc[t] \in {"run", "read"}, thread = t \/ ~MustWait("read")
    PROVE  IInv'
<1> USE LockAssumption DEF IInv, AddReader
<1>0. PICK i \in 1..MaxReads : readers' = readers \cup {<<t, i>>}
  BY DEF Grant
<1>1. ReadCountExact' /\ readers' \subseteq Tokens /\ read_count' \in 0..(ReadCountMod - 1) /\ read_count' # 0
  BY GrantCounts
<1>2. TypeOK'
  BY <1>1 DEF TypeOK
<1>3. BitOwners' /\ Depth'
  BY DEF BitOwners, Depth
<1>4. \A u \in Threads : (wbit = u /\ pc[u] # "write2") \/ (ubit = u /\ ~Upgrading(u)) => u = t
  <2>1. CASE thread = t
    BY <2>1, IInvExclusion DEF Exclusion, Owner, HoldsWrite, Upgrading
  <2>2. CASE ~MustWait("read")
    BY <2>2 DEF MustWait, BitOwners
  <2> QED
    BY <2>1, <2>2
<1>5. Waiters'
  BY <1>0 DEF Waiters, HoldsRead, Upgrading, TypeOK
<1>6. WriteGranted' /\ UpgradeGranted'
  BY <1>0, <1>4 DEF WriteGranted, UpgradeGranted, Waiters, Upgrading, TypeOK
<1>7. Owner'
  BY <1>0 DEF Owner, Holds, HoldsRead, HoldsWrite, TypeOK
<1>8. Sleepers'
  BY <1>1 DEF Sleepers, NoLostWakeup, MustWait, TypeOK
<1> QED
  BY <1>1, <1>2, <1>3, <1>5, <1>6, <1>7, <1>8

\* Nesting a write hold, and turning the recursive owner on or off, keep the
\* invariant.
LEMMA RecursionInv ==
    ASSUME NEW t \in Threads, IInv,
           NestWrite(t) \/ lock_set_recursive(t)
             \/ lock_clear_recursive(t)
    PROVE  IInv'
<1> USE LockAssumption DEF IInv, history
<1>1. recursion_depth' \in 0..MaxDepth
  <2>1. CASE NestWrite(t)
    BY <2>1, IncDec, Widths, SMT DEF NestWrite, CallerMayNestWrite, TypeOK
  <2> QED
    BY <2>1 DEF lock_set_recursive, lock_clear_recursive, TypeOK
<1> USE DEF NestWrite, CallerMayNestWrite, lock_set_recursive, lock_clear_recursive
<1>2. TypeOK'
  BY <1>1 DEF TypeOK
<1>3. BitOwners' /\ ReadCountExact' /\ Depth'
  BY DEF BitOwners, ReadCountExact, Depth, Owner, TypeOK
<1>4. Waiters' /\ WriteGranted'
  BY DEF Waiters, WriteGranted, HoldsRead, Upgrading
<1>5. UpgradeGranted'
  BY DEF UpgradeGranted, Upgrading
<1>6. Owner'
  <2>1. CASE NestWrite(t)
    BY <2>1 DEF Owner, Holds, HoldsRead, HoldsWrite
  <2>2. CASE lock_set_recursive(t)
    BY <2>2 DEF Owner, Holds, HoldsRead, HoldsWrite
  <2>3. CASE lock_clear_recursive(t)
    BY <2>3 DEF Owner
  <2> QED
    BY <2>1, <2>2, <2>3
<1>7. Sleepers'
  BY DEF Sleepers, NoLostWakeup, MustWait
<1> QED
  BY <1>2, <1>3, <1>4, <1>5, <1>6, <1>7

\* Giving up any one read hold only shrinks the read holds.
LEMMA DropShrinks ==
    ASSUME NEW t \in Threads, Drop(t)
    PROVE  /\ readers' \subseteq readers
           /\ \A u \in Threads : u # t => HoldsRead(u)' = HoldsRead(u)
           /\ ~OneRead(t) => HoldsRead(t)'
  BY SMT DEF OneRead, Drop, HoldsRead

\* The caller of an upgrade gives up its only read hold.
LEMMA DropOnly ==
    ASSUME NEW t \in Threads, OneRead(t), Drop(t)
    PROVE  /\ readers' \subseteq readers /\ ~HoldsRead(t)'
           /\ \A u \in Threads : u # t => HoldsRead(u)' = HoldsRead(u)
<1>1. PICK i \in 1..MaxReads : <<t, i>> \in readers /\ readers' = readers \ {<<t, i>>}
  BY DEF Drop
<1>2. \A j \in 1..MaxReads : j # i => <<t, j>> \notin readers
  BY <1>1 DEF OneRead
<1>3. ~HoldsRead(t)'
  BY <1>1, <1>2 DEF HoldsRead
<1> QED
  BY <1>3, DropShrinks

\* An upgrade of the recursive owner keeps the invariant.
LEMMA NestUpgradeInv ==
    ASSUME NEW t \in Threads, IInv, pc[t] = "run",
           CallerMayUpgrade(t), NestUpgrade(t)
    PROVE  IInv'
<1> USE LockAssumption DEF IInv, NestUpgrade, CallerMayUpgrade
<1>1. ReadCountExact' /\ readers' \subseteq Tokens /\ read_count' \in 0..(ReadCountMod - 1)
  BY DropCounts
<1>2. readers' \subseteq readers /\ ~HoldsRead(t)' /\ \A u \in Threads : u # t => HoldsRead(u)' = HoldsRead(u)
  BY DropOnly
<1>3. recursion_depth' \in 0..MaxDepth
  BY IncDec, Widths, SMT DEF TypeOK
<1>4. TypeOK'
  BY <1>1, <1>3 DEF TypeOK
<1>5. wbit = t
  BY DEF Owner, HoldsWrite
<1>6. BitOwners' /\ Depth'
  BY DEF BitOwners, Depth
<1>7. Waiters' /\ WriteGranted' /\ UpgradeGranted'
  BY <1>2 DEF Waiters, WriteGranted, UpgradeGranted, Upgrading
<1>8. Owner'
  BY <1>5 DEF Owner, Holds, HoldsWrite
<1>9. Sleepers'
  BY <1>5 DEF Sleepers, NoLostWakeup, MustWait, Waiters, WriteGranted, Upgrading, TypeOK, BitOwners
<1> QED
  BY <1>1, <1>4, <1>6, <1>7, <1>8, <1>9

\* Setting want_upgrade keeps the invariant.
LEMMA TakeUpgradeBitInv ==
    ASSUME NEW t \in Threads, IInv, pc[t] = "run", CallerMayUpgrade(t),
           NEW p \in {"upgrade", "try_upgrade"}, TakeUpgradeBit(t, p),
           \/ UNCHANGED <<waiting, asleep>>
           \/ read_count' # 0 /\ Sleep(t)
    PROVE  IInv'
<1> USE LockAssumption DEF IInv, TakeUpgradeBit, CallerMayUpgrade, Sleep
<1>1. ReadCountExact' /\ readers' \subseteq Tokens /\ read_count' \in 0..(ReadCountMod - 1)
  BY DropCounts
<1>2. readers' \subseteq readers /\ ~HoldsRead(t)' /\ \A u \in Threads : u # t => HoldsRead(u)' = HoldsRead(u)
  BY DropOnly
<1>3. read_count' = 0 <=> readers' = {}
  BY <1>1, ReadersBounded DEF ReadCountExact
<1>4. TypeOK'
  BY <1>1 DEF TypeOK
<1>5. BitOwners' /\ Depth'
  BY DEF BitOwners, Depth, TypeOK
<1>6. HoldsRead(t)
  BY DEF OneRead, HoldsRead
<1>7. Waiters'
  BY <1>2 DEF Waiters, Upgrading, TypeOK, BitOwners
<1>8. WriteGranted' /\ UpgradeGranted'
  <2>1. \A u \in Threads : wbit = u /\ pc[u] # "write2" => u = t
    BY <1>6, IInvExclusion DEF Exclusion, Holds, HoldsWrite
  <2>2. wbit = t => \A h \in readers : h[1] = t
    BY DEF WriteGranted
  <2>3. wbit = t => readers' = {}
    <3>1. ASSUME wbit = t, NEW h \in readers' PROVE FALSE
      BY <1>1, <1>2, <2>2, <3>1 DEF HoldsRead, Tokens
    <3> QED
      BY <3>1
  <2>4. WriteGranted'
    BY <1>2, <2>1, <2>2 DEF WriteGranted, TypeOK
  <2>5. UpgradeGranted'
    BY <1>3, <2>3 DEF UpgradeGranted, Upgrading, BitOwners, TypeOK
  <2> QED
    BY <2>4, <2>5
<1>9. Owner'
  BY <1>2 DEF Owner, Holds, HoldsWrite, TypeOK, BitOwners
<1>10. Sleepers'
  BY DEF Sleepers, NoLostWakeup, MustWait, TypeOK, Waiters, Upgrading, BitOwners
<1> QED
  BY <1>1, <1>4, <1>5, <1>7, <1>8, <1>9, <1>10

\* The wakeup at read_count 0 leaves no sleeper behind whose wait is over.
LEMMA ReleaseReadSleepers ==
    ASSUME IInv, NEW t \in Threads, pc[t] = "run",
           UNCHANGED <<want_write, want_upgrade, pc>>,
           WakeupIf(read_count' = 0)
    PROVE  Sleepers'
  BY DEF IInv, Sleepers, NoLostWakeup, WakeupIf, MustWait, TypeOK

\* lock_done of a read hold, and the failing lock_read_to_write, keep the
\* invariant.
LEMMA ReleaseReadInv ==
    ASSUME NEW t \in Threads, IInv, pc[t] = "run", Drop(t),
           thread = t => HoldsWrite(t) \/ ~OneRead(t),
           read_count' = Dec(read_count, ReadCountMod),
           WakeupIf(read_count' = 0),
           UNCHANGED <<want_write, want_upgrade, can_sleep, thread,
                       recursion_depth, pc, wbit, ubit>>
    PROVE  IInv'
<1> USE LockAssumption DEF IInv
<1>1. ReadCountExact' /\ readers' \subseteq Tokens /\ read_count' \in 0..(ReadCountMod - 1)
  BY DropCounts
<1>2. readers' \subseteq readers /\ (\A u \in Threads : u # t => HoldsRead(u)' = HoldsRead(u)) /\ (~OneRead(t) => HoldsRead(t)')
  BY DropShrinks
<1>3. TypeOK'
  BY <1>1 DEF TypeOK, WakeupIf
<1>4. BitOwners' /\ Depth'
  BY DEF BitOwners, Depth
<1>5. Waiters' /\ WriteGranted' /\ UpgradeGranted'
  BY <1>2 DEF Waiters, WriteGranted, UpgradeGranted, Upgrading
<1>6. Owner'
  BY <1>2 DEF Owner, Holds, HoldsWrite
<1>7. Sleepers'
  BY ReleaseReadSleepers
<1> QED
  BY <1>1, <1>3, <1>4, <1>5, <1>6, <1>7

\* A release that wakes everyone leaves nobody asleep: a thread sleeps only
\* while l->waiting is set.
LEMMA WakeupAll ==
    ASSUME IInv, WakeupIf(TRUE)
    PROVE  waiting' = FALSE /\ asleep' = {}
  BY DEF IInv, WakeupIf, Sleepers, NoLostWakeup, TypeOK

\* Releasing a write hold, alone (lock_done) or for a read hold
\* (lock_write_to_read), keeps the invariant.
LEMMA ReleaseWriteInv ==
    ASSUME NEW t \in Threads, IInv, pc[t] = "run", HoldsWrite(t),
           ReleaseWrite, WakeupIf(TRUE), UNCHANGED <<can_sleep, thread, pc>>,
           \/ /\ thread = t => recursion_depth # 0
              /\ UNCHANGED <<read_count, readers>>
           \/ Grant(t) /\ read_count' = Inc(read_count, ReadCountMod)
    PROVE  IInv'
<1> USE LockAssumption DEF IInv
<1>1. ReadCountExact' /\ readers' \subseteq Tokens /\ read_count' \in 0..(ReadCountMod - 1)
  <2>1. CASE UNCHANGED <<read_count, readers>>
    BY <2>1 DEF ReadCountExact, TypeOK
  <2>2. CASE Grant(t) /\ read_count' = Inc(read_count, ReadCountMod)
    BY <2>2, GrantCounts
  <2> QED
    BY <2>1, <2>2
<1>2. waiting' = FALSE /\ asleep' = {}
  BY WakeupAll
<1>3. recursion_depth' \in 0..MaxDepth
  BY IncDec, Widths, SMT DEF ReleaseWrite, TypeOK
<1>4. TypeOK'
  BY <1>1, <1>2, <1>3 DEF TypeOK, ReleaseWrite
<1>5. \A h \in readers' : h[1] = t
  <2>1. \A h \in readers : h[1] = t
    BY DEF HoldsWrite, WriteGranted, UpgradeGranted, Upgrading
  <2>2. CASE UNCHANGED readers
    BY <2>1, <2>2
  <2>3. CASE Grant(t)
    <3>1. PICK i \in 1..MaxReads : readers' = readers \cup {<<t, i>>}
      BY <2>3 DEF Grant
    <3> QED
      BY <2>1, <3>1
  <2> QED
    BY <2>2, <2>3
<1>6. ubit \in {NoThread, t} /\ (ubit = NoThread => wbit = t)
  BY DEF HoldsWrite, WriteGranted
<1>7. \A u \in Threads : u # t => thread # u /\ ~HoldsRead(u)'
  <2>1. \A u \in Threads : u # t => thread # u
    BY IInvExclusion DEF Exclusion, Owner
  <2>2. \A u \in Threads : u # t => ~HoldsRead(u)'
    BY <1>5 DEF HoldsRead
  <2> QED
    BY <2>1, <2>2
<1>8. BitOwners' /\ Depth'
  BY <1>6 DEF BitOwners, Depth, ReleaseWrite, TypeOK
<1>9. Waiters'
  BY <1>6, <1>7 DEF Waiters, ReleaseWrite, Upgrading, BitOwners, TypeOK
<1>10. WriteGranted' /\ UpgradeGranted'
  <2>1. \A u \in Threads : wbit' = u /\ pc'[u] # "write2" => u = t
    BY IInvExclusion DEF Exclusion, Holds, HoldsWrite, ReleaseWrite
  <2> QED
    BY <1>5, <1>6, <2>1, SMTT(60) DEF WriteGranted, UpgradeGranted, ReleaseWrite, Upgrading
<1>11. Owner'
  <2>1. CASE thread # t
    BY <1>7, <2>1 DEF Owner
  <2>2. CASE thread = t /\ recursion_depth # 0
    BY <1>7, <2>2 DEF Owner, ReleaseWrite, Holds, HoldsWrite
  <2>3. CASE thread = t /\ recursion_depth = 0
    <3>1. HoldsRead(t)'
      BY <2>3 DEF Grant, HoldsRead
    <3> QED
      BY <1>6, <1>7, <2>3, <3>1 DEF Owner, ReleaseWrite, Holds, BitOwners
  <2> QED
    BY <2>1, <2>2, <2>3
<1>12. Sleepers'
  BY <1>2 DEF Sleepers, NoLostWakeup
<1> QED
  BY <1>1, <1>4, <1>8, <1>9, <1>10, <1>11, <1>12

-----------------------------------------------------------------------------
\* The state in which lock_init leaves the lock satisfies the invariant.
LEMMA InitInv == Init => IInv
<1> SUFFICES ASSUME Init PROVE IInv
  OBVIOUS
<1>1. TypeOK
  <2>1. read_count \in 0..(ReadCountMod - 1) /\ recursion_depth \in 0..MaxDepth
    BY LockAssumption, Widths, SMT DEF Init
  <2> QED
    BY <2>1 DEF Init, TypeOK
<1>2. ReadCountExact
  BY FS_EmptySet DEF Init, ReadCountExact
<1>3. BitOwners /\ Waiters /\ WriteGranted /\ UpgradeGranted /\ Owner /\ Depth /\ Sleepers
  BY LockAssumption DEF Init, BitOwners, Waiters, WriteGranted, UpgradeGranted,
     Owner, Depth, Sleepers, NoLostWakeup, HoldsRead, Upgrading
<1> QED
  BY <1>1, <1>2, <1>3 DEF IInv

\* Every routine of lock.c keeps the invariant.
LEMMA NextInv == IInv /\ [Next]_vars => IInv'
<1> SUFFICES ASSUME IInv, [Next]_vars PROVE IInv'
  OBVIOUS
<1> USE DEF IInv
<1>0. \A u \in Threads : pc[u] = "run" => u \notin asleep
  BY DEF Sleepers
<1>1. ASSUME NEW t \in Threads, StillWaits(t) PROVE IInv'
  BY <1>1, StillWaitsInv
<1>2. ASSUME NEW t \in Threads, lock_write(t) PROVE IInv'
  <2>1. CASE NestWrite(t)
    BY <2>1, RecursionInv
  <2>2. CASE pc[t] = "run" /\ thread # t /\ ~Holds(t) /\ TakeWriteBit(t)
    BY <1>0, <2>2, TakeWriteBitInv
  <2>3. CASE /\ pc[t] = "run" /\ thread # t /\ ~Holds(t)
             /\ pc' = [pc EXCEPT ![t] = "write1"] /\ UNCHANGED <<lockvars, asleep, history>>
    BY <1>0, <2>3, EnterLoopInv
  <2> QED
    BY <1>2, <2>1, <2>2, <2>3 DEF lock_write
<1>3. ASSUME NEW t \in Threads, lock_write_retry(t) PROVE IInv'
  <2>1. CASE pc[t] = "write1" /\ TakeWriteBit(t)
    <3>1. ~Holds(t)
      BY <2>1 DEF Waiters, Holds, HoldsWrite
    <3> QED
      BY <1>3, <2>1, <3>1, TakeWriteBitInv DEF lock_write_retry
  <2>2. CASE /\ pc[t] = "write2" /\ ~MustWait("write2")
             /\ pc' = [pc EXCEPT ![t] = "run"] /\ UNCHANGED <<lockvars, asleep, history>>
    BY <1>3, <2>2, GrantedInv DEF lock_write_retry
  <2> QED
    BY <1>3, <2>1, <2>2 DEF lock_write_retry
<1>4. ASSUME NEW t \in Threads, lock_read(t) PROVE IInv'
  <2>1. CASE pc[t] = "run" /\ (thread = t \/ ~MustWait("read")) /\ AddReader(t)
    BY <1>0, <2>1, AddReaderInv
  <2>2. CASE /\ pc[t] = "run" /\ thread # t /\ ~Holds(t)
             /\ pc' = [pc EXCEPT ![t] = "read"] /\ UNCHANGED <<lockvars, asleep, history>>
    BY <1>0, <2>2, EnterLoopInv
  <2> QED
    BY <1>4, <2>1, <2>2 DEF lock_read
<1>5. ASSUME NEW t \in Threads, lock_read_retry(t) PROVE IInv'
  BY <1>5, AddReaderInv DEF lock_read_retry
<1>6. ASSUME NEW t \in Threads, upgrade_retry(t) PROVE IInv'
  BY <1>6, GrantedInv DEF upgrade_retry
<1>7. ASSUME NEW t \in Threads, lock_read_to_write(t) PROVE IInv'
  <2>1. CASE NestUpgrade(t)
    BY <1>7, <2>1, NestUpgradeInv DEF lock_read_to_write
  <2>2. CASE TakeUpgradeBit(t, "upgrade") /\ UNCHANGED <<waiting, asleep>>
    BY <1>7, <2>2, TakeUpgradeBitInv DEF lock_read_to_write
  <2>3. CASE /\ thread # t /\ want_upgrade
             /\ read_count' = Dec(read_count, ReadCountMod) /\ Drop(t)
             /\ WakeupIf(read_count' = 0)
             /\ UNCHANGED <<want_write, want_upgrade, can_sleep, thread,
                            recursion_depth, pc, wbit, ubit>>
    BY <1>7, <2>3, ReleaseReadInv DEF lock_read_to_write
  <2> QED
    BY <1>7, <2>1, <2>2, <2>3 DEF lock_read_to_write
<1>8. ASSUME NEW t \in Threads, lock_try_read_to_write(t) PROVE IInv'
  <2>1. CASE NestUpgrade(t)
    BY <1>8, <2>1, NestUpgradeInv DEF lock_try_read_to_write
  <2>2. CASE /\ TakeUpgradeBit(t, "try_upgrade")
             /\ IF read_count' # 0 THEN Sleep(t) ELSE UNCHANGED <<waiting, asleep>>
    BY <1>8, <2>2, TakeUpgradeBitInv DEF lock_try_read_to_write
  <2> QED
    BY <1>8, <2>1, <2>2 DEF lock_try_read_to_write
<1>9. ASSUME NEW t \in Threads, lock_done(t) PROVE IInv'
  <2> USE <1>9 DEF lock_done
  <2>1. CASE read_count # 0
    <3>1. thread = t => HoldsWrite(t) \/ ~OneRead(t)
      BY DEF CallerMayRelease, Owner, HoldsWrite
    <3> QED
      BY <2>1, <3>1, ReleaseReadInv
  <2>2. CASE read_count = 0
    <3>1. readers = {}
      BY <2>2, ReadersBounded DEF ReadCountExact, TypeOK
    <3>2. HoldsWrite(t) /\ (thread = t => recursion_depth # 0)
      BY <3>1 DEF CallerMayRelease, Holds, HoldsRead
    <3>3. WakeupIf(TRUE)
      BY <2>2 DEF WakeupIf
    <3> QED
      BY <2>2, <3>2, <3>3, ReleaseWriteInv
  <2> QED
    BY <2>1, <2>2
<1>10. ASSUME NEW t \in Threads, lock_write_to_read(t) PROVE IInv'
  BY <1>10, ReleaseWriteInv DEF lock_write_to_read
<1>11. ASSUME NEW t \in Threads, lock_try_write(t) PROVE IInv'
  <2>1. CASE NestWrite(t)
    BY <2>1, RecursionInv
  <2>2. CASE /\ pc[t] = "run" /\ thread # t
             /\ ~want_upgrade /\ read_count = 0 /\ TakeWriteBit(t)
    <3>1. readers = {}
      BY <2>2, ReadersBounded DEF ReadCountExact, TypeOK
    <3>2. ~Holds(t)
      BY <2>2, <3>1, LockAssumption DEF Holds, HoldsRead, HoldsWrite, BitOwners, TakeWriteBit
    <3> QED
      BY <1>0, <2>2, <3>2, TakeWriteBitInv
  <2> QED
    BY <1>11, <2>1, <2>2 DEF lock_try_write
<1>12. ASSUME NEW t \in Threads, lock_try_read(t) PROVE IInv'
  BY <1>0, <1>12, AddReaderInv DEF lock_try_read
<1>13. ASSUME NEW t \in Threads, lock_set_recursive(t) \/ lock_clear_recursive(t) PROVE IInv'
  BY <1>13, RecursionInv
<1>14. ASSUME NEW b \in BOOLEAN, lock_sleepable(b) PROVE IInv'
  BY <1>14 DEF lock_sleepable, history, TypeOK, BitOwners, Waiters, WriteGranted,
     UpgradeGranted, Owner, Depth, ReadCountExact, Sleepers, NoLostWakeup,
     MustWait, Holds, HoldsRead, HoldsWrite, Upgrading
<1>15. CASE UNCHANGED vars
  BY <1>15 DEF vars, lockvars, history, TypeOK, BitOwners, Waiters, WriteGranted,
     UpgradeGranted, Owner, Depth, ReadCountExact, Sleepers, NoLostWakeup,
     MustWait, Holds, HoldsRead, HoldsWrite, Upgrading
<1> QED
  BY <1>1, <1>2, <1>3, <1>4, <1>5, <1>6, <1>7, <1>8, <1>9, <1>10, <1>11,
     <1>12, <1>13, <1>14, <1>15 DEF Next, Retry, Call

\* The invariant holds in every state of every use of the lock.
THEOREM Invariance == Spec => []IInv
  BY InitInv, NextInv, PTL DEF Spec

\* Type correctness: in particular, no counter of struct lock leaves its
\* bit-field.
THEOREM TypeCorrect == Spec => []TypeOK
<1>1. IInv => TypeOK
  BY DEF IInv
<1> QED
  BY <1>1, Invariance, PTL

\* Whatever the callers do, one writer or many readers hold the lock.
THEOREM LockExclusion == Spec => []Exclusion
  BY IInvExclusion, Invariance, PTL

\* read_count is exactly the number of read holds, for any number of threads:
\* lock_done, lock_read_to_write and lock_write_to_read each give back what
\* lock_read took, once.
THEOREM LockReadCount == Spec => []ReadCountExact
<1>1. IInv => ReadCountExact
  BY DEF IInv
<1> QED
  BY <1>1, Invariance, PTL

\* No wakeup is lost: whoever sleeps in lock_write, lock_read or
\* lock_read_to_write still has to wait, and l->waiting tells so.
THEOREM LockWakeups == Spec => []NoLostWakeup
<1>1. IInv => NoLostWakeup
  BY DEF IInv, Sleepers
<1> QED
  BY <1>1, Invariance, PTL

\* No writer gets between an upgrade's read hold and its write hold.
THEOREM LockUpgrade == Spec => []UpgradeUndisturbed
  BY IInvUpgrade, Invariance, PTL

-----------------------------------------------------------------------------
(***************************************************************************)
(* kern/lock.c implements the abstract lock RWLock, for any number of      *)
(* threads and read holds.  A waiting upgrade still counts as the read     *)
(* hold it gave up; a write hold appears when its loop ends.  Besides IInv *)
(* the step simulation needs to know which read hold an upgrade gave up.   *)
(***************************************************************************)

\* The abstract state, as ImplementsRWLock's INSTANCE gives it.
absR == readers \cup {<<t, 1>> : t \in {u \in Threads : Upgrading(u)}}
absW == IF \E t \in Threads : HoldsWrite(t)
        THEN CHOOSE t \in Threads : HoldsWrite(t) ELSE NoThread

\* A thread's read holds are numbered without gaps.
NoGaps == \A t \in Threads : \A i \in 1..MaxReads : <<t, i>> \in readers =>
    \A j \in 1..(i - 1) : <<t, j>> \in readers

RInv == IInv /\ NoGaps

-----------------------------------------------------------------------------
\* The read holds change one at a time, the newest last in and first out.
LEMMA HoldSteps == Next => UNCHANGED readers \/ \E t \in Threads : Grant(t) \/ Drop(t)
  BY DEF Next, Retry, Call, StillWaits, lock_write, lock_write_retry, NestWrite,
     TakeWriteBit, lock_read, lock_read_retry, AddReader, lock_read_to_write,
     lock_try_read_to_write, NestUpgrade, TakeUpgradeBit, upgrade_retry, lock_done,
     lock_write_to_read, lock_try_write, lock_try_read, lock_set_recursive,
     lock_clear_recursive, lock_sleepable, history

\* Numbering the holds without gaps is kept by every routine.
LEMMA NoGapsInv == NoGaps /\ [Next]_vars => NoGaps'
<1> SUFFICES ASSUME NoGaps, [Next]_vars PROVE NoGaps'
  OBVIOUS
<1> USE LockAssumption
<1>1. CASE UNCHANGED readers
  BY <1>1 DEF NoGaps
<1>2. ASSUME NEW t \in Threads, Grant(t) PROVE NoGaps'
  BY <1>2 DEF NoGaps, Grant
<1>3. ASSUME NEW t \in Threads, Drop(t) PROVE NoGaps'
  BY <1>3 DEF NoGaps, Drop
<1> QED
  BY <1>1, <1>2, <1>3, HoldSteps DEF vars, history

\* The abstract writer is the thread that holds the lock for write.
WriterIs ==
    /\ absW \in Threads \cup {NoThread}
    /\ \A t \in Threads : absW = t <=> HoldsWrite(t)

\* At most one thread holds the lock for write, so the writer is unique.
LEMMA AbsWriter == IInv => WriterIs
<1> SUFFICES ASSUME IInv PROVE WriterIs
  OBVIOUS
<1>1. CASE \E t \in Threads : HoldsWrite(t)
  <2>1. absW \in Threads /\ HoldsWrite(absW)
    BY <1>1 DEF absW
  <2>2. \A t \in Threads : HoldsWrite(t) => t = absW
    BY <2>1, IInvExclusion DEF Exclusion, Holds
  <2> QED
    BY <2>1, <2>2 DEF WriterIs
<1>2. CASE ~\E t \in Threads : HoldsWrite(t)
  BY <1>2, LockAssumption DEF absW, WriterIs
<1> QED
  BY <1>1, <1>2

\* The same after a step.
LEMMA AbsWriterNext == IInv' => WriterIs'
  BY AbsWriter, PTL

\* If the same threads hold the lock for write, the abstract writer is the
\* same.
LEMMA SameWriter ==
    ASSUME IInv, IInv', \A u \in Threads : HoldsWrite(u)' = HoldsWrite(u)
    PROVE  absW' = absW
  BY AbsWriter, AbsWriterNext, LockAssumption DEF WriterIs

\* A waiting upgrade is the only one, and the write bit is not its own.
LEMMA OneUpgrade ==
    ASSUME IInv, NEW t \in Threads, NEW u \in Threads, Upgrading(t), Upgrading(u)
    PROVE  t = u
  BY DEF IInv, Waiters

-----------------------------------------------------------------------------
(***************************************************************************)
(* The step simulation, one lemma for each way lock.c changes the lock.    *)
(***************************************************************************)
\* An abstract step.
AbsStep == [Abs!Next]_(Abs!vars)

\* The waiting loops, and the switches of the recursive owner and of
\* can_sleep, do not change the abstract lock.
LEMMA QuietStep ==
    ASSUME IInv, IInv', UNCHANGED <<readers, recursion_depth>>,
           \A u \in Threads : HoldsWrite(u)' = HoldsWrite(u) /\ Upgrading(u)' = Upgrading(u)
    PROVE  AbsStep
<1>1. absR' = absR
  BY DEF absR
<1>2. absW' = absW
  BY SameWriter
<1> QED
  BY <1>1, <1>2 DEF AbsStep, Abs!vars, absR, absW

\* The steps of the abstract lock, in terms of absR and absW.  A new read
\* hold is taken.
LEMMA AbsRead ==
    ASSUME NEW t \in Threads, NEW i \in 1..MaxReads, <<t, i>> \notin absR,
           absW \in {NoThread, t}, absR' = absR \cup {<<t, i>>},
           UNCHANGED <<absW, recursion_depth>>
    PROVE  AbsStep
<1>1. Abs!Read(t)
  BY DEF Abs!Read, Abs!NewHold, absR, absW
<1> QED
  BY <1>1 DEF AbsStep, Abs!Next

\* The free lock is taken for write.
LEMMA AbsWrite ==
    ASSUME NEW t \in Threads, absR = {}, absR' = {}, absW = NoThread, absW' = t,
           UNCHANGED recursion_depth
    PROVE  AbsStep
<1>1. Abs!Write(t)
  BY DEF Abs!Write, absR, absW
<1> QED
  BY <1>1 DEF AbsStep, Abs!Next

\* The writer nests one more write hold.
LEMMA AbsNestWrite ==
    ASSUME NEW t \in Threads, absW = t, UNCHANGED <<absR, absW>>,
           recursion_depth' = recursion_depth + 1
    PROVE  AbsStep
<1>1. Abs!NestWrite(t)
  BY DEF Abs!NestWrite, absR, absW
<1> QED
  BY <1>1 DEF AbsStep, Abs!Next

\* The only reader becomes the writer, or the writer turns a nested read hold
\* into a nested write hold.
LEMMA AbsUpgrade ==
    ASSUME NEW t \in Threads, NEW i, <<t, i>> \in absR,
           \/ /\ absR = {<<t, i>>} /\ absW = NoThread
              /\ absR' = {} /\ absW' = t /\ UNCHANGED recursion_depth
           \/ /\ absW = t /\ absW' = t
              /\ absR' = absR \ {<<t, i>>} /\ recursion_depth' = recursion_depth + 1
    PROVE  AbsStep
<1>1. Abs!Upgrade(t)
  BY DEF Abs!Upgrade, Abs!Own, absR, absW
<1> QED
  BY <1>1 DEF AbsStep, Abs!Next

\* One read hold is given up.
LEMMA AbsReleaseRead ==
    ASSUME NEW t \in Threads, NEW i \in 1..MaxReads, <<t, i>> \in absR,
           absR' = absR \ {<<t, i>>}, UNCHANGED <<absW, recursion_depth>>
    PROVE  AbsStep
<1>1. Abs!ReleaseRead(t)
  BY DEF Abs!ReleaseRead, Abs!Own, absR, absW
<1> QED
  BY <1>1 DEF AbsStep, Abs!Next

\* What a release of the write hold of t does to the abstract writer.
WriteGone(t) ==
    \/ absW' = t /\ recursion_depth # 0 /\ recursion_depth' = recursion_depth - 1
    \/ absW' = NoThread /\ recursion_depth = 0 /\ UNCHANGED recursion_depth

\* One write hold is given up.
LEMMA AbsReleaseWrite ==
    ASSUME NEW t \in Threads, absW = t, WriteGone(t), UNCHANGED absR
    PROVE  AbsStep
<1>1. Abs!ReleaseWrite(t)
  BY DEF Abs!ReleaseWrite, Abs!LetGo, absR, absW, WriteGone
<1> QED
  BY <1>1 DEF AbsStep, Abs!Next

\* One write hold is turned into a read hold.
LEMMA AbsDowngrade ==
    ASSUME NEW t \in Threads, absW = t, WriteGone(t),
           NEW i \in 1..MaxReads, <<t, i>> \notin absR, absR' = absR \cup {<<t, i>>}
    PROVE  AbsStep
<1>1. Abs!Downgrade(t)
  BY DEF Abs!Downgrade, Abs!NewHold, Abs!LetGo, absR, absW, WriteGone
<1> QED
  BY <1>1 DEF AbsStep, Abs!Next

-----------------------------------------------------------------------------
\* Nothing is held: no reader, no upgrade in progress.
LEMMA NoReaders ==
    ASSUME IInv, read_count = 0
    PROVE  readers = {} /\ (ubit = NoThread => absR = {})
<1>1. readers = {}
  BY ReadersBounded DEF IInv, ReadCountExact, TypeOK
<1>2. ubit = NoThread => \A u \in Threads : ~Upgrading(u)
  BY LockAssumption DEF IInv, Waiters
<1> QED
  BY <1>1, <1>2 DEF absR

\* Taking the write bit is the abstract Write, or starts a wait.
LEMMA TakeWriteBitStep ==
    ASSUME NEW t \in Threads, IInv, IInv', TakeWriteBit(t),
           pc[t] \in {"run", "write1"}, ~Holds(t)
    PROVE  AbsStep
<1> USE LockAssumption DEF TakeWriteBit
<1>1. \A u \in Threads : Upgrading(u)' = Upgrading(u)
  BY DEF Upgrading, IInv, TypeOK
<1>2. wbit = NoThread
  BY DEF IInv, BitOwners
<1>3. CASE read_count # 0 \/ want_upgrade
  <2>1. \A u \in Threads : HoldsWrite(u)' = HoldsWrite(u)
    BY <1>2, <1>3 DEF HoldsWrite, Holds, IInv, TypeOK
  <2> QED
    BY <1>1, <2>1, QuietStep
<1>4. CASE read_count = 0 /\ ~want_upgrade
  <2>1. ubit = NoThread
    BY <1>4 DEF IInv, BitOwners
  <2>2. absR = {} /\ absR' = {}
    BY <1>1, <1>4, <2>1, NoReaders DEF absR
  <2>3. absW = NoThread
    BY <1>2, <2>1, AbsWriter DEF WriterIs, HoldsWrite
  <2>4. absW' = t
    BY <1>4, AbsWriterNext DEF WriterIs, HoldsWrite, IInv, TypeOK
  <2> QED
    BY <2>2, <2>3, <2>4, AbsWrite
<1> QED
  BY <1>3, <1>4

\* The end of lock_write's second loop is the abstract Write.
LEMMA WriteGrantedStep ==
    ASSUME NEW t \in Threads, IInv, IInv', pc[t] = "write2", ~MustWait("write2"),
           pc' = [pc EXCEPT ![t] = "run"], UNCHANGED <<lockvars, asleep, history>>
    PROVE  AbsStep
<1> USE LockAssumption DEF lockvars, history
<1>1. read_count = 0 /\ ubit = NoThread /\ wbit = t
  BY DEF MustWait, IInv, BitOwners, Waiters
<1>2. \A u \in Threads : Upgrading(u)' = Upgrading(u)
  BY DEF Upgrading, IInv, TypeOK
<1>3. absR = {} /\ absR' = {}
  BY <1>1, <1>2, NoReaders DEF absR
<1>4. absW = NoThread
  BY <1>1, AbsWriter DEF WriterIs, HoldsWrite
<1>5. absW' = t
  BY <1>1, AbsWriterNext DEF WriterIs, HoldsWrite, IInv, TypeOK
<1> QED
  BY <1>3, <1>4, <1>5, AbsWrite

\* The end of an upgrade's loop is the abstract Upgrade.
LEMMA UpgradeGrantedStep ==
    ASSUME NEW t \in Threads, IInv, IInv', Upgrading(t), ~MustWait(pc[t]),
           pc' = [pc EXCEPT ![t] = "run"], UNCHANGED <<lockvars, asleep, history>>
    PROVE  AbsStep
<1> USE LockAssumption DEF lockvars, history
<1>1. read_count = 0 /\ ubit = t /\ wbit # t
  BY DEF MustWait, IInv, Waiters, UpgradeGranted, Upgrading
<1>2. readers = {} /\ \A u \in Threads : Upgrading(u) => u = t
  BY <1>1, NoReaders, OneUpgrade
<1>3. \A u \in Threads : ~Upgrading(u)'
  BY <1>2 DEF Upgrading, IInv, TypeOK
<1>4. absR = {<<t, 1>>} /\ absR' = {}
  BY <1>2, <1>3 DEF absR
<1>5. absW = NoThread
  BY <1>1, AbsWriter DEF WriterIs, HoldsWrite, IInv, WriteGranted, Upgrading
<1>6. absW' = t
  BY <1>1, AbsWriterNext DEF WriterIs, HoldsWrite, IInv, TypeOK
<1> QED
  BY <1>4, <1>5, <1>6, AbsUpgrade

\* A new read hold is the abstract Read: the lock is free of writers, or the
\* reader is the recursive owner.
LEMMA AddReaderStep ==
    ASSUME NEW t \in Threads, IInv, IInv', AddReader(t),
           pc[t] \in {"run", "read"}, thread = t \/ ~MustWait("read")
    PROVE  AbsStep
<1> USE LockAssumption DEF AddReader
<1>1. PICK i \in 1..MaxReads : <<t, i>> \notin readers /\ readers' = readers \cup {<<t, i>>}
  BY DEF Grant
<1>2. ~Upgrading(t) /\ \A u \in Threads : Upgrading(u)' = Upgrading(u)
  BY SMTT(60) DEF Upgrading, IInv, TypeOK
<1>3. <<t, i>> \notin absR /\ absR' = absR \cup {<<t, i>>}
  BY <1>1, <1>2 DEF absR
<1>4. \A u \in Threads : HoldsWrite(u)' = HoldsWrite(u)
  BY DEF HoldsWrite, IInv, Waiters, TypeOK
<1>5. absW' = absW
  BY <1>4, SameWriter
<1>6. absW \in {NoThread, t}
  <2>1. CASE thread = t
    BY <2>1, AbsWriter, IInvExclusion DEF WriterIs, Exclusion, IInv, Owner
  <2>2. CASE ~MustWait("read")
    <3>1. wbit = NoThread /\ ubit = NoThread
      BY <2>2 DEF MustWait, IInv, BitOwners
    <3> QED
      BY <3>1, AbsWriter DEF WriterIs, HoldsWrite
  <2> QED
    BY <2>1, <2>2
<1> QED
  BY <1>1, <1>3, <1>5, <1>6, AbsRead

\* Nesting a write hold, as such or by upgrading a nested read hold.
LEMMA NestStep ==
    ASSUME NEW t \in Threads, IInv, IInv', pc[t] = "run",
           NestWrite(t) \/ (CallerMayUpgrade(t) /\ NestUpgrade(t))
    PROVE  AbsStep
<1> USE LockAssumption
<1>1. recursion_depth' = recursion_depth + 1
  BY IncDec, Widths, SMTT(60)
     DEF NestWrite, CallerMayNestWrite, CallerMayUpgrade, NestUpgrade, IInv, TypeOK
<1>2. absW = t
  BY AbsWriter DEF WriterIs, NestWrite, CallerMayNestWrite, CallerMayUpgrade, NestUpgrade
<1>3. absW' = absW
  <2>1. \A u \in Threads : HoldsWrite(u)' = HoldsWrite(u)
    BY DEF HoldsWrite, NestWrite, NestUpgrade, history
  <2> QED
    BY <2>1, SameWriter
<1>4. ~Upgrading(t) /\ \A u \in Threads : Upgrading(u)' = Upgrading(u)
  BY DEF Upgrading, NestWrite, NestUpgrade
<1>5. CASE NestWrite(t)
  <2>1. absR' = absR
    BY <1>4, <1>5 DEF absR, NestWrite, history
  <2> QED
    BY <1>1, <1>2, <1>3, <2>1, AbsNestWrite
<1>6. CASE NestUpgrade(t)
  <2>1. PICK i \in 1..MaxReads : <<t, i>> \in readers /\ readers' = readers \ {<<t, i>>}
    BY <1>6 DEF NestUpgrade, Drop
  <2>2. <<t, i>> \in absR /\ absR' = absR \ {<<t, i>>}
    BY <1>4, <2>1 DEF absR
  <2> QED
    BY <1>1, <1>2, <1>3, <2>2, AbsUpgrade
<1> QED
  BY <1>5, <1>6

\* lock_done of a read hold, and the failing upgrade, are ReleaseRead.
LEMMA ReleaseReadStep ==
    ASSUME NEW t \in Threads, IInv, IInv', pc[t] = "run", Drop(t),
           UNCHANGED <<recursion_depth, pc, wbit, ubit>>
    PROVE  AbsStep
<1>1. PICK i \in 1..MaxReads : <<t, i>> \in readers /\ readers' = readers \ {<<t, i>>}
  BY DEF Drop
<1>2. ~Upgrading(t) /\ \A u \in Threads : Upgrading(u)' = Upgrading(u)
  BY DEF Upgrading
<1>3. <<t, i>> \in absR /\ absR' = absR \ {<<t, i>>}
  BY <1>1, <1>2 DEF absR
<1>4. \A u \in Threads : HoldsWrite(u)' = HoldsWrite(u)
  BY DEF HoldsWrite
<1> QED
  BY <1>1, <1>3, <1>4, SameWriter, AbsReleaseRead

\* An upgrade that has to wait changes nothing; one that need not is the
\* abstract Upgrade, or gives up the read hold of a thread that already has
\* the lock for write.
LEMMA TakeUpgradeBitStep ==
    ASSUME NEW t \in Threads, RInv, IInv', pc[t] = "run", CallerMayUpgrade(t),
           NEW p \in {"upgrade", "try_upgrade"}, TakeUpgradeBit(t, p)
    PROVE  AbsStep
<1> USE LockAssumption DEF RInv, TakeUpgradeBit, CallerMayUpgrade
<1>1. PICK i \in 1..MaxReads : <<t, i>> \in readers /\ readers' = readers \ {<<t, i>>}
  BY DEF Drop
<1>2. i = 1 /\ \A j \in 1..MaxReads : j # i => <<t, j>> \notin readers
  <2>1. \A j \in 1..MaxReads : j # i => <<t, j>> \notin readers
    BY <1>1 DEF OneRead
  <2>2. i # 1 => 1 \in 1..(i - 1) /\ 1 \in 1..MaxReads
    BY SMT
  <2>3. i # 1 => <<t, 1>> \in readers
    BY <1>1, <2>2 DEF NoGaps
  <2> QED
    BY <2>1, <2>2, <2>3
<1>3. ubit = NoThread /\ \A u \in Threads : ~Upgrading(u)
  BY DEF IInv, BitOwners, Waiters
<1>4. absR = readers
  BY <1>3 DEF absR
<1>5. \A u \in Threads : HoldsWrite(u) => u = t
  BY <1>1, IInvExclusion DEF Exclusion, Holds, HoldsRead
<1>6. HoldsWrite(t) => readers = {<<t, i>>}
  BY <1>1, <1>2, <1>3, SMTT(60) DEF HoldsWrite, IInv, WriteGranted, TypeOK, Tokens
<1>7. readers' \subseteq Tokens /\ IsFiniteSet(readers') /\ (read_count' = 0 <=> readers' = {})
  BY <1>1, ReadersBounded DEF IInv, TypeOK, ReadCountExact
<1>8. CASE read_count' # 0
  <2>1. ~HoldsWrite(t)
    BY <1>1, <1>6, <1>7, <1>8
  <2>2. \A u \in Threads : Upgrading(u)' <=> u = t
    BY <1>3, <1>8 DEF Upgrading, IInv, TypeOK
  <2>3. absR' = absR
    BY <1>1, <1>2, <1>4, <2>2 DEF absR
  <2>4. \A u \in Threads : HoldsWrite(u)' = HoldsWrite(u)
    BY <1>3, <1>5, <1>8, <2>1 DEF HoldsWrite, IInv, TypeOK
  <2> QED
    BY <2>3, <2>4, SameWriter DEF AbsStep, Abs!vars, absR, absW
<1>9. CASE read_count' = 0
  <2>1. readers = {<<t, i>>} /\ readers' = {}
    BY <1>1, <1>7, <1>9
  <2>2. \A u \in Threads : ~Upgrading(u)'
    BY <1>3, <1>9 DEF Upgrading, IInv, TypeOK
  <2>3. absR' = {}
    BY <2>1, <2>2 DEF absR
  <2>4. absW' = t
    BY <1>9, AbsWriterNext DEF WriterIs, HoldsWrite, IInv, TypeOK
  <2>5. CASE HoldsWrite(t)
    <3>1. absW = t
      BY <2>5, AbsWriter DEF WriterIs
    <3> QED
      BY <1>4, <2>1, <2>3, <2>4, <3>1, AbsReleaseRead
  <2>6. CASE ~HoldsWrite(t)
    <3>1. absW = NoThread
      BY <1>5, <2>6, AbsWriter DEF WriterIs
    <3> QED
      BY <1>4, <2>1, <2>3, <2>4, <3>1, AbsUpgrade
  <2> QED
    BY <2>5, <2>6
<1> QED
  BY <1>8, <1>9

\* ReleaseWrite takes one write hold from t.  A thread that has both bits
\* keeps the lock for write when it clears want_upgrade.
LEMMA ReleaseWriteGone ==
    ASSUME NEW t \in Threads, IInv, IInv', pc[t] = "run", HoldsWrite(t),
           ReleaseWrite, UNCHANGED pc
    PROVE  /\ absW = t
           /\ WriteGone(t) \/ (absW' = t /\ UNCHANGED recursion_depth)
<1> USE LockAssumption
<1>1. absW = t
  BY AbsWriter DEF WriterIs
<1>2. CASE recursion_depth # 0
  <2>1. recursion_depth' = recursion_depth - 1
    BY <1>2, IncDec, Widths, SMTT(60) DEF ReleaseWrite, IInv, TypeOK
  <2>2. \A u \in Threads : HoldsWrite(u)' = HoldsWrite(u)
    BY <1>2 DEF ReleaseWrite, HoldsWrite
  <2> QED
    BY <1>1, <1>2, <2>1, <2>2, SameWriter DEF WriteGone
<1>3. CASE recursion_depth = 0
  <2>1. UNCHANGED recursion_depth
    BY <1>3 DEF ReleaseWrite
  <2>2. \A u \in Threads : HoldsWrite(u)' => HoldsWrite(u)
    BY <1>3 DEF ReleaseWrite, HoldsWrite
  <2>3. absW' \in {NoThread, t}
    BY <1>1, <2>2, AbsWriter, AbsWriterNext DEF WriterIs
  <2> QED
    BY <1>1, <1>3, <2>1, <2>3 DEF WriteGone
<1> QED
  BY <1>1, <1>2, <1>3

\* lock_done of a write hold is ReleaseWrite, lock_write_to_read Downgrade.
LEMMA ReleaseWriteStep ==
    ASSUME NEW t \in Threads, IInv, IInv', pc[t] = "run", HoldsWrite(t),
           ReleaseWrite, UNCHANGED pc, UNCHANGED readers \/ Grant(t)
    PROVE  AbsStep
<1>1. /\ absW = t
      /\ WriteGone(t) \/ (absW' = t /\ UNCHANGED recursion_depth)
  BY ReleaseWriteGone
<1>2. ~Upgrading(t) /\ \A u \in Threads : Upgrading(u)' = Upgrading(u)
  BY DEF Upgrading
<1>3. CASE UNCHANGED readers
  <2>1. absR' = absR
    BY <1>2, <1>3 DEF absR
  <2>2. CASE WriteGone(t)
    BY <1>1, <2>1, <2>2, AbsReleaseWrite
  <2>3. CASE absW' = t /\ UNCHANGED recursion_depth
    BY <1>1, <2>1, <2>3 DEF AbsStep, Abs!vars, absR, absW
  <2> QED
    BY <1>1, <2>2, <2>3
<1>4. CASE Grant(t)
  <2>1. PICK i \in 1..MaxReads : <<t, i>> \notin readers /\ readers' = readers \cup {<<t, i>>}
    BY <1>4 DEF Grant
  <2>2. <<t, i>> \notin absR /\ absR' = absR \cup {<<t, i>>}
    BY <1>2, <2>1 DEF absR
  <2>3. CASE WriteGone(t)
    BY <1>1, <2>1, <2>2, <2>3, AbsDowngrade
  <2>4. CASE absW' = t /\ UNCHANGED recursion_depth
    BY <1>1, <2>1, <2>2, <2>4, AbsRead
  <2> QED
    BY <1>1, <2>3, <2>4
<1> QED
  BY <1>3, <1>4

-----------------------------------------------------------------------------
\* lock_init leaves the abstract lock free.
LEMMA AbsInit == Init => Abs!Init
  BY LockAssumption DEF Init, Abs!Init, Upgrading, HoldsWrite

\* Every routine of lock.c is a step of the abstract lock, or none.
LEMMA NextSimulates == RInv /\ IInv' /\ [Next]_vars => AbsStep
<1> SUFFICES ASSUME RInv, IInv', [Next]_vars PROVE AbsStep
  OBVIOUS
<1> USE LockAssumption DEF RInv
<1>1. ASSUME NEW t \in Threads, StillWaits(t) \/ lock_set_recursive(t) \/ lock_clear_recursive(t)
      PROVE  AbsStep
  BY <1>1, QuietStep DEF StillWaits, lock_set_recursive, lock_clear_recursive,
     history, HoldsWrite, Upgrading
<1>2. ASSUME NEW t \in Threads, NEW p \in {"write1", "read"}, pc[t] = "run", ~Holds(t),
             pc' = [pc EXCEPT ![t] = p], UNCHANGED <<lockvars, asleep, history>>
      PROVE  AbsStep
  <2>1. \A u \in Threads : HoldsWrite(u)' = HoldsWrite(u) /\ Upgrading(u)' = Upgrading(u)
    BY <1>2, SMTT(60) DEF HoldsWrite, Holds, Upgrading, history, IInv, TypeOK
  <2> QED
    BY <1>2, <2>1, QuietStep DEF lockvars, history
<1>3. ASSUME NEW t \in Threads, lock_write(t) PROVE AbsStep
  <2>1. CASE NestWrite(t)
    BY <2>1, NestStep DEF NestWrite
  <2>2. CASE pc[t] = "run" /\ ~Holds(t) /\ TakeWriteBit(t)
    BY <2>2, TakeWriteBitStep
  <2> QED
    BY <1>2, <1>3, <2>1, <2>2 DEF lock_write
<1>4. ASSUME NEW t \in Threads, lock_write_retry(t) PROVE AbsStep
  <2>1. CASE pc[t] = "write1" /\ TakeWriteBit(t)
    <3>1. ~Holds(t)
      BY <2>1 DEF IInv, Waiters, Holds, HoldsWrite
    <3> QED
      BY <2>1, <3>1, TakeWriteBitStep
  <2> QED
    BY <1>4, <2>1, WriteGrantedStep DEF lock_write_retry
<1>5. ASSUME NEW t \in Threads, lock_read(t) \/ lock_read_retry(t) \/ lock_try_read(t)
      PROVE  AbsStep
  BY <1>2, <1>5, AddReaderStep DEF lock_read, lock_read_retry, lock_try_read
<1>6. ASSUME NEW t \in Threads, upgrade_retry(t) PROVE AbsStep
  BY <1>6, UpgradeGrantedStep DEF upgrade_retry, Upgrading
<1>7. ASSUME NEW t \in Threads, lock_read_to_write(t) \/ lock_try_read_to_write(t)
      PROVE  AbsStep
  BY <1>7, NestStep, TakeUpgradeBitStep, ReleaseReadStep
     DEF lock_read_to_write, lock_try_read_to_write
<1>8. ASSUME NEW t \in Threads, lock_done(t) PROVE AbsStep
  <2>1. CASE read_count # 0
    BY <1>8, <2>1, ReleaseReadStep DEF lock_done
  <2>2. CASE read_count = 0
    <3>1. HoldsWrite(t)
      BY <1>8, <2>2, NoReaders DEF lock_done, CallerMayRelease, Holds, HoldsRead
    <3> QED
      BY <1>8, <2>2, <3>1, ReleaseWriteStep DEF lock_done
  <2> QED
    BY <2>1, <2>2
<1>9. ASSUME NEW t \in Threads, lock_write_to_read(t) PROVE AbsStep
  BY <1>9, ReleaseWriteStep DEF lock_write_to_read
<1>10. ASSUME NEW t \in Threads, lock_try_write(t) PROVE AbsStep
  <2>1. CASE NestWrite(t)
    BY <2>1, NestStep DEF NestWrite
  <2>2. CASE pc[t] = "run" /\ ~want_upgrade /\ read_count = 0 /\ TakeWriteBit(t)
    <3>1. ~Holds(t)
      BY <2>2, NoReaders DEF Holds, HoldsRead, HoldsWrite, IInv, BitOwners, TakeWriteBit
    <3> QED
      BY <2>2, <3>1, TakeWriteBitStep
  <2> QED
    BY <1>10, <2>1, <2>2 DEF lock_try_write
<1>11. ASSUME NEW b \in BOOLEAN, lock_sleepable(b) PROVE AbsStep
  BY <1>11, QuietStep DEF lock_sleepable, history, HoldsWrite, Upgrading
<1>12. CASE UNCHANGED vars
  BY <1>12, QuietStep DEF vars, lockvars, history, HoldsWrite, Upgrading
<1> QED
  BY <1>1, <1>3, <1>4, <1>5, <1>6, <1>7, <1>8, <1>9, <1>10, <1>11, <1>12
     DEF Next, Retry, Call

\* Whatever the callers do, and however many they are, lock.c behaves as the
\* abstract lock: one writer or many readers, and an upgrade is one step.
THEOREM Refinement == Spec => ImplementsRWLock
<1>1. Init => RInv
  BY InitInv DEF RInv, NoGaps, Init
<1>2. RInv /\ [Next]_vars => RInv'
  BY NextInv, NoGapsInv DEF RInv
<1>3. RInv /\ RInv' /\ [Next]_vars => [Abs!Next]_(Abs!vars)
  BY NextSimulates DEF RInv, AbsStep
<1> QED
  BY <1>1, <1>2, <1>3, AbsInit, PTL DEF Spec, ImplementsRWLock, Abs!Spec
=============================================================================
