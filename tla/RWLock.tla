------------------------------- MODULE RWLock -------------------------------
(***************************************************************************)
(* What kern/lock.c promises its callers, without bits, waiting or         *)
(* sleeping: one writer or many readers.  A reader that upgrades goes from *)
(* the only read hold to the write hold in one step, so what it read under *)
(* the read lock is still true under the write lock.                       *)
(***************************************************************************)
EXTENDS Integers

CONSTANTS Threads, NoThread, MaxReads

VARIABLES
    holdR,      \* the read holds, <<thread, i>>
    holdW,      \* the thread that holds the lock for write, or NoThread
    nest        \* how often holdW has nested a write hold

vars == <<holdR, holdW, nest>>

Own(t) == {h \in holdR : h[1] = t}
NewHold(t) == {<<t, i>> : i \in 1..MaxReads} \ holdR

Init == holdR = {} /\ holdW = NoThread /\ nest = 0

Read(t) == \E h \in NewHold(t) :
    /\ holdW \in {NoThread, t}
    /\ holdR' = holdR \cup {h}
    /\ UNCHANGED <<holdW, nest>>

Write(t) ==
    /\ holdR = {} /\ holdW = NoThread
    /\ holdW' = t
    /\ UNCHANGED <<holdR, nest>>

NestWrite(t) ==
    /\ holdW = t
    /\ nest' = nest + 1
    /\ UNCHANGED <<holdR, holdW>>

Upgrade(t) == \E h \in Own(t) :
    \/ /\ holdR = {h} /\ holdW = NoThread
       /\ holdR' = {} /\ holdW' = t
       /\ UNCHANGED nest
    \/ /\ holdW = t
       /\ holdR' = holdR \ {h} /\ nest' = nest + 1
       /\ UNCHANGED holdW

\* One write hold of t less: the innermost nested one, or the lock itself.
LetGo(t) ==
    /\ holdW = t
    /\ \/ nest # 0 /\ nest' = nest - 1 /\ UNCHANGED holdW
       \/ nest = 0 /\ holdW' = NoThread /\ UNCHANGED nest

Downgrade(t) == \E h \in NewHold(t) :
    LetGo(t) /\ holdR' = holdR \cup {h}

ReleaseRead(t) == \E h \in Own(t) :
    holdR' = holdR \ {h} /\ UNCHANGED <<holdW, nest>>

ReleaseWrite(t) ==
    LetGo(t) /\ UNCHANGED holdR

Next == \E t \in Threads :
    \/ Read(t) \/ Write(t) \/ NestWrite(t) \/ Upgrade(t)
    \/ Downgrade(t) \/ ReleaseRead(t) \/ ReleaseWrite(t)

Spec == Init /\ [][Next]_vars
=============================================================================
