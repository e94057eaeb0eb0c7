-------------------------- MODULE IpcMqueueProofs --------------------------
(***************************************************************************)
(* The invariant of IpcMqueue holds, for any threads, ports, sets, limits  *)
(* and sizes, and the properties of message queues follow from it.         *)
(***************************************************************************)
EXTENDS IpcMqueueReceivers, FiniteSetTheorems, WellFoundedInduction

-----------------------------------------------------------------------------
(* Numbers and finite sets *)

\* Induction over sets of numbers, for the loop of ipc_mqueue_move.
LEMMA InductionHolds ==
  ASSUME NEW S, 0 \in S, \A n \in Nat : n \in S => n + 1 \in S
  PROVE  Nat \subseteq S
<1> DEFINE T == Nat \ S
<1>1. ASSUME T # {} PROVE FALSE
  <2>1. PICK x \in T : \A y \in T : ~(<<y, x>> \in OpToRel(<, Nat))
    BY <1>1, NatLessThanWellFounded, WFMin, ZenonT(60)
  <2>2. x # 0 /\ x - 1 \in Nat
    BY SMTT(60)
  <2>3. x - 1 \in T
    BY <2>2, SMTT(60)
  <2>4. <<x - 1, x>> \in OpToRel(<, Nat)
    BY <2>2, SMTT(60) DEF OpToRel
  <2> QED
    BY <2>1, <2>3, <2>4, ZenonT(60)
<1> QED
  BY <1>1, ZenonT(60)

\* A set of numbers that is not empty has a least one, so a queue a first receiver.
LEMMA LeastHolds ==
  ASSUME NEW S \in SUBSET Nat, S # {}
  PROVE  \E x \in S : \A y \in S : x <= y
<1>1. PICK x \in S : \A y \in S : ~(<<y, x>> \in OpToRel(<, Nat))
  BY NatLessThanWellFounded, WFMin, ZenonT(60)
<1>2. ASSUME NEW y \in S PROVE x <= y
  <2>1. ~(<<y, x>> \in OpToRel(<, Nat))
    BY <1>1, ZenonT(60)
  <2>2. x \in Nat /\ y \in Nat
    BY ZenonT(60)
  <2> QED
    BY <2>1, <2>2, SMTT(60) DEF OpToRel
<1> QED
  BY <1>2, ZenonT(60)

\* The laws of numbers and finite sets that the lemmas on the queues assume hold.
LEMMA SetLawsHold == SetLaws
<1>1. Induction
  BY InductionHolds, ZenonT(60) DEF Induction
<1>2. LeastNumber
  BY LeastHolds, ZenonT(60) DEF LeastNumber
<1>3. SizeOfOne
  BY FS_EmptySet, FS_Singleton, FS_Interval, ZenonT(60) DEF SizeOfOne
<1>4. SizeOfMore
  BY FS_CardinalityType, FS_AddElement, FS_RemoveElement, FS_Subset, FS_Union, FS_Bijection, ZenonT(60)
     DEF SizeOfMore
<1> QED
  BY <1>1, <1>2, <1>3, <1>4, ZenonT(60) DEF SetLaws
-----------------------------------------------------------------------------
(* The invariant holds, and the properties follow from it. *)
\* The invariant holds before any call.
LEMMA InitIInv ==
  ASSUME Init PROVE IInv
<1>0. /\ dead = {} /\ ip_pset = [p \in Ports |-> Null] /\ ip_qlimit \in [Ports -> QLimits]
      /\ ip_msgcount = [p \in Ports |-> 0] /\ ip_seqno = [p \in Ports |-> 0]
      /\ ip_blocked = [p \in Ports |-> <<>>]
      /\ imq_messages = [q \in Queues |-> <<>>] /\ imq_threads = [q \in Queues |-> <<>>]
      /\ ith = [t \in Threads |-> NoWait] /\ pc = [t \in Threads |-> "idle"]
      /\ call = [t \in Threads |-> NoCall]
      /\ sent = [p \in Ports |-> 0] /\ base = [p \in Ports |-> 0] /\ wasted = {}
  BY ZenonT(60) DEF Init
<1>1. /\ "idle" \in Stages /\ "idle" # "go" /\ "idle" # "receive" /\ "idle" # "send" /\ "idle" # "account"
      /\ 0 \in Nat /\ 0 \in Int /\ <<>> \in Seq(Threads) /\ <<>> \in Seq(Message)
  BY SMTT(60) DEF Stages
<1>2. CInv(pc, call)
  BY <1>0, <1>1, NoCallIs, ZenonT(60) DEF CInv
<1>3. QTypes(ip_pset, dead, base, sent, ip_msgcount)
  BY <1>0, <1>1, ZenonT(60) DEF QTypes
<1>4. STypes(ip_msgcount, ip_qlimit)
  <2>1. QLimits \subseteq Nat
    BY IpcAssumption, ZenonT(60)
  <2> QED
    BY <1>0, <1>1, <2>1, ZenonT(60) DEF STypes
<1>5. ip_blocked \in [Ports -> Seq(Threads)] /\ wasted \subseteq Ports
  BY <1>0, <1>1, ZenonT(60)
<1>6. Now \in States
  <2>1. /\ imq_messages \in [Queues -> Seq(Message)] /\ imq_threads \in [Queues -> Seq(Threads)]
        /\ ith \in [Threads -> Ith] /\ ip_seqno \in [Ports -> Nat]
    BY <1>0, <1>1, NoWaitIs, ZenonT(60)
  <2> QED
    BY <2>1, ZenonT(60) DEF Now, States
<1>7. /\ \A q \in Queues : Now.imq_messages[q] = <<>> /\ Now.imq_threads[q] = <<>>
      /\ \A t \in Threads : pc[t] = "idle"
      /\ \A p \in Ports : /\ Now.ip_seqno[p] = 0 /\ base[p] = 0 /\ sent[p] = 0 /\ ip_msgcount[p] = 0
                          /\ ip_blocked[p] = <<>> /\ ip_pset[p] = Null
  BY <1>0, NowFields, ZenonT(60)
<1>8. \A t \in Threads : ~Holds(Now, pc, t)
  BY <1>1, <1>7, ZenonT(60) DEF Holds
<1>9. ThreadInv(Now, pc, call)
  <2>1. Waits(Now, pc, call)
    BY <1>1, <1>7, EmptyRange, ZenonT(60) DEF Waits
  <2> QED
    BY <1>1, <1>7, <1>8, <2>1, EmptyRange, ZenonT(60) DEF ThreadInv
<1>10. QueueInv(Now, ip_pset, dead, base, sent)
  <2>1. Placed(Now, ip_pset, dead)
    BY <1>7, PortsEmpty, ZenonT(60) DEF Placed
  <2>2. \A q \in Queues : Sorted(Now.imq_messages[q])
    BY <1>7, IdsEmpty, ZenonT(60)
  <2>3. Beside(Now)
    BY <1>7, ZenonT(60) DEF Beside
  <2>4. ASSUME NEW p \in Ports PROVE Numbered(Now, ip_pset, base, sent, p)
    <3>1. QOf(ip_pset, p) = p /\ p \in Queues
      BY <1>7, ZenonT(60) DEF QOf, Queues
    <3>2. Ids(Now.imq_messages[p], p) = {}
      BY <1>7, <3>1, IdsEmpty, ZenonT(60)
    <3>3. Span({}, 0, 0, 0)
      BY SMTT(60) DEF Span
    <3> QED
      BY <1>7, <3>1, <3>2, <3>3, ZenonT(60) DEF Numbered
  <2> QED
    BY <2>1, <2>2, <2>3, <2>4, ZenonT(60) DEF QueueInv
<1>11. ASSUME NEW p \in Ports PROVE Counted(Now, pc, base, sent, ip_msgcount, p)
  <2>1. HeldBy(Now, pc, p) = {}
    BY <1>8, ZenonT(60) DEF HeldBy
  <2>2. Cardinality(HeldBy(Now, pc, p)) = 0
    BY SetLawsHold, <2>1, EmptySize, ZenonT(60)
  <2>3. Count(0, 0, 0, 0, 0)
    BY SMTT(60) DEF Count
  <2> QED
    BY <1>7, <2>2, <2>3, ZenonT(60) DEF Counted
<1>12. QInv(Now, pc, call, ip_pset, dead, base, sent, ip_msgcount)
  BY <1>6, <1>7, <1>9, <1>10, <1>11, ZenonT(60) DEF QInv
<1>13. BInv(ip_blocked, ith, pc, call)
  BY <1>1, <1>7, EmptyRange, ZenonT(60) DEF BInv
<1>14. SInv(ip_blocked, ith, pc, call, ip_msgcount, ip_qlimit, dead, wasted)
  BY <1>7, <1>13, ZenonT(60) DEF SInv
<1> QED
  BY <1>2, <1>3, <1>4, <1>5, <1>12, <1>14, ZenonT(60) DEF IInv

\* Every section under the IPC locks keeps the invariant.
LEMMA NextIInv ==
  ASSUME IInv, [Next]_vars PROVE IInv'
<1>1. ASSUME NEW t \in Threads, ThreadStep(t) PROVE IInv'
  <2>1. ASSUME NEW p \in Ports, NEW size \in Sizes, NEW kind \in Kinds, NEW timeout \in Timeouts,
               ipc_mqueue_send(t, p, size, kind, timeout)
        PROVE  IInv'
    BY SetLawsHold, <2>1, SendStep, ZenonT(60)
  <2>2. CASE send_resumes(t)
    BY SetLawsHold, <2>2, SendResumesStep, ZenonT(60)
  <2>3. CASE send_goes(t)
    BY SetLawsHold, <2>3, SendGoesStep, ZenonT(60)
  <2>4. ASSUME NEW q \in Queues, NEW size \in Sizes, NEW timeout \in Timeouts,
               ipc_mqueue_receive(t, q, size, timeout)
        PROVE  IInv'
    BY SetLawsHold, <2>4, ReceiveStep, ZenonT(60)
  <2>5. CASE receive_resumes(t)
    BY SetLawsHold, <2>5, ReceiveResumesStep, ZenonT(60)
  <2>6. CASE receive_accounts(t)
    BY SetLawsHold, <2>6, ReceiveAccountsStep, ZenonT(60)
  <2>7. ASSUME NEW result \in {"TIMED_OUT", "INTERRUPTED"}, clear_wait(t, result) PROVE IInv'
    BY SetLawsHold, <2>7, ClearWaitStep, ZenonT(60)
  <2> QED
    BY <1>1, <2>1, <2>2, <2>3, <2>4, <2>5, <2>6, <2>7, ZenonT(60) DEF ThreadStep
<1>2. ASSUME PortStep PROVE IInv'
  <2>1. ASSUME NEW p \in Ports, NEW n \in QLimits \ {ip_qlimit[p]}, ipc_port_set_qlimit(p, n) PROVE IInv'
    <3>1. n \in QLimits
      BY ZenonT(60)
    <3> QED
      BY SetLawsHold, <2>1, <3>1, SetQlimitStep, ZenonT(60)
  <2>2. ASSUME NEW p \in Ports, NEW nset \in Psets \cup {Null}, ipc_pset_move(p, nset) PROVE IInv'
    BY SetLawsHold, <2>2, PsetMoveStep, ZenonT(60)
  <2>3. ASSUME NEW p \in Ports, ipc_port_clear_receiver(p) PROVE IInv'
    BY SetLawsHold, <2>3, ClearReceiverStep, ZenonT(60)
  <2>4. ASSUME NEW p \in Ports, ipc_port_destroy(p) PROVE IInv'
    BY SetLawsHold, <2>4, PortDestroyStep, ZenonT(60)
  <2>5. ASSUME NEW s \in Psets, ipc_pset_destroy(s) PROVE IInv'
    BY SetLawsHold, <2>5, PsetDestroyStep, ZenonT(60)
  <2> QED
    BY <1>2, <2>1, <2>2, <2>3, <2>4, <2>5, ZenonT(60) DEF PortStep
<1>3. ASSUME UNCHANGED vars PROVE IInv'
  <2>1. /\ dead' = dead /\ ip_pset' = ip_pset /\ ip_qlimit' = ip_qlimit /\ ip_msgcount' = ip_msgcount
        /\ ip_seqno' = ip_seqno /\ ip_blocked' = ip_blocked
        /\ imq_messages' = imq_messages /\ imq_threads' = imq_threads /\ ith' = ith
        /\ pc' = pc /\ call' = call /\ sent' = sent /\ base' = base /\ wasted' = wasted
    BY <1>3, ZenonT(60) DEF vars, portvars, imq, threadvars
  <2>2. Now' = Now
    BY <2>1, ZenonT(60) DEF Now
  <2> QED
    BY <2>1, <2>2, ZenonT(60) DEF IInv
<1> QED
  BY <1>1, <1>2, <1>3, ZenonT(60) DEF Next

\* The invariant implies that messages and receivers are not on one queue.
LEMMA IInvNoMessageBesideReceiver ==
  ASSUME IInv PROVE NoMessageBesideReceiver
<1>1. Beside(Now)
  BY ZenonT(60) DEF IInv, QInv, QueueInv
<1> QED
  BY <1>1, NowFields, ZenonT(60) DEF Beside, NoMessageBesideReceiver

\* The invariant implies that messages are on their port's queue.
LEMMA IInvOnPortsQueue ==
  ASSUME IInv PROVE OnPortsQueue
<1>1. Placed(Now, ip_pset, dead)
  BY ZenonT(60) DEF IInv, QInv, QueueInv
<1>2. ASSUME NEW q \in Queues, NEW i \in 1..Len(imq_messages[q])
      PROVE  Alive(imq_messages[q][i].port) /\ QueueOf(imq_messages[q][i].port) = q
  <2>1. imq_messages[q][i].port \in PortsIn(Now.imq_messages[q])
    BY NowFields, ZenonT(60) DEF PortsIn
  <2> QED
    BY <1>1, <2>1, ZenonT(60) DEF Placed, QOf, QueueOf, Alive
<1> QED
  BY <1>2, ZenonT(60) DEF OnPortsQueue

\* The invariant implies that threads are queued exactly while they wait.
LEMMA IInvWaitsWhereQueued ==
  ASSUME IInv PROVE WaitsWhereQueued
<1>1. Waits(Now, pc, call) /\ BInv(ip_blocked, ith, pc, call)
  BY ZenonT(60) DEF IInv, QInv, ThreadInv, SInv
<1> QED
  <2>1. ASSUME NEW t \in Threads, NEW q \in Queues
        PROVE  t \in Range(imq_threads[q]) <=>
                 pc[t] = "receive" /\ call[t].port = q /\ ith[t].state = "RCV_IN_PROGRESS"
    <3>1. t \in Range(Now.imq_threads[q]) <=>
            pc[t] = "receive" /\ call[t].port = q /\ Now.ith[t].state = "RCV_IN_PROGRESS"
      BY <1>1, ZenonT(60) DEF Waits
    <3> QED
      BY <3>1, NowFields, ZenonT(60)
  <2>2. ASSUME NEW t \in Threads, NEW p \in Ports
        PROVE  t \in Range(ip_blocked[p]) <=>
                 pc[t] = "send" /\ call[t].port = p /\ ith[t].state = "SEND_IN_PROGRESS"
    BY <1>1, ZenonT(60) DEF BInv
  <2> QED
    BY <2>1, <2>2, ZenonT(60) DEF WaitsWhereQueued

\* The invariant implies that no slot is free while a sender waits.
LEMMA IInvNoIdleSlot ==
  ASSUME IInv PROVE NoIdleSlot
<1>1. ASSUME NEW p \in Ports, Alive(p), ip_blocked[p] # <<>>, p \notin wasted
      PROVE  ip_msgcount[p] + Cardinality({t \in Threads : LetIn(t, p)}) >= ip_qlimit[p]
  <2>1. Full(ith, pc, call, ip_msgcount, ip_qlimit, p)
    BY <1>1, ZenonT(60) DEF IInv, SInv, Alive
  <2>2. {t \in Threads : LetIn(t, p)} = LetInAt(ith, pc, call, p)
    BY ZenonT(60) DEF LetIn, LetInAt
  <2> QED
    BY <2>1, <2>2, ZenonT(60) DEF Full
<1> QED
  BY <1>1, ZenonT(60) DEF NoIdleSlot

\* What the invariant says of the queue a live port uses.
LEMMA PortsMessages ==
  ASSUME IInv, NEW p \in Ports, Alive(p)
  PROVE  \E M : QueueOfPort(p, M)
<1>1. /\ QueueInv(Now, ip_pset, dead, base, sent) /\ Now \in States
      /\ QTypes(ip_pset, dead, base, sent, ip_msgcount)
  BY ZenonT(60) DEF IInv, QInv
<1>2. PICK M : M = imq_messages[QueueOf(p)]
  BY ZenonT(60)
<1>3. QueueOf(p) = QOf(ip_pset, p) /\ QueueOf(p) \in Queues
  <2>1. ip_pset[p] \in Psets \cup {Null}
    BY <1>1, ZenonT(60) DEF QTypes
  <2> QED
    BY <2>1, ZenonT(60) DEF QueueOf, QOf, Queues
<1>4. M \in Seq(Message) /\ Sorted(M)
  <2>1. imq_messages \in [Queues -> Seq(Message)]
    BY <1>1, NowFields, ZenonT(60) DEF States
  <2>2. Sorted(Now.imq_messages[QueueOf(p)])
    BY <1>1, <1>3, ZenonT(60) DEF QueueInv
  <2> QED
    BY <1>2, <1>3, <2>1, <2>2, NowFields, ZenonT(60)
<1>5. Queued(p) = {i \in 1..Len(M) : M[i].port = p}
  <2>1. DOMAIN M = 1..Len(M)
    BY <1>4, SMTT(60)
  <2> QED
    BY <1>2, <2>1, ZenonT(60) DEF Queued
<1>6. Span(Ids(M, p), base[p], ip_seqno[p], sent[p])
  BY <1>1, <1>2, <1>3, NowFields, ZenonT(60) DEF QueueInv, Numbered, Alive
<1>7. base[p] \in Nat /\ ip_seqno[p] \in Nat /\ sent[p] \in Nat
  <2>1. ip_seqno \in [Ports -> Nat]
    BY <1>1, NowFields, ZenonT(60) DEF States
  <2> QED
    BY <1>1, <2>1, ZenonT(60) DEF QTypes
<1> QED
  BY <1>2, <1>4, <1>5, <1>6, <1>7, ZenonT(60) DEF QueueOfPort

\* The invariant implies the order of messages.
LEMMA IInvInOrder ==
  ASSUME IInv PROVE InOrder
<1>1. ASSUME NEW p \in Ports, Alive(p)
      PROVE  /\ {imq_messages[QueueOf(p)][i].id : i \in Queued(p)} = (base[p] + ip_seqno[p])..(sent[p] - 1)
             /\ \A i, j \in Queued(p) : i < j =>
                  imq_messages[QueueOf(p)][i].id < imq_messages[QueueOf(p)][j].id
  <2>1. PICK M : QueueOfPort(p, M)
    BY <1>1, PortsMessages, ZenonT(60)
  <2>2. /\ M = imq_messages[QueueOf(p)]
        /\ Queued(p) = {i \in 1..Len(M) : M[i].port = p}
        /\ Sorted(M) /\ Span(Ids(M, p), base[p], ip_seqno[p], sent[p])
    BY <2>1, ZenonT(60) DEF QueueOfPort
  <2>3. {M[i].id : i \in Queued(p)} = Ids(M, p)
    BY <2>2, ZenonT(60) DEF Ids
  <2>4. Ids(M, p) = (base[p] + ip_seqno[p])..(sent[p] - 1)
    BY <2>2, ZenonT(60) DEF Span
  <2>5. \A i, j \in Queued(p) : i < j => M[i].id < M[j].id
    <3>1. ASSUME NEW i \in Queued(p), NEW j \in Queued(p), i < j PROVE M[i].id < M[j].id
      <4>1. i \in 1..Len(M) /\ j \in 1..Len(M) /\ M[i].port = p /\ M[j].port = p
        BY <2>2, ZenonT(60)
      <4> QED
        BY <2>2, <3>1, <4>1, ZenonT(60) DEF Sorted
    <3> QED
      BY <3>1, ZenonT(60)
  <2> QED
    BY <2>2, <2>3, <2>4, <2>5, ZenonT(60)
<1> QED
  BY <1>1, ZenonT(60) DEF InOrder

\* The invariant implies that ip_msgcount is exact: the numbers of the queued messages
\* are an interval, and as many as their places.
LEMMA IInvMsgCountExact ==
  ASSUME IInv PROVE MsgCountExact
<1>1. ASSUME NEW p \in Ports, Alive(p)
      PROVE  ip_msgcount[p] = Cardinality(Queued(p)) + Cardinality(InHand(p))
  <2>1. PICK M : QueueOfPort(p, M)
    BY <1>1, PortsMessages, ZenonT(60)
  <2>2. /\ M \in Seq(Message)
        /\ Queued(p) = {i \in 1..Len(M) : M[i].port = p}
        /\ Sorted(M) /\ Span(Ids(M, p), base[p], ip_seqno[p], sent[p])
        /\ base[p] \in Nat /\ ip_seqno[p] \in Nat /\ sent[p] \in Nat
    BY <2>1, ZenonT(60) DEF QueueOfPort
  <2>3. PICK D : D = Queued(p)
    BY ZenonT(60)
  <2>4. PICK f : f = [i \in 1..Len(M) |-> M[i].id]
    BY ZenonT(60)
  <2>5. Len(M) \in Nat /\ \A i \in 1..Len(M) : M[i].id \in Nat
    <3>1. \A i \in 1..Len(M) : M[i] \in Message
      BY <2>2, SMTT(60)
    <3> QED
      BY <2>2, <3>1, SMTT(60) DEF Message
  <2>6. IsFiniteSet(D)
    <3>1. IsFiniteSet(1..Len(M))
      BY SetLawsHold, <2>5, IntervalSize, SMTT(60)
    <3>2. D \subseteq 1..Len(M)
      BY <2>2, <2>3, ZenonT(60)
    <3> QED
      BY SetLawsHold, <3>1, <3>2, SubsetSize, ZenonT(60)
  <2>7. \A i, j \in D : f[i] = f[j] => i = j
    <3>1. ASSUME NEW i \in D, NEW j \in D, f[i] = f[j] PROVE i = j
      <4>1. i \in 1..Len(M) /\ j \in 1..Len(M) /\ M[i].port = p /\ M[j].port = p
        BY <2>2, <2>3, ZenonT(60)
      <4>2. M[i].id = M[j].id
        BY <2>4, <3>1, <4>1, ZenonT(60)
      <4>3. /\ i < j => M[i].id < M[j].id
            /\ j < i => M[j].id < M[i].id
        BY <2>2, <4>1, ZenonT(60) DEF Sorted
      <4> QED
        BY <2>5, <4>1, <4>2, <4>3, SMTT(60)
    <3> QED
      BY <3>1, ZenonT(60)
  <2>8. {f[i] : i \in D} = Ids(M, p)
    <3>1. D = {i \in 1..Len(M) : M[i].port = p}
      BY <2>2, <2>3, ZenonT(60)
    <3>2. \A i \in D : f[i] = M[i].id
      BY <2>4, <3>1, ZenonT(60)
    <3> QED
      BY <3>1, <3>2, ZenonT(60) DEF Ids
  <2>9. AsMany(D, {f[i] : i \in D})
    BY SetLawsHold, <2>6, <2>7, SameSize, ZenonT(60)
  <2>10. Cardinality(Queued(p)) = Cardinality(Ids(M, p))
    BY <2>3, <2>8, <2>9, ZenonT(60) DEF AsMany
  <2>11. Cardinality(Ids(M, p)) = sent[p] - base[p] - ip_seqno[p]
    <3>1. base[p] + ip_seqno[p] <= sent[p] /\ Ids(M, p) = (base[p] + ip_seqno[p])..(sent[p] - 1)
      BY <2>2, ZenonT(60) DEF Span
    <3>2. PICK a \in Int : a = base[p] + ip_seqno[p]
      BY <2>2, SMTT(60)
    <3>3. PICK b \in Int : b = sent[p] - 1
      BY <2>2, SMTT(60)
    <3>4. Cardinality(a..b) = IF a > b THEN 0 ELSE b - a + 1
      BY SetLawsHold, IntervalSize, ZenonT(60)
    <3>5. Cardinality(Ids(M, p)) = IF a > b THEN 0 ELSE b - a + 1
      BY <3>1, <3>2, <3>3, <3>4, ZenonT(60)
    <3>6. PICK n \in Int : n = Cardinality(Ids(M, p))
      BY <3>5, SMTT(60)
    <3>7. n = IF a > b THEN 0 ELSE b - a + 1
      BY <3>5, <3>6, ZenonT(60)
    <3>8. base[p] + ip_seqno[p] <= sent[p]
      BY <3>1, ZenonT(60)
    <3>9. n = sent[p] - base[p] - ip_seqno[p]
      <4>1. base[p] \in Nat /\ ip_seqno[p] \in Nat /\ sent[p] \in Nat
        BY <2>2, ZenonT(60)
      <4> QED
        BY <4>1, <3>2, <3>3, <3>7, <3>8, SMTT(60)
    <3> QED
      BY <3>6, <3>9, ZenonT(60)
  <2>12. PICK h \in Nat : h = Cardinality(HeldBy(Now, pc, p))
    BY SetLawsHold, HeldFinite, ZenonT(60)
  <2>13. ip_msgcount[p] = sent[p] - base[p] - ip_seqno[p] + h
    BY <1>1, <2>12, NowFields, ZenonT(60) DEF IInv, QInv, Counted, Count, Alive
  <2>14. InHand(p) = HeldBy(Now, pc, p)
    BY NowFields, ZenonT(60) DEF InHand, HeldBy, Holds
  <2> QED
    BY <2>10, <2>11, <2>12, <2>13, <2>14, ZenonT(60)
<1> QED
  BY <1>1, ZenonT(60) DEF MsgCountExact

\* In every state IInv holds: queues, receivers, numbers, counts and senders agree.
THEOREM QueueInvariant == Spec => []IInv
BY InitIInv, NextIInv, PTL DEF Spec

\* ipc_mqueue_send and ipc_mqueue_move never leave a message on a queue beside a
\* receiver that waits there.
THEOREM QueueNoMessageBesideReceiver == Spec => []NoMessageBesideReceiver
BY QueueInvariant, IInvNoMessageBesideReceiver, PTL

\* ip_msgcount of a live port counts exactly its messages that are queued or held by a
\* receiver on its way to count them out.
THEOREM QueueMsgCountExact == Spec => []MsgCountExact
BY QueueInvariant, IInvMsgCountExact, PTL

\* Messages of a live port stay in order, none is left out, and ip_seqno numbers them,
\* through every move between port sets.
THEOREM QueueInOrder == Spec => []InOrder
BY QueueInvariant, IInvInOrder, PTL

\* Messages are on the queue their port uses, and dead ports have none.
THEOREM QueueOnPortsQueue == Spec => []OnPortsQueue
BY QueueInvariant, IInvOnPortsQueue, PTL

\* Threads are on queues of receivers and senders exactly while they wait there without
\* an answer.
THEOREM QueueWaitsWhereQueued == Spec => []WaitsWhereQueued
BY QueueInvariant, IInvWaitsWhereQueued, PTL

\* No slot of a live port is free while a sender waits, unless a sender let in has
\* wasted one on a circular message.
THEOREM QueueNoIdleSlot == Spec => []NoIdleSlot
BY QueueInvariant, IInvNoIdleSlot, PTL
=============================================================================
