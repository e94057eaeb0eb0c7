-------------------------- MODULE IpcMqueueQueues --------------------------
(***************************************************************************)
(* What keeps QInv, the half of the invariant of IpcMqueue that speaks of  *)
(* messages and receivers: delivering, taking, moving and dropping.        *)
(*                                                                         *)
(* Lemmas named Q.. here and S.. in IpcMqueueSenders say what keeps each   *)
(* half, over states given as records; the lemmas named ..Step apply them  *)
(* to the actions.  The loop of ipc_mqueue_move has an invariant of its    *)
(* own, Moving.                                                            *)
(***************************************************************************)
EXTENDS IpcMqueueInv, TLAPS

-----------------------------------------------------------------------------
(* Numbers and finite sets *)

\* The first message of a queue that is not empty, as ipc_kmsg_queue_first sees it.
LEMMA HeadIn ==
  ASSUME NEW A, NEW s \in Seq(A), s # <<>>
  PROVE  Head(s) \in A
  BY SMT

\* Induction over sets of numbers: the loop of ipc_mqueue_move is argued with it.
LEMMA NatInduct ==
  ASSUME SetLaws, NEW S, 0 \in S, \A n \in Nat : n \in S => n + 1 \in S
  PROVE  Nat \subseteq S
BY ZenonT(60) DEF SetLaws, Induction

\* A set of numbers that is not empty has a least one: Taker finds the first receiver.
LEMMA Least ==
  ASSUME SetLaws, NEW S \in SUBSET Nat, S # {}
  PROVE  \E x \in S : \A y \in S : x <= y
BY ZenonT(60) DEF SetLaws, LeastNumber

\* No thread holds a message, or is let in, exactly when their number is 0.
LEMMA EmptySize ==
  ASSUME SetLaws
  PROVE  /\ IsFiniteSet({}) /\ Cardinality({}) = 0
         /\ \A S : IsFiniteSet(S) => (Cardinality(S) = 0 <=> S = {})
BY ZenonT(60) DEF SetLaws, SizeOfOne

\* The one sender that ipc_mqueue_receive lets in counts as one.
LEMMA SingletonSize ==
  ASSUME SetLaws
  PROVE  /\ \A x : IsFiniteSet({x}) /\ Cardinality({x}) = 1
         /\ \A S : IsFiniteSet(S) => (Cardinality(S) = 1 <=> \E x : S = {x})
BY ZenonT(60) DEF SetLaws, SizeOfOne

\* The size of an interval: a port's messages, or a queue's places, in a row.
LEMMA IntervalSize ==
  ASSUME SetLaws, NEW a \in Int, NEW b \in Int
  PROVE  IsFiniteSet(a..b) /\ Cardinality(a..b) = IF a > b THEN 0 ELSE b - a + 1
BY ZenonT(60) DEF SetLaws, SizeOfOne

\* The size of a finite set is a number.
LEMMA CardinalityType ==
  ASSUME SetLaws, NEW S, IsFiniteSet(S)
  PROVE  Cardinality(S) \in Nat
BY ZenonT(60) DEF SetLaws, SizeOfMore

\* One thread more holds a message.
LEMMA AddElement ==
  ASSUME SetLaws, NEW S, NEW x, IsFiniteSet(S)
  PROVE  /\ IsFiniteSet(S \cup {x})
         /\ Cardinality(S \cup {x}) = IF x \in S THEN Cardinality(S) ELSE Cardinality(S) + 1
BY ZenonT(60) DEF SetLaws, SizeOfMore

\* One thread less holds a message.
LEMMA RemoveElement ==
  ASSUME SetLaws, NEW S, NEW x, IsFiniteSet(S)
  PROVE  /\ IsFiniteSet(S \ {x})
         /\ Cardinality(S \ {x}) = IF x \in S THEN Cardinality(S) - 1 ELSE Cardinality(S)
BY ZenonT(60) DEF SetLaws, SizeOfMore

\* The threads that hold a message are some of all the threads.
LEMMA SubsetSize ==
  ASSUME SetLaws, NEW S, IsFiniteSet(S), NEW T \in SUBSET S
  PROVE  /\ IsFiniteSet(T) /\ Cardinality(T) <= Cardinality(S)
         /\ Cardinality(S) = Cardinality(T) => S = T
BY ZenonT(60) DEF SetLaws, SizeOfMore

\* The senders roused join those already let in.
LEMMA UnionSize ==
  ASSUME SetLaws, NEW S, IsFiniteSet(S), NEW T, IsFiniteSet(T)
  PROVE  /\ IsFiniteSet(S \cup T)
         /\ Cardinality(S \cup T) = Cardinality(S) + Cardinality(T) - Cardinality(S \cap T)
BY ZenonT(60) DEF SetLaws, SizeOfMore

\* A one-to-one image has as many elements: the first k senders of a queue are k.
LEMMA BijectionSize ==
  ASSUME SetLaws, NEW S, NEW T, IsFiniteSet(S), ExistsBijection(S, T)
  PROVE  IsFiniteSet(T) /\ Cardinality(T) = Cardinality(S)
BY ZenonT(60) DEF SetLaws, SizeOfMore

\* A function given by its value at 0 and at each next number exists and is what its
\* equations say: so the function that stands for the loop of ipc_mqueue_move is.
LEMMA Recursion ==
  ASSUME SetLaws, NEW n \in Nat, NEW X, NEW a \in X, NEW D \in [X \X (1..n) -> X]
  PROVE  Recursive(n, X, a, D)
<1> DEFINE Q(k, f) == f[0] = a /\ \A i \in 1..k : f[i] = D[<<f[i - 1], i>>]
           S == {k \in Nat : k <= n => \E f \in [0..k -> X] : Q(k, f)}
<1>1. 0 \in S
  <2>1. [i \in 0..0 |-> a] \in [0..0 -> X] /\ Q(0, [i \in 0..0 |-> a])
    BY SMTT(60)
  <2> QED
    BY <2>1, ZenonT(60)
<1>2. ASSUME NEW k \in Nat, k \in S PROVE k + 1 \in S
  <2>1. SUFFICES ASSUME k + 1 <= n PROVE \E f \in [0..(k + 1) -> X] : Q(k + 1, f)
    BY SMTT(60)
  <2>2. PICK f \in [0..k -> X] : Q(k, f)
    BY <1>2, <2>1, SMTT(60)
  <2> DEFINE g == [i \in 0..(k + 1) |-> IF i <= k THEN f[i] ELSE D[<<f[k], k + 1>>]]
  <2>3. D[<<f[k], k + 1>>] \in X
    BY <2>1, <2>2, SMTT(60)
  <2>4. g \in [0..(k + 1) -> X]
    BY <2>3, <2>2, SMTT(60)
  <2>5. Q(k + 1, g)
    <3>1. g[0] = a
      BY <2>2, SMTT(60)
    <3>2. ASSUME NEW i \in 1..(k + 1) PROVE g[i] = D[<<g[i - 1], i>>]
      <4>1. g[i - 1] = f[i - 1]
        BY SMTT(60)
      <4>2. CASE i <= k
        BY <2>2, <4>1, <4>2, SMTT(60)
      <4>3. CASE i = k + 1
        <5>1. g[i] = D[<<f[k], k + 1>>] /\ i - 1 = k
          BY <4>3, SMTT(60)
        <5> QED
          BY <5>1, <4>1, <4>3, ZenonT(60)
      <4> QED
        BY <4>2, <4>3, SMTT(60)
    <3> QED
      BY <3>1, <3>2, ZenonT(60)
  <2> QED
    BY <2>4, <2>5, ZenonT(60)
<1>3. n \in S
  BY <1>1, <1>2, NatInduct, ZenonT(60)
<1> QED
  BY <1>3, SMTT(60) DEF Recursive

\* An empty queue holds no message of any port.
LEMMA IdsEmpty ==
  ASSUME NEW p PROVE Ids(<<>>, p) = {} /\ Sorted(<<>>)
  BY SMTT(60) DEF Ids, Sorted

\* ipc_kmsg_enqueue adds one message of its port.
LEMMA IdsAppend ==
  ASSUME NEW s \in Seq(Message), NEW m \in Message, NEW p \in Ports
  PROVE  Ids(Append(s, m), p) = IF m.port = p THEN Ids(s, p) \cup {m.id} ELSE Ids(s, p)
<1> DEFINE a == Append(s, m)
<1>1. Len(a) = Len(s) + 1 /\ a[Len(s) + 1] = m /\ \A i \in 1..Len(s) : a[i] = s[i]
  BY SMTT(60)
<1> HIDE DEF a
<1>2. Len(s) \in Nat
  BY SMTT(60)
<1>3. ASSUME NEW x PROVE x \in Ids(a, p) <=> x \in (IF m.port = p THEN Ids(s, p) \cup {m.id} ELSE Ids(s, p))
  BY <1>1, <1>2, SMTT(60) DEF Ids
<1> QED
  BY <1>3, ZenonT(60) DEF a

\* A message enqueued last keeps the order if it is the newest of its port.
LEMMA SortedAppend ==
  ASSUME NEW s \in Seq(Message), NEW m \in Message, Sorted(s),
         \A x \in Ids(s, m.port) : x < m.id
  PROVE  Sorted(Append(s, m))
<1> DEFINE a == Append(s, m)
<1>1. Len(a) = Len(s) + 1 /\ a[Len(s) + 1] = m /\ \A i \in 1..Len(s) : a[i] = s[i]
  BY SMTT(60)
<1> HIDE DEF a
<1>2. Len(s) \in Nat
  BY SMTT(60)
<1>3. \A i \in 1..Len(s) : s[i].port = m.port => s[i].id < m.id
  BY ZenonT(60) DEF Ids
<1>4. Sorted(a)
  BY <1>1, <1>2, <1>3, SMTT(60) DEF Sorted
<1> QED
  BY <1>4, ZenonT(60) DEF a

\* ipc_kmsg_rmqueue of the first message takes the oldest of its port.
LEMMA IdsTail ==
  ASSUME NEW s \in Seq(Message), s # <<>>, Sorted(s), NEW p \in Ports
  PROVE  /\ Sorted(Tail(s))
         /\ Head(s).port = p =>
              /\ Ids(Tail(s), p) = Ids(s, p) \ {Head(s).id}
              /\ Head(s).id \in Ids(s, p)
              /\ \A x \in Ids(s, p) : Head(s).id <= x
         /\ Head(s).port # p => Ids(Tail(s), p) = Ids(s, p)
<1> DEFINE u == Tail(s)
<1>1. Len(u) = Len(s) - 1 /\ Len(s) \in Nat \ {0} /\ Head(s) = s[1] /\ \A i \in 1..Len(u) : u[i] = s[i + 1]
  BY SMTT(60)
<1> HIDE DEF u
<1>2. \A i \in 1..Len(s) : s[i] \in Message
  BY SMTT(60)
<1>3. Sorted(u)
  BY <1>1, SMTT(60) DEF Sorted
<1>4. ASSUME NEW i \in 1..Len(s), i # 1 PROVE i - 1 \in 1..Len(u) /\ u[i - 1] = s[i]
  BY <1>1, <1>4, SMTT(60)
<1>5. ASSUME Head(s).port = p PROVE Ids(u, p) = Ids(s, p) \ {Head(s).id}
  <2>1. ASSUME NEW x \in Ids(u, p) PROVE x \in Ids(s, p) /\ x # Head(s).id
    <3>1. PICK i \in 1..Len(u) : u[i].port = p /\ x = u[i].id
      BY ZenonT(60) DEF Ids
    <3>2. i + 1 \in 1..Len(s) /\ s[i + 1] = u[i] /\ i + 1 > 1
      BY <1>1, SMTT(60)
    <3>3. x \in Ids(s, p)
      BY <3>1, <3>2, ZenonT(60) DEF Ids
    <3>4. 1 \in 1..Len(s) /\ s[1].port = s[i + 1].port /\ s[1].id \in Nat
      BY <3>1, <3>2, <1>1, <1>2, <1>5, SMTT(60) DEF Message
    <3>5. s[1].id < s[i + 1].id
      BY <3>2, <3>4, ZenonT(60) DEF Sorted
    <3> QED
      BY <3>1, <3>2, <3>3, <3>4, <3>5, <1>1, SMTT(60)
  <2>2. ASSUME NEW x \in Ids(s, p), x # Head(s).id PROVE x \in Ids(u, p)
    <3>1. PICK i \in 1..Len(s) : s[i].port = p /\ x = s[i].id
      BY ZenonT(60) DEF Ids
    <3> QED
      BY <3>1, <1>4, <2>2, <1>1, ZenonT(60) DEF Ids
  <2> QED
    BY <2>1, <2>2, ZenonT(60)
<1>6. ASSUME Head(s).port = p PROVE Head(s).id \in Ids(s, p) /\ \A x \in Ids(s, p) : Head(s).id <= x
  <2>1. Head(s).id \in Ids(s, p)
    BY <1>1, <1>6, SMTT(60) DEF Ids
  <2>2. ASSUME NEW x \in Ids(s, p) PROVE Head(s).id <= x
    <3>1. PICK i \in 1..Len(s) : s[i].port = p /\ x = s[i].id
      BY ZenonT(60) DEF Ids
    <3>2. s[1].id \in Nat /\ s[i].id \in Nat
      BY <1>1, <1>2, SMTT(60) DEF Message
    <3> QED
      BY <3>1, <3>2, <1>1, <1>6, SMTT(60) DEF Sorted
  <2> QED
    BY <2>1, <2>2, ZenonT(60)
<1>7. ASSUME Head(s).port # p PROVE Ids(u, p) = Ids(s, p)
  <2>1. ASSUME NEW x \in Ids(u, p) PROVE x \in Ids(s, p)
    <3>1. PICK i \in 1..Len(u) : u[i].port = p /\ x = u[i].id
      BY ZenonT(60) DEF Ids
    <3>2. i + 1 \in 1..Len(s) /\ s[i + 1] = u[i] /\ i + 1 > 1
      BY <1>1, SMTT(60)
    <3> QED
      BY <3>1, <3>2, ZenonT(60) DEF Ids
  <2>2. ASSUME NEW x \in Ids(s, p) PROVE x \in Ids(u, p)
    <3>1. PICK i \in 1..Len(s) : s[i].port = p /\ x = s[i].id
      BY ZenonT(60) DEF Ids
    <3> QED
      BY <3>1, <1>4, <1>7, <1>1, ZenonT(60) DEF Ids
  <2> QED
    BY <2>1, <2>2, ZenonT(60)
<1> QED
  BY <1>3, <1>5, <1>6, <1>7, ZenonT(60) DEF u
-----------------------------------------------------------------------------
\* thread_go changes neither ith_state nor ith_kmsg.
LEMMA ThreadGo ==
  ASSUME NEW r \in Ith
  PROVE  /\ thread_go(r) \in Ith
         /\ thread_go(r).state = r.state
         /\ thread_go(r).kmsg = r.kmsg
         /\ thread_go(r).msize = r.msize
<1>1. PICK b \in BOOLEAN : b = FALSE
  BY ZenonT(60)
<1>2. thread_go(r) = IF r.wait THEN [r EXCEPT !.wait = b, !.result = "AWAKENED"] ELSE r
  BY <1>1, ZenonT(60) DEF thread_go
<1>3. "AWAKENED" \in Results
  BY ZenonT(60) DEF Results
<1> QED
  BY <1>2, <1>3, ZenonT(60) DEF Ith

\* Setting ith_state gives a thread record again.
LEMMA Answered ==
  ASSUME NEW r \in Ith, NEW st \in WaitStates
  PROVE  /\ [r EXCEPT !.state = st] \in Ith
         /\ [r EXCEPT !.state = st].state = st
         /\ [r EXCEPT !.state = st].kmsg = r.kmsg
         /\ [r EXCEPT !.state = st].msize = r.msize
  BY ZenonT(60) DEF Ith

\* What a receiver looks like once it is given a message, or told the size.
LEMMA Given ==
  ASSUME NEW r \in Ith, NEW m \in Message, NEW now \in BOOLEAN
  PROVE  /\ Give(r, m, now) \in Ith
         /\ Give(r, m, now).state = "SUCCESS"
         /\ Give(r, m, now).kmsg = m
<1>1. PICK u \in Ith : u = IF now THEN thread_go(r) ELSE r
  BY ThreadGo, ZenonT(60)
<1>2. Give(r, m, now) = [u EXCEPT !.state = "SUCCESS", !.kmsg = m]
  BY <1>1, ZenonT(60) DEF Give
<1>3. "SUCCESS" \in WaitStates
  BY ZenonT(60) DEF WaitStates, Answers
<1> QED
  BY <1>2, <1>3, ZenonT(60) DEF Ith

\* The receiver that takes a message is the first, from the head, whose buffer is
\* large enough; those before it are told MACH_RCV_TOO_LARGE.
LEMMA TakerIs ==
  ASSUME SetLaws, NEW S \in States, NEW q \in Queues, NEW m \in Message
  PROVE  Taker(S, q, m) \in 1..(Len(S.imq_threads[q]) + 1)
<1> DEFINE R == S.imq_threads[q]
           room(i) == m.size <= S.ith[R[i]].msize
           K == {k \in 1..(Len(R) + 1) : k <= Len(R) => room(k)}
<1>1. Len(R) \in Nat
  BY SMTT(60) DEF States
<1> HIDE DEF R, room
<1>2. K \in SUBSET Nat /\ K # {}
  <2>1. Len(R) + 1 \in K
    BY <1>1, SMTT(60)
  <2> QED
    BY <2>1, <1>1, SMTT(60)
<1>3. PICK k \in K : \A j \in K : k <= j
  BY <1>2, Least, ZenonT(60)
<1>4. ASSUME NEW i \in 1..(k - 1) PROVE ~room(i)
  BY <1>3, <1>1, SMTT(60)
<1>5. \E x \in 1..(Len(R) + 1) : (x <= Len(R) => room(x)) /\ \A i \in 1..(x - 1) : ~room(i)
  BY <1>3, <1>4, ZenonT(60)
<1>6. Taker(S, q, m) = CHOOSE x \in 1..(Len(R) + 1) : (x <= Len(R) => room(x)) /\ \A i \in 1..(x - 1) : ~room(i)
  BY ZenonT(60) DEF Taker, R, room
<1>7. Taker(S, q, m) \in 1..(Len(R) + 1)
  BY <1>5, <1>6, ZenonT(60)
<1> QED
  BY <1>7, ZenonT(60) DEF R

\* Delivery either queues the message, when no receiver takes it, or gives it to one.
LEMMA DeliverEffect ==
  ASSUME SetLaws, NEW S \in States, NEW q \in Queues, NEW m \in Message, NEW now \in BOOLEAN,
         IsInjective(S.imq_threads[q])
  PROVE  Placing(S, q, m, S.imq_threads[q], Taker(S, q, m), Deliver(S, q, m, now))
<1>a. PICK R : R = S.imq_threads[q]
  BY ZenonT(60)
<1>b. PICK k : k = Taker(S, q, m)
  BY ZenonT(60)
<1>c. PICK T : T = Deliver(S, q, m, now)
  BY ZenonT(60)
<1> SUFFICES Placing(S, q, m, R, k, T)
  BY <1>a, <1>b, <1>c, ZenonT(60)
<1>d. IsInjective(R)
  BY <1>a, ZenonT(60)
<1>0. k \in 1..(Len(R) + 1)
  BY <1>a, <1>b, TakerIs, ZenonT(60)
<1>1. k \in 1..(Len(R) + 1) /\ R \in Seq(Threads) /\ Len(R) \in Nat
  BY <1>0, <1>a, SMTT(60) DEF States
<1>2. PICK told : told = TellTooLarge(S.ith, R, k)
  BY ZenonT(60)
<1>3. S.ith \in [Threads -> Ith] /\ S.imq_threads \in [Queues -> Seq(Threads)]
      /\ S.imq_messages \in [Queues -> Seq(Message)] /\ S.ip_seqno \in [Ports -> Nat]
  BY ZenonT(60) DEF States
<1>4. ASSUME NEW t \in Threads
      PROVE  /\ told[t] \in Ith
             /\ (\E i \in 1..(k - 1) : t = R[i]) => told[t].state = "TOO_LARGE"
             /\ ~(\E i \in 1..(k - 1) : t = R[i]) => told[t] = S.ith[t]
  <2>1. S.ith[t] \in Ith /\ "TOO_LARGE" \in WaitStates
    BY <1>3, ZenonT(60) DEF WaitStates, Answers
  <2>2. PICK r \in Ith : r = [S.ith[t] EXCEPT !.state = "TOO_LARGE"] /\ r.state = "TOO_LARGE"
    BY <2>1, Answered, ZenonT(60)
  <2>3. thread_go(r) \in Ith /\ thread_go(r).state = "TOO_LARGE"
    BY <2>2, ThreadGo, ZenonT(60)
  <2>4. told[t] = IF \E i \in 1..(k - 1) : t = R[i] THEN thread_go(r) ELSE S.ith[t]
    BY <1>2, <2>2, ZenonT(60) DEF TellTooLarge
  <2> QED
    BY <2>1, <2>3, <2>4, ZenonT(60)
<1>5. told \in [Threads -> Ith]
  BY <1>2, <1>4, ZenonT(60) DEF TellTooLarge
<1>6. CASE k > Len(R)
  <2>1. T = [S EXCEPT !.imq_messages[q] = Append(@, m), !.imq_threads[q] = <<>>, !.ith = told]
    BY <1>a, <1>b, <1>c, <1>6, <1>2, ZenonT(60) DEF Deliver
  <2>2. /\ T.imq_messages = [S.imq_messages EXCEPT ![q] = Append(@, m)]
        /\ T.imq_threads = [S.imq_threads EXCEPT ![q] = <<>>]
        /\ T.ith = told /\ T.ip_seqno = S.ip_seqno
    BY <2>1, ZenonT(60) DEF States
  <2>3. T.imq_messages \in [Queues -> Seq(Message)] /\ T.imq_threads \in [Queues -> Seq(Threads)]
    BY <2>2, <1>3, SMTT(60)
  <2>4. T \in States
    BY <2>1, <2>2, <2>3, <1>5, <1>3, ZenonT(60) DEF States
  <2>5. ASSUME NEW t \in Threads, \A i \in 1..Len(R) : i <= k => t # R[i] PROVE T.ith[t] = S.ith[t]
    <3>1. ~(\E i \in 1..(k - 1) : t = R[i])
      BY <2>5, <1>1, SMTT(60)
    <3> QED
      BY <3>1, <2>2, <1>4, ZenonT(60)
  <2> QED
    BY <1>6, <1>1, <1>3, <2>2, <2>4, <2>5, <1>4, SMTT(60) DEF Placing
<1>7. CASE k <= Len(R)
  <2>1. PICK g \in Ith : g.state = "SUCCESS" /\ g.kmsg = m /\ g = Give(told[R[k]], m, now)
    <3>1. R[k] \in Threads
      BY <1>1, <1>7, SMTT(60)
    <3>2. told[R[k]] \in Ith
      BY <3>1, <1>4, ZenonT(60)
    <3> QED
      BY <3>2, Given, ZenonT(60)
  <2>2. T = [S EXCEPT !.imq_threads[q] = SubSeq(R, k + 1, Len(R)),
                      !.ith = [told EXCEPT ![R[k]] = g], !.ip_seqno[m.port] = @ + 1]
    <3>1. ~(k > Len(R))
      BY <1>7, <1>1, SMTT(60)
    <3> QED
      BY <1>a, <1>b, <1>c, <3>1, <1>2, <2>1, ZenonT(60) DEF Deliver
  <2>3. /\ T.imq_messages = S.imq_messages
        /\ T.imq_threads = [S.imq_threads EXCEPT ![q] = SubSeq(R, k + 1, Len(R))]
        /\ T.ith = [told EXCEPT ![R[k]] = g]
        /\ T.ip_seqno = [S.ip_seqno EXCEPT ![m.port] = @ + 1]
    BY <2>2, ZenonT(60) DEF States
  <2>4. SubSeq(R, k + 1, Len(R)) \in Seq(Threads)
    BY <1>1, <1>7, SMTT(60)
  <2>5. T.imq_threads \in [Queues -> Seq(Threads)] /\ T.ip_seqno \in [Ports -> Nat]
    BY <2>3, <2>4, <1>3, SMTT(60) DEF Message
  <2>6. T.ith \in [Threads -> Ith]
    BY <2>3, <2>1, <1>5, ZenonT(60)
  <2>7. T \in States
    BY <2>2, <2>3, <2>5, <2>6, <1>3, ZenonT(60) DEF States
  <2>8. R[k] \in Threads /\ \A i \in 1..(k - 1) : R[i] # R[k]
    BY <1>1, <1>7, <1>d, SMTT(60) DEF IsInjective
  <2>9. \A t \in Threads : T.ith[t] = IF t = R[k] THEN g ELSE told[t]
    BY <2>3, <1>5, ZenonT(60)
  <2>10. ASSUME NEW t \in Threads, \A i \in 1..Len(R) : i <= k => t # R[i] PROVE T.ith[t] = S.ith[t]
    <3>1. ~(\E i \in 1..(k - 1) : t = R[i]) /\ t # R[k]
      BY <2>10, <1>1, <1>7, SMTT(60)
    <3> QED
      BY <3>1, <2>9, <1>4, ZenonT(60)
  <2>11. ASSUME NEW t \in Threads, \E i \in 1..(k - 1) : t = R[i] PROVE T.ith[t].state = "TOO_LARGE"
    <3>1. t # R[k]
      BY <2>11, <2>8, ZenonT(60)
    <3> QED
      BY <3>1, <2>9, <2>11, <1>4, ZenonT(60)
  <2>12. T.ith[R[k]] = g
    BY <2>8, <2>9, ZenonT(60)
  <2>13. \A x \in Queues \ {q} : T.imq_threads[x] = S.imq_threads[x]
    BY <2>3, <1>3, ZenonT(60)
  <2>14. T.imq_threads[q] = SubSeq(R, k + 1, Len(R))
    BY <2>3, <1>3, ZenonT(60)
  <2>15. ~(k > Len(R))
    BY <1>7, <1>1, SMTT(60)
  <2> QED
    BY <2>15, <1>1, <2>1, <2>3, <2>7, <2>10, <2>11, <2>12, <2>13, <2>14, ZenonT(60) DEF Placing
<1>8. k > Len(R) \/ k <= Len(R)
  BY <1>1, SMTT(60)
<1> QED
  BY <1>8, <1>6, <1>7, ZenonT(60)

\* What SubSeq leaves of the receivers after the first k were taken off.
LEMMA RestOf ==
  ASSUME NEW R \in Seq(Threads), IsInjective(R), NEW k \in 1..Len(R)
  PROVE  Rest(R, k, SubSeq(R, k + 1, Len(R)))
<1>0. PICK U : U = SubSeq(R, k + 1, Len(R))
  BY ZenonT(60)
<1>1. U \in Seq(Threads) /\ Len(U) = Len(R) - k /\ Len(R) \in Nat /\ \A i \in 1..Len(U) : U[i] = R[i + k]
  BY <1>0, SMTT(60)
<1>2. DOMAIN U = 1..Len(U) /\ DOMAIN R = 1..Len(R)
  BY <1>1, SMTT(60)
<1>a. \A i, j \in 1..Len(R) : R[i] = R[j] => i = j
  BY <1>2, ZenonT(60) DEF IsInjective
<1>3. IsInjective(U)
  <2>1. ASSUME NEW i \in 1..Len(U), NEW j \in 1..Len(U), U[i] = U[j] PROVE i = j
    BY <1>1, <1>a, <2>1, SMTT(60)
  <2> QED
    BY <2>1, <1>2, ZenonT(60) DEF IsInjective
<1>4. ASSUME NEW t \in Threads, t \in Range(U) PROVE t \in Range(R) /\ \A i \in 1..k : t # R[i]
  <2>1. PICK j \in 1..Len(U) : t = U[j]
    BY <1>2, <1>4, ZenonT(60) DEF Range
  <2>2. j + k \in 1..Len(R) /\ t = R[j + k] /\ j + k > k
    BY <2>1, <1>1, SMTT(60)
  <2> QED
    <3>1. t \in Range(R)
      BY <2>2, <1>2, ZenonT(60) DEF Range
    <3>2. ASSUME NEW i \in 1..k PROVE t # R[i]
      BY <2>2, <1>a, <1>1, SMTT(60)
    <3> QED
      BY <3>1, <3>2, ZenonT(60)
<1>5. ASSUME NEW t \in Threads, t \in Range(R), \A i \in 1..k : t # R[i] PROVE t \in Range(U)
  <2>1. PICK j \in 1..Len(R) : t = R[j]
    BY <1>2, <1>5, ZenonT(60) DEF Range
  <2>2. j > k
    BY <2>1, <1>5, SMTT(60)
  <2>3. j - k \in 1..Len(U) /\ U[j - k] = R[j]
    BY <2>2, <1>1, SMTT(60)
  <2> QED
    BY <2>1, <2>3, <1>2, ZenonT(60) DEF Range
<1> QED
  BY <1>3, <1>4, <1>5, <1>0, ZenonT(60) DEF Rest

\* Nobody is on an empty queue.
LEMMA EmptyRange ==
  ASSUME NEW t PROVE t \notin Range(<<>>) /\ IsInjective(<<>>)
  BY SMTT(60) DEF Range, IsInjective

\* Delivery keeps receivers where they wait: those taken off have an answer.
LEMMA DeliverThreads ==
  ASSUME SetLaws, NEW S \in States, NEW q \in Queues, NEW m \in Message, NEW now \in BOOLEAN,
         NEW P, NEW C, ThreadInv(S, P, C)
  PROVE  Delivered(S, q, m, P, C, Deliver(S, q, m, now))
<1>0. PICK T : T = Deliver(S, q, m, now)
  BY ZenonT(60)
<1> SUFFICES Delivered(S, q, m, P, C, T)
  BY <1>0, ZenonT(60)
<1>1. PICK R : R = S.imq_threads[q]
  BY ZenonT(60)
<1>2. PICK k : k = Taker(S, q, m)
  BY ZenonT(60)
<1>3. R \in Seq(Threads) /\ Len(R) \in Nat /\ IsInjective(R) /\ DOMAIN R = 1..Len(R)
  BY <1>1, SMTT(60) DEF States, ThreadInv
<1>4. /\ T \in States /\ k \in 1..(Len(R) + 1)
      /\ \A x \in Queues \ {q} : T.imq_threads[x] = S.imq_threads[x]
      /\ \A t \in Threads : (\E i \in 1..(k - 1) : t = R[i]) => T.ith[t].state = "TOO_LARGE"
      /\ \A t \in Threads : (\A i \in 1..Len(R) : i <= k => t # R[i]) => T.ith[t] = S.ith[t]
      /\ k > Len(R) =>
           /\ T.imq_messages = [S.imq_messages EXCEPT ![q] = Append(@, m)]
           /\ T.imq_threads[q] = <<>>
           /\ T.ip_seqno = S.ip_seqno
      /\ k <= Len(R) =>
           /\ T.imq_messages = S.imq_messages
           /\ T.imq_threads[q] = SubSeq(R, k + 1, Len(R))
           /\ T.ip_seqno = [S.ip_seqno EXCEPT ![m.port] = @ + 1]
           /\ T.ith[R[k]].state = "SUCCESS"
           /\ T.ith[R[k]].kmsg = m
  <2>1. Placing(S, q, m, R, k, T)
    BY <1>0, <1>1, <1>2, <1>3, DeliverEffect, ZenonT(60)
  <2> QED
    BY <2>1, ZenonT(60) DEF Placing
<1>5. \A i \in 1..Len(R) : R[i] \in Threads /\ R[i] \in Range(R)
  BY <1>3, SMTT(60) DEF Range
<1>6. ASSUME NEW t \in Threads, t \in Range(R)
      PROVE  P[t] = "receive" /\ C[t].port = q /\ S.ith[t].state = "RCV_IN_PROGRESS"
  BY <1>6, <1>1, ZenonT(60) DEF ThreadInv, Waits
<1>7. \A t \in Threads : t \notin Range(R) => T.ith[t] = S.ith[t]
  BY <1>4, <1>5, ZenonT(60)
<1>8. \A t \in Threads : P[t] # "receive" => T.ith[t] = S.ith[t]
  BY <1>6, <1>7, ZenonT(60)
<1>9. ASSUME NEW t \in Threads
      PROVE  \/ /\ T.ith[t] = S.ith[t] /\ (\A i \in 1..Len(R) : i <= k => t # R[i])
             \/ /\ t \in Range(R) /\ (\E i \in 1..(k - 1) : t = R[i])
                /\ T.ith[t].state = "TOO_LARGE"
             \/ /\ t \in Range(R) /\ k <= Len(R) /\ t = R[k] /\ T.ith[t].state = "SUCCESS"
  <2>1. CASE \A i \in 1..Len(R) : i <= k => t # R[i]
    BY <2>1, <1>4, ZenonT(60)
  <2>2. ASSUME NEW i \in 1..Len(R), i <= k, t = R[i]
        PROVE  \/ /\ t \in Range(R) /\ (\E j \in 1..(k - 1) : t = R[j])
                  /\ T.ith[t].state = "TOO_LARGE"
               \/ /\ t \in Range(R) /\ k <= Len(R) /\ t = R[k] /\ T.ith[t].state = "SUCCESS"
    <3>1. CASE i = k
      BY <3>1, <2>2, <1>3, <1>4, <1>5, SMTT(60)
    <3>2. CASE i \in 1..(k - 1)
      BY <3>2, <2>2, <1>4, <1>5, ZenonT(60)
    <3> QED
      BY <3>1, <3>2, <2>2, <1>3, <1>4, SMTT(60)
  <2> QED
    BY <2>1, <2>2, ZenonT(60)
<1>10. ASSUME NEW t \in Threads
       PROVE  t \in Range(T.imq_threads[q]) <=> t \in Range(R) /\ (\A i \in 1..Len(R) : i <= k => t # R[i])
  <2>1. CASE k > Len(R)
    <3>1. t \notin Range(T.imq_threads[q])
      BY <2>1, <1>4, EmptyRange, ZenonT(60)
    <3>2. ~(t \in Range(R) /\ (\A i \in 1..Len(R) : i <= k => t # R[i]))
      BY <2>1, <1>3, <1>4, SMTT(60) DEF Range
    <3> QED
      BY <3>1, <3>2, ZenonT(60)
  <2>2. CASE k <= Len(R)
    <3>1. k \in 1..Len(R) /\ T.imq_threads[q] = SubSeq(R, k + 1, Len(R))
      BY <2>2, <1>4, <1>3, SMTT(60)
    <3>2. t \in Range(T.imq_threads[q]) <=> t \in Range(R) /\ \A i \in 1..k : t # R[i]
      <4>1. Rest(R, k, T.imq_threads[q])
        BY <3>1, <1>3, RestOf, ZenonT(60)
      <4> QED
        BY <4>1, ZenonT(60) DEF Rest
    <3>3. (\A i \in 1..k : t # R[i]) <=> (\A i \in 1..Len(R) : i <= k => t # R[i])
      BY <3>1, <1>3, SMTT(60)
    <3> QED
      BY <3>2, <3>3, ZenonT(60)
  <2> QED
    BY <2>1, <2>2, <1>3, <1>4, SMTT(60)
<1>11. Waits(T, P, C)
  <2> SUFFICES ASSUME NEW t \in Threads, NEW x \in Queues
               PROVE  t \in Range(T.imq_threads[x]) <=>
                        P[t] = "receive" /\ C[t].port = x /\ T.ith[t].state = "RCV_IN_PROGRESS"
    BY ZenonT(60) DEF Waits
  <2>1. t \in Range(S.imq_threads[x]) <=>
           P[t] = "receive" /\ C[t].port = x /\ S.ith[t].state = "RCV_IN_PROGRESS"
    BY ZenonT(60) DEF ThreadInv, Waits
  <2>2. CASE x = q
    <3>1. t \in Range(R) <=> P[t] = "receive" /\ C[t].port = x /\ S.ith[t].state = "RCV_IN_PROGRESS"
      BY <2>1, <2>2, <1>1, ZenonT(60)
    <3>2. CASE T.ith[t] = S.ith[t] /\ (\A i \in 1..Len(R) : i <= k => t # R[i])
      BY <3>1, <3>2, <2>2, <1>10, ZenonT(60)
    <3>3. CASE t \in Range(R) /\ (\E i \in 1..(k - 1) : t = R[i]) /\ T.ith[t].state = "TOO_LARGE"
      <4>1. ~(\A i \in 1..Len(R) : i <= k => t # R[i])
        BY <3>3, <1>3, <1>4, SMTT(60)
      <4> QED
        BY <4>1, <3>3, <2>2, <1>10, ZenonT(60)
    <3>4. CASE k <= Len(R) /\ t = R[k] /\ T.ith[t].state = "SUCCESS"
      <4>1. ~(\A i \in 1..Len(R) : i <= k => t # R[i])
        BY <3>4, <1>3, <1>4, SMTT(60)
      <4> QED
        BY <4>1, <3>4, <2>2, <1>10, ZenonT(60)
    <3> QED
      BY <3>2, <3>3, <3>4, <1>9, ZenonT(60)
  <2>3. CASE x # q
    <3>1. t \in Range(R) => C[t].port # x
      BY <2>3, <1>6, ZenonT(60)
    <3>2. T.imq_threads[x] = S.imq_threads[x]
      BY <2>3, <1>4, ZenonT(60)
    <3> QED
      BY <3>1, <3>2, <2>1, <1>9, ZenonT(60)
  <2> QED
    BY <2>2, <2>3, ZenonT(60)
<1>12. ASSUME NEW x \in Queues PROVE IsInjective(T.imq_threads[x])
  <2>1. CASE x # q
    BY <2>1, <1>4, ZenonT(60) DEF ThreadInv
  <2>2. CASE x = q /\ k > Len(R)
    BY <2>2, <1>4, EmptyRange, ZenonT(60)
  <2>3. CASE x = q /\ k <= Len(R)
    <3>1. k \in 1..Len(R) /\ T.imq_threads[q] = SubSeq(R, k + 1, Len(R))
      BY <2>3, <1>4, <1>3, SMTT(60)
    <3>2. Rest(R, k, T.imq_threads[q])
      BY <3>1, <1>3, RestOf, ZenonT(60)
    <3> QED
      BY <3>2, <2>3, ZenonT(60) DEF Rest
  <2> QED
    BY <2>1, <2>2, <2>3, <1>3, <1>4, SMTT(60)
<1>13. ASSUME NEW t \in Threads PROVE Holds(T, P, t) => T.ith[t].kmsg # Null
  <2>1. m # Null
    BY IpcAssumption, ZenonT(60) DEF Message
  <2>2. Holds(S, P, t) => S.ith[t].kmsg # Null
    BY ZenonT(60) DEF ThreadInv
  <2> QED
    BY <2>1, <2>2, <1>9, <1>4, <1>6, ZenonT(60) DEF Holds
<1>14. ASSUME NEW t \in Threads, P[t] = "receive"
       PROVE  T.ith[t].state \in {"RCV_IN_PROGRESS"} \cup Answers
  <2>1. S.ith[t].state \in {"RCV_IN_PROGRESS"} \cup Answers
    BY <1>14, ZenonT(60) DEF ThreadInv
  <2> QED
    BY <2>1, <1>9, ZenonT(60) DEF Answers
<1>15. ThreadInv(T, P, C)
  BY <1>11, <1>12, <1>13, <1>14, ZenonT(60) DEF ThreadInv
<1>16. \A p \in Ports, t \in Threads : T.ith[t] = S.ith[t] => (t \in HeldBy(T, P, p) <=> t \in HeldBy(S, P, p))
  BY ZenonT(60) DEF HeldBy, Holds
<1>17. \A p \in Ports, t \in Threads : t \in Range(R) => t \notin HeldBy(S, P, p)
  BY <1>6, ZenonT(60) DEF HeldBy, Holds
<1>18. \A p \in Ports, t \in Threads : t \in Range(R) /\ T.ith[t].state = "TOO_LARGE" => t \notin HeldBy(T, P, p)
  BY <1>6, ZenonT(60) DEF HeldBy, Holds
<1>19. CASE k > Len(R)
  <2>1. Receiver(S, q, m) = Null
    BY <1>19, <1>1, <1>2, ZenonT(60) DEF Receiver
  <2>2. ASSUME NEW p \in Ports PROVE HeldBy(T, P, p) = HeldBy(S, P, p)
    <3>1. ASSUME NEW t \in Threads PROVE t \in HeldBy(T, P, p) <=> t \in HeldBy(S, P, p)
      BY <1>9, <1>16, <1>17, <1>18, <1>19, <1>3, <1>4, SMTT(60)
    <3> QED
      BY <3>1, ZenonT(60) DEF HeldBy
  <2> QED
    BY <2>1, <2>2, <1>19, <1>4, <1>8, <1>15, ZenonT(60) DEF Delivered
<1>20. CASE k <= Len(R)
  <2>1. ~(k > Len(R)) /\ k \in 1..Len(R)
    BY <1>20, <1>3, <1>4, SMTT(60)
  <2>2. Receiver(S, q, m) = R[k]
    BY <2>1, <1>1, <1>2, ZenonT(60) DEF Receiver
  <2>3. R[k] \in Threads /\ R[k] \in Range(R)
    BY <2>1, <1>5, ZenonT(60)
  <2>4. R # <<>>
    BY <2>1, SMTT(60)
  <2>5. m.port \in Ports /\ m # Null
    BY IpcAssumption, ZenonT(60) DEF Message
  <2>6. \A t \in Threads : t # R[k] => T.ith[t] = S.ith[t] \/ (t \in Range(R) /\ T.ith[t].state = "TOO_LARGE")
    BY <1>9, ZenonT(60)
  <2>7. P[R[k]] = "receive" /\ T.ith[R[k]].state = "SUCCESS" /\ T.ith[R[k]].kmsg = m
    BY <2>3, <1>6, <1>20, <1>4, ZenonT(60)
  <2>8. \A p \in Ports : R[k] \in HeldBy(T, P, p) <=> m.port = p
    BY <2>7, <2>5, <2>3, ZenonT(60) DEF HeldBy, Holds
  <2>9. ASSUME NEW p \in Ports, p # m.port PROVE HeldBy(T, P, p) = HeldBy(S, P, p)
    <3>1. ASSUME NEW t \in Threads PROVE t \in HeldBy(T, P, p) <=> t \in HeldBy(S, P, p)
      BY <2>3, <2>6, <2>8, <2>9, <1>16, <1>17, <1>18, ZenonT(60)
    <3> QED
      BY <3>1, ZenonT(60) DEF HeldBy
  <2>10. HeldBy(T, P, m.port) = HeldBy(S, P, m.port) \cup {R[k]}
    <3>1. ASSUME NEW t \in Threads PROVE t \in HeldBy(T, P, m.port) <=> t \in HeldBy(S, P, m.port) \cup {R[k]}
      BY <2>3, <2>5, <2>6, <2>8, <1>16, <1>17, <1>18, ZenonT(60)
    <3> QED
      BY <3>1, <2>3, ZenonT(60) DEF HeldBy
  <2>11. R[k] \notin HeldBy(S, P, m.port)
    BY <2>3, <2>5, <1>17, ZenonT(60)
  <2> QED
    BY <2>1, <2>2, <2>3, <2>4, <2>9, <2>10, <2>11, <1>20, <1>1, <1>4, <1>8, <1>15, ZenonT(60) DEF Delivered
<1> QED
  BY <1>19, <1>20, <1>3, <1>4, SMTT(60)

\* Receiving the oldest message numbers it and leaves the later ones.
LEMMA SpanTake ==
  ASSUME NEW b \in Nat, NEW e \in Nat, NEW n \in Nat, NEW I, Span(I, b, e, n),
         NEW x \in I, \A y \in I : x <= y
  PROVE  Span(I \ {x}, b, e + 1, n)
<1>1. PICK lo \in Nat : lo = b + e
  BY SMTT(60)
<1>2. I = lo..(n - 1) /\ lo <= n
  BY <1>1, ZenonT(60) DEF Span
<1>3. lo \in I
  BY <1>2, SMTT(60)
<1>4. x = lo
  BY <1>2, <1>3, SMTT(60)
<1>5. I \ {x} = (lo + 1)..(n - 1) /\ lo + 1 <= n
  BY <1>2, <1>3, <1>4, SMTT(60)
<1>6. b + (e + 1) = lo + 1
  BY <1>1, SMTT(60)
<1> QED
  BY <1>5, <1>6, ZenonT(60) DEF Span

\* Sending adds the next message.
LEMMA SpanAdd ==
  ASSUME NEW b \in Nat, NEW e \in Nat, NEW n \in Nat, NEW I, Span(I, b, e, n)
  PROVE  Span(I \cup {n}, b, e, n + 1) /\ \A x \in I : x < n
  BY SMTT(60) DEF Span

\* A message sent straight to a receiver, when none is queued, is numbered next.
LEMMA SpanPass ==
  ASSUME NEW b \in Nat, NEW e \in Nat, NEW n \in Nat, NEW I, I = {}, Span(I, b, e, n)
  PROVE  Span(I, b, e + 1, n + 1)
<1>1. b + e = n
  <2>1. (b + e) \notin (b + e)..(n - 1)
    BY ZenonT(60) DEF Span
  <2> QED
    BY <2>1, SMTT(60) DEF Span
<1> QED
  BY <1>1, SMTT(60) DEF Span

\* Counting ip_seqno from 0 again leaves the same messages.
LEMMA SpanReset ==
  ASSUME NEW b \in Nat, NEW e \in Nat, NEW n \in Nat, NEW I, Span(I, b, e, n)
  PROVE  Span(I, b + e, 0, n)
  BY SMTT(60) DEF Span

\* How ip_msgcount follows sends, receives and a reset of ip_seqno.
LEMMA CountSteps ==
  ASSUME NEW a \in Int, NEW b \in Nat, NEW e \in Nat, NEW n \in Nat, NEW h \in Nat, Count(a, b, e, n, h)
  PROVE  /\ Count(a - 1, b, e, n, h - 1)
         /\ Count(a, b, e + 1, n, h + 1)
         /\ Count(a + 1, b, e, n + 1, h)
         /\ Count(a + 1, b, e + 1, n + 1, h + 1)
         /\ Count(a, b + e, 0, n, h)
  BY SMTT(60) DEF Count

\* What a port's messages and holders make does not change when both are moved on alike.
LEMMA CountAlike ==
  ASSUME NEW a \in Int, NEW b \in Nat, NEW e \in Nat, NEW n \in Nat, NEW h \in Nat, Count(a, b, e, n, h),
         NEW e2 \in Nat, NEW h2 \in Nat, h2 - e2 = h - e
  PROVE  Count(a, b, e2, n, h2)
  BY SMTT(60) DEF Count

\* The ports of the messages in a queue, after one more.
LEMMA PortsAppend ==
  ASSUME NEW s \in Seq(Message), NEW m \in Message
  PROVE  PortsIn(Append(s, m)) = PortsIn(s) \cup {m.port}
<1> DEFINE a == Append(s, m)
<1>1. Len(a) = Len(s) + 1 /\ a[Len(s) + 1] = m /\ \A i \in 1..Len(s) : a[i] = s[i]
  BY SMTT(60)
<1> HIDE DEF a
<1>2. Len(s) \in Nat
  BY SMTT(60)
<1>3. ASSUME NEW x PROVE x \in PortsIn(a) <=> x \in PortsIn(s) \cup {m.port}
  BY <1>1, <1>2, SMTT(60) DEF PortsIn
<1> QED
  BY <1>3, ZenonT(60) DEF a

\* Only an empty queue has messages of no port.
LEMMA PortsEmpty ==
  /\ PortsIn(<<>>) = {}
  /\ \A s \in Seq(Message) : s # <<>> => PortsIn(s) # {}
<1>1. PortsIn(<<>>) = {}
  BY SMTT(60) DEF PortsIn
<1>2. ASSUME NEW s \in Seq(Message), s # <<>> PROVE PortsIn(s) # {}
  <2>1. 1 \in 1..Len(s)
    BY <1>2, SMTT(60)
  <2> QED
    BY <2>1, ZenonT(60) DEF PortsIn
<1> QED
  BY <1>1, <1>2, ZenonT(60)

\* The ports of the messages in a queue, after the first is taken.
LEMMA PortsTail ==
  ASSUME NEW s \in Seq(Message), s # <<>>
  PROVE  PortsIn(Tail(s)) \subseteq PortsIn(s) /\ Head(s).port \in PortsIn(s)
<1> DEFINE u == Tail(s)
<1>1. Len(u) = Len(s) - 1 /\ Len(s) \in Nat \ {0} /\ Head(s) = s[1] /\ \A i \in 1..Len(u) : u[i] = s[i + 1]
  BY SMTT(60)
<1> HIDE DEF u
<1>2. ASSUME NEW x \in PortsIn(u) PROVE x \in PortsIn(s)
  <2>1. PICK i \in 1..Len(u) : x = u[i].port
    BY ZenonT(60) DEF PortsIn
  <2>2. i + 1 \in 1..Len(s) /\ s[i + 1] = u[i]
    BY <1>1, SMTT(60)
  <2> QED
    BY <2>1, <2>2, ZenonT(60) DEF PortsIn
<1>3. Head(s).port \in PortsIn(s)
  BY <1>1, SMTT(60) DEF PortsIn
<1> QED
  BY <1>2, <1>3, ZenonT(60) DEF u

\* A queue without messages of p has no numbers of p.
LEMMA IdsNone ==
  ASSUME NEW s \in Seq(Message), NEW p \in Ports, p \notin PortsIn(s)
  PROVE  Ids(s, p) = {}
  BY ZenonT(60) DEF Ids, PortsIn

\* Before the loop of ipc_mqueue_move all messages of p are to be visited, after it
\* none.
LEMMA IdsEnds ==
  ASSUME NEW M \in Seq(Message), NEW p \in Ports
  PROVE  /\ IdsUpto(M, 0, p) = {} /\ IdsUpto(M, Len(M), p) = Ids(M, p)
         /\ IdsAfter(M, 0, p) = Ids(M, p) /\ IdsAfter(M, Len(M), p) = {}
<1>1. Len(M) \in Nat
  BY SMTT(60)
<1> QED
  BY <1>1, SMTT(60) DEF IdsUpto, IdsAfter, Ids

\* One round of the loop visits one message of p, or of another port.
LEMMA IdsStep ==
  ASSUME NEW M \in Seq(Message), Sorted(M), NEW i \in 1..Len(M), NEW p \in Ports
  PROVE  /\ M[i].port # p => /\ IdsUpto(M, i, p) = IdsUpto(M, i - 1, p)
                             /\ IdsAfter(M, i - 1, p) = IdsAfter(M, i, p)
         /\ M[i].port = p => /\ IdsUpto(M, i, p) = IdsUpto(M, i - 1, p) \cup {M[i].id}
                             /\ \A x \in IdsUpto(M, i - 1, p) : x < M[i].id
                             /\ IdsAfter(M, i - 1, p) = IdsAfter(M, i, p) \cup {M[i].id}
                             /\ \A x \in IdsAfter(M, i, p) : M[i].id < x
<1>1. Len(M) \in Nat /\ i \in Nat
  BY SMTT(60)
<1>2. 1..i = (1..(i - 1)) \cup {i}
  BY <1>1, SMTT(60)
<1>3. ((i - 1) + 1)..Len(M) = ((i + 1)..Len(M)) \cup {i}
  BY <1>1, SMTT(60)
<1>4. CASE M[i].port # p
  BY <1>2, <1>3, <1>4, SMTT(60) DEF IdsUpto, IdsAfter
<1>5. CASE M[i].port = p
  <2>1. IdsUpto(M, i, p) = IdsUpto(M, i - 1, p) \cup {M[i].id}
    BY <1>2, <1>5, ZenonT(60) DEF IdsUpto
  <2>2. IdsAfter(M, i - 1, p) = IdsAfter(M, i, p) \cup {M[i].id}
    BY <1>3, <1>5, ZenonT(60) DEF IdsAfter
  <2>3. \A x \in IdsUpto(M, i - 1, p) : x < M[i].id
    <3>1. ASSUME NEW x \in IdsUpto(M, i - 1, p) PROVE x < M[i].id
      <4>1. PICK k \in 1..(i - 1) : M[k].port = p /\ x = M[k].id
        BY ZenonT(60) DEF IdsUpto
      <4>2. k \in 1..Len(M) /\ k < i
        BY <1>1, SMTT(60)
      <4> QED
        BY <4>1, <4>2, <1>5, ZenonT(60) DEF Sorted
    <3> QED
      BY <3>1, ZenonT(60)
  <2>4. \A x \in IdsAfter(M, i, p) : M[i].id < x
    <3>1. ASSUME NEW x \in IdsAfter(M, i, p) PROVE M[i].id < x
      <4>1. PICK k \in (i + 1)..Len(M) : M[k].port = p /\ x = M[k].id
        BY ZenonT(60) DEF IdsAfter
      <4>2. k \in 1..Len(M) /\ i < k
        BY <1>1, SMTT(60)
      <4> QED
        BY <4>1, <4>2, <1>5, ZenonT(60) DEF Sorted
    <3> QED
      BY <3>1, ZenonT(60)
  <2> QED
    BY <2>1, <2>2, <2>3, <2>4, <1>5, ZenonT(60)
<1> QED
  BY <1>4, <1>5, ZenonT(60)

\* Changing one queue of messages leaves the rest of the state.
LEMMA MessagesOnly ==
  ASSUME NEW S \in States, NEW x \in Queues, NEW s \in Seq(Message)
  PROVE  Requeued(S, x, s, [S EXCEPT !.imq_messages[x] = s])
<1>0. PICK T : T = [S EXCEPT !.imq_messages[x] = s]
  BY ZenonT(60)
<1>1. S.imq_messages \in [Queues -> Seq(Message)]
  BY ZenonT(60) DEF States
<1>2. [S.imq_messages EXCEPT ![x] = s] \in [Queues -> Seq(Message)]
  BY <1>1, ZenonT(60)
<1>3. /\ T.imq_messages = [S.imq_messages EXCEPT ![x] = s]
      /\ T.imq_threads = S.imq_threads
      /\ T.ith = S.ith
      /\ T.ip_seqno = S.ip_seqno
  BY <1>0, ZenonT(60) DEF States
<1>4. T \in States
  BY <1>0, <1>1, <1>2, <1>3, ZenonT(60) DEF States
<1> QED
  BY <1>0, <1>3, <1>4, ZenonT(60) DEF Requeued

\* Receivers wait where they did if only messages have changed.
LEMMA SameThreads ==
  ASSUME NEW S, NEW T, T.imq_threads = S.imq_threads, T.ith = S.ith, NEW P, NEW C
  PROVE  ThreadInv(T, P, C) <=> ThreadInv(S, P, C)
<1>1. Waits(T, P, C) <=> Waits(S, P, C)
  BY SMTT(60) DEF Waits
<1>2. \A t : Holds(T, P, t) <=> Holds(S, P, t)
  BY ZenonT(60) DEF Holds
<1> QED
  BY <1>1, <1>2, ZenonT(60) DEF ThreadInv

\* ipc_mqueue_move is a loop: the state after round i follows from that before it.
LEMMA MoveLoop ==
  ASSUME SetLaws, NEW S \in States, NEW dest \in Queues, NEW source \in Queues, NEW p \in Ports,
         NEW P, NEW C, ThreadInv(S, P, C)
  PROVE  Loops(S, dest, source, p, S.imq_messages[source])
<1>1. PICK M \in Seq(Message) : M = S.imq_messages[source]
  BY ZenonT(60) DEF States
<1> DEFINE X == {T \in States : ThreadInv(T, P, C)}
           Body(T, i) == IF M[i].port = p THEN Deliver(T, dest, M[i], TRUE)
                         ELSE [T EXCEPT !.imq_messages[source] = Append(@, M[i])]
           a == [S EXCEPT !.imq_messages[source] = <<>>]
           D == [x \in X \X (1..Len(M)) |-> Body(x[1], x[2])]
<1> HIDE DEF X, Body, a, D
<1>2. a \in X
  <2>1. <<>> \in Seq(Message)
    BY SMTT(60)
  <2>2. a = [S EXCEPT !.imq_messages[source] = <<>>]
    BY ZenonT(60) DEF a
  <2>a. Requeued(S, source, <<>>, a)
    BY <2>1, <2>2, MessagesOnly, ZenonT(60)
  <2>3. a \in States /\ a.imq_threads = S.imq_threads /\ a.ith = S.ith
    BY <2>a, ZenonT(60) DEF Requeued
  <2>4. ThreadInv(a, P, C)
    BY <2>3, SameThreads, ZenonT(60)
  <2> QED
    BY <2>3, <2>4, ZenonT(60) DEF X
<1>3. ASSUME NEW T \in X, NEW i \in 1..Len(M) PROVE Body(T, i) \in X
  <2>0. M[i] \in Message /\ T \in States /\ ThreadInv(T, P, C)
    BY <1>1, SMTT(60) DEF X
  <2>1. CASE M[i].port = p
    <3>1. PICK b \in BOOLEAN : b = TRUE
      BY ZenonT(60)
    <3>2. Delivered(T, dest, M[i], P, C, Deliver(T, dest, M[i], b))
      BY <2>0, DeliverThreads, ZenonT(60)
    <3>3. Deliver(T, dest, M[i], b) \in X
      BY <3>2, ZenonT(60) DEF Delivered, X
    <3> QED
      BY <2>1, <3>1, <3>3, ZenonT(60) DEF Body
  <2>2. CASE M[i].port # p
    <3>1. PICK s : s = Append(T.imq_messages[source], M[i])
      BY ZenonT(60)
    <3>2. s \in Seq(Message)
      BY <2>0, <3>1, SMTT(60) DEF States
    <3>3. PICK U : U = [T EXCEPT !.imq_messages[source] = s]
      BY ZenonT(60)
    <3>a. Requeued(T, source, s, U)
      BY <2>0, <3>2, <3>3, MessagesOnly, ZenonT(60)
    <3>4. U \in States /\ U.imq_threads = T.imq_threads /\ U.ith = T.ith
      BY <3>a, ZenonT(60) DEF Requeued
    <3>5. ThreadInv(U, P, C)
      BY <2>0, <3>4, SameThreads, ZenonT(60)
    <3>6. Body(T, i) = [T EXCEPT !.imq_messages[source] = Append(@, M[i])]
      BY <2>2, ZenonT(60) DEF Body
    <3>7. Body(T, i) = U
      BY <3>6, <3>1, <3>3, ZenonT(60)
    <3> QED
      BY <3>4, <3>5, <3>7, ZenonT(60) DEF X
  <2> QED
    BY <2>1, <2>2, ZenonT(60)
<1>4. Len(M) \in Nat
  BY SMTT(60)
<1>5. D \in [X \X (1..Len(M)) -> X]
  BY <1>3, ZenonT(60) DEF D
<1>6. PICK f \in [0..Len(M) -> X] : f[0] = a /\ \A i \in 1..Len(M) : f[i] = D[<<f[i - 1], i>>]
  <2>1. Recursive(Len(M), X, a, D)
    BY <1>2, <1>4, <1>5, Recursion, ZenonT(60)
  <2> QED
    BY <2>1, ZenonT(60) DEF Recursive
<1>7. ASSUME NEW i \in 1..Len(M) PROVE f[i] = Body(f[i - 1], i)
  <2>1. f[i - 1] \in X
    BY <1>4, <1>6, SMTT(60)
  <2>2. f[i] = D[<<f[i - 1], i>>]
    BY <1>6, ZenonT(60)
  <2> QED
    BY <2>1, <2>2, ZenonT(60) DEF D
<1>8. f = [i \in 0..Len(M) |-> IF i = 0 THEN a ELSE Body(f[i - 1], i)]
  BY <1>4, <1>6, <1>7, SMTT(60)
<1>9. PICK g : g = CHOOSE h : h = [i \in 0..Len(M) |-> IF i = 0 THEN a ELSE Body(h[i - 1], i)]
  BY ZenonT(60)
<1>10. g = [i \in 0..Len(M) |-> IF i = 0 THEN a ELSE Body(g[i - 1], i)]
  BY <1>8, <1>9, ZenonT(60)
<1>11. ipc_mqueue_move(S, dest, source, p) = g[Len(M)]
  BY <1>9, <1>1, ZenonT(60) DEF ipc_mqueue_move, Body, a
<1>12. g[0] = a /\ \A i \in 1..Len(M) : g[i] = Body(g[i - 1], i)
  BY <1>4, <1>10, SMTT(60)
<1>13. Loop(S, dest, source, p, M, g)
  BY <1>12, ZenonT(60) DEF Loop, MoveOne, Body, a
<1> QED
  BY <1>1, <1>11, <1>13, ZenonT(60) DEF Loops

\* A message of another port is put back on the source queue.
LEMMA MoveFromAppend ==
  ASSUME NEW M \in Seq(Message), Sorted(M), NEW i \in 1..Len(M), NEW p \in Ports, M[i].port # p,
         NEW L \in Seq(Message), MoveFrom(L, M, i - 1, p)
  PROVE  MoveFrom(Append(L, M[i]), M, i, p)
<1>1. PICK m \in Message : m = M[i]
  BY SMTT(60)
<1>2. m.port \in Ports \ {p}
  BY <1>1, ZenonT(60) DEF Message
<1>3. \A r \in Ports : r = m.port => \A x \in IdsUpto(M, i - 1, r) : x < m.id
  BY <1>1, IdsStep, ZenonT(60)
<1>4. Sorted(Append(L, m))
  <2>1. \A x \in Ids(L, m.port) : x < m.id
    BY <1>2, <1>3, ZenonT(60) DEF MoveFrom
  <2> QED
    BY <2>1, SortedAppend, ZenonT(60) DEF MoveFrom
<1>5. PortsIn(Append(L, m)) \subseteq PortsIn(M) \ {p}
  <2>1. PortsIn(Append(L, m)) = PortsIn(L) \cup {m.port}
    BY PortsAppend, ZenonT(60)
  <2>2. m.port \in PortsIn(M)
    BY <1>1, ZenonT(60) DEF PortsIn
  <2> QED
    BY <2>1, <2>2, <1>2, ZenonT(60) DEF MoveFrom
<1>6. ASSUME NEW r \in Ports \ {p} PROVE Ids(Append(L, m), r) = IdsUpto(M, i, r)
  <2>1. Ids(L, r) = IdsUpto(M, i - 1, r)
    BY ZenonT(60) DEF MoveFrom
  <2>2. CASE m.port = r
    <3>1. Ids(Append(L, m), r) = Ids(L, r) \cup {m.id}
      BY <2>2, IdsAppend, ZenonT(60)
    <3>2. IdsUpto(M, i, r) = IdsUpto(M, i - 1, r) \cup {m.id}
      BY <2>2, <1>1, IdsStep, SMTT(60)
    <3> QED
      BY <2>1, <3>1, <3>2, ZenonT(60)
  <2>3. CASE m.port # r
    BY <2>1, <2>3, <1>1, IdsAppend, IdsStep, SMTT(60)
  <2> QED
    BY <2>2, <2>3, ZenonT(60)
<1>7. MoveFrom(Append(L, m), M, i, p)
  BY <1>4, <1>5, <1>6, ZenonT(60) DEF MoveFrom
<1> QED
  BY <1>1, <1>7, ZenonT(60)

\* A message of another port is passed over.
LEMMA MoveToSkip ==
  ASSUME NEW M \in Seq(Message), Sorted(M), NEW i \in 1..Len(M), NEW p \in Ports, M[i].port # p,
         NEW N, NEW N0, NEW W, NEW lo, NEW hi, MoveTo(N, N0, W, M, i - 1, p, lo, hi)
  PROVE  MoveTo(N, N0, W, M, i, p, lo, hi)
<1>1. IdsAfter(M, i - 1, p) = IdsAfter(M, i, p)
  BY IdsStep, ZenonT(60)
<1> QED
  BY <1>1, ZenonT(60) DEF MoveTo

\* A message of p is put at the end of the destination.
LEMMA MoveToAppend ==
  ASSUME NEW M \in Seq(Message), Sorted(M), NEW i \in 1..Len(M), NEW p \in Ports, M[i].port = p,
         NEW N \in Seq(Message), NEW N0, NEW W, NEW lo \in Nat, NEW hi \in Int,
         MoveTo(N, N0, W, M, i - 1, p, lo, hi)
  PROVE  MoveTo(Append(N, M[i]), N0, <<>>, M, i, p, lo, hi)
<1>1. PICK m \in Message : m = M[i]
  BY SMTT(60)
<1>2. m.port = p /\ m.id \in Nat
  BY <1>1, ZenonT(60) DEF Message
<1>3. IdsAfter(M, i - 1, p) = IdsAfter(M, i, p) \cup {m.id} /\ \A x \in IdsAfter(M, i, p) : m.id < x
  BY <1>1, IdsStep, SMTT(60)
<1>4. Sorted(Append(N, m))
  <2>1. \A x \in Ids(N, m.port) : x < m.id
    BY <1>2, <1>3, ZenonT(60) DEF MoveTo
  <2> QED
    BY <2>1, SortedAppend, ZenonT(60) DEF MoveTo
<1>5. PortsIn(Append(N, m)) \subseteq PortsIn(N0) \cup {p}
  <2>1. PortsIn(Append(N, m)) = PortsIn(N) \cup {m.port}
    BY PortsAppend, ZenonT(60)
  <2> QED
    BY <2>1, <1>2, ZenonT(60) DEF MoveTo
<1>6. ASSUME NEW r \in Ports \ {p} PROVE Ids(Append(N, m), r) = Ids(N0, r)
  <2>1. Ids(N, r) = Ids(N0, r)
    BY ZenonT(60) DEF MoveTo
  <2> QED
    BY <2>1, <1>2, IdsAppend, ZenonT(60)
<1>7. Ids(Append(N, m), p) = Ids(N, p) \cup {m.id}
  BY <1>2, IdsAppend, SMTT(60)
<1>8. Ids(Append(N, m), p) \cup IdsAfter(M, i, p) = lo..hi
  BY <1>3, <1>7, ZenonT(60) DEF MoveTo
<1>9. \A x \in Ids(Append(N, m), p), y \in IdsAfter(M, i, p) : x < y
  BY <1>3, <1>7, ZenonT(60) DEF MoveTo
<1>10. lo <= hi + 1
  BY ZenonT(60) DEF MoveTo
<1>11. MoveTo(Append(N, m), N0, <<>>, M, i, p, lo, hi)
  BY <1>4, <1>5, <1>6, <1>8, <1>9, <1>10, ZenonT(60) DEF MoveTo
<1> QED
  BY <1>1, <1>11, ZenonT(60)

\* A message of p is taken by a receiver: it is the first.
LEMMA MoveToTaken ==
  ASSUME NEW M \in Seq(Message), Sorted(M), NEW i \in 1..Len(M), NEW p \in Ports, M[i].port = p,
         NEW N \in Seq(Message), NEW N0, NEW W, NEW V, W # <<>>, NEW lo \in Nat, NEW hi \in Int,
         MoveTo(N, N0, W, M, i - 1, p, lo, hi)
  PROVE  MoveTo(N, N0, V, M, i, p, lo + 1, hi)
<1>1. PICK m \in Message : m = M[i]
  BY SMTT(60)
<1>2. m.port = p /\ m.id \in Nat
  BY <1>1, ZenonT(60) DEF Message
<1>3. IdsAfter(M, i - 1, p) = IdsAfter(M, i, p) \cup {m.id} /\ \A x \in IdsAfter(M, i, p) : m.id < x
  BY <1>1, IdsStep, SMTT(60)
<1>4. N = <<>> /\ Ids(N, p) = {}
  BY IdsEmpty, ZenonT(60) DEF MoveTo
<1>5. IdsAfter(M, i, p) \cup {m.id} = lo..hi
  BY <1>3, <1>4, ZenonT(60) DEF MoveTo
<1>6. m.id = lo /\ lo <= hi
  <2>1. m.id \in lo..hi
    BY <1>5, ZenonT(60)
  <2>2. lo \in lo..hi
    BY <2>1, SMTT(60)
  <2>3. lo \in IdsAfter(M, i, p) \cup {m.id}
    BY <2>2, <1>5, ZenonT(60)
  <2> QED
    BY <2>1, <2>3, <1>3, SMTT(60)
<1>7. ASSUME NEW x PROVE x \in IdsAfter(M, i, p) <=> x \in (lo + 1)..hi
  <2>1. x \in IdsAfter(M, i, p) \/ x = lo <=> x \in lo..hi
    BY <1>5, <1>6, ZenonT(60)
  <2>2. x \in IdsAfter(M, i, p) => lo < x
    BY <1>3, <1>6, ZenonT(60)
  <2> QED
    BY <2>1, <2>2, <1>6, SMTT(60)
<1>8. IdsAfter(M, i, p) = (lo + 1)..hi
  BY <1>7, ZenonT(60)
<1>9. lo + 1 <= hi + 1
  BY <1>6, SMTT(60)
<1>10. /\ Sorted(N) /\ PortsIn(N) \subseteq PortsIn(N0) \cup {p}
       /\ \A r \in Ports \ {p} : Ids(N, r) = Ids(N0, r)
  BY ZenonT(60) DEF MoveTo
<1>11. Ids(N, p) \cup IdsAfter(M, i, p) = (lo + 1)..hi
  BY <1>4, <1>8, ZenonT(60)
<1> QED
  BY <1>4, <1>9, <1>10, <1>11, ZenonT(60) DEF MoveTo

\* Finitely many threads hold messages.
LEMMA HeldFinite ==
  ASSUME SetLaws, NEW S, NEW P, NEW p
  PROVE  IsFiniteSet(HeldBy(S, P, p)) /\ Cardinality(HeldBy(S, P, p)) \in Nat
<1>1. HeldBy(S, P, p) \subseteq Threads
  BY ZenonT(60) DEF HeldBy
<1>2. IsFiniteSet(Threads)
  BY IpcAssumption, ZenonT(60)
<1>3. IsFiniteSet(HeldBy(S, P, p))
  BY <1>1, <1>2, SubsetSize, ZenonT(60)
<1> QED
  BY <1>3, CardinalityType, ZenonT(60)

\* Putting a message on a queue keeps what the loop keeps.
LEMMA FrameRequeued ==
  ASSUME NEW S \in States, NEW dest, NEW source \in Queues, NEW p \in Ports, NEW P, NEW C,
         NEW T, MoveFrame(S, dest, source, p, P, C, T),
         NEW s, NEW U, Requeued(T, source, s, U)
  PROVE  MoveFrame(S, dest, source, p, P, C, U)
<1>1. /\ U \in States /\ U.imq_messages = [T.imq_messages EXCEPT ![source] = s]
      /\ U.imq_threads = T.imq_threads /\ U.ith = T.ith /\ U.ip_seqno = T.ip_seqno
  BY ZenonT(60) DEF Requeued
<1>2. ThreadInv(U, P, C) /\ \A r : HeldBy(U, P, r) = HeldBy(T, P, r)
  <2>1. ThreadInv(T, P, C)
    BY ZenonT(60) DEF MoveFrame
  <2>2. ThreadInv(U, P, C)
    BY <2>1, <1>1, SameThreads, ZenonT(60)
  <2>3. \A r : HeldBy(U, P, r) = HeldBy(T, P, r)
    BY <1>1, ZenonT(60) DEF HeldBy, Holds
  <2> QED
    BY <2>2, <2>3, ZenonT(60)
<1>3. \A x \in Queues \ {dest, source} : U.imq_messages[x] = T.imq_messages[x]
  <2>1. T.imq_messages \in [Queues -> Seq(Message)]
    BY ZenonT(60) DEF MoveFrame, States
  <2> QED
    BY <2>1, <1>1, ZenonT(60)
<1>4. /\ \A t \in Threads : P[t] # "receive" => U.ith[t] = S.ith[t]
      /\ \A x \in Queues \ {dest} : U.imq_threads[x] = S.imq_threads[x]
      /\ \A x \in Queues \ {dest, source} : U.imq_messages[x] = S.imq_messages[x]
      /\ \A r \in Ports \ {p} : U.ip_seqno[r] = S.ip_seqno[r] /\ HeldBy(U, P, r) = HeldBy(S, P, r)
      /\ S.imq_threads[dest] = <<>> => U.imq_threads[dest] = <<>> /\ U.ip_seqno[p] = S.ip_seqno[p]
  BY <1>1, <1>2, <1>3, ZenonT(60) DEF MoveFrame
<1>5. Cardinality(HeldBy(U, P, p)) - U.ip_seqno[p] = Cardinality(HeldBy(S, P, p)) - S.ip_seqno[p]
  <2>1. Cardinality(HeldBy(T, P, p)) - T.ip_seqno[p] = Cardinality(HeldBy(S, P, p)) - S.ip_seqno[p]
    BY ZenonT(60) DEF MoveFrame
  <2>2. HeldBy(U, P, p) = HeldBy(T, P, p)
    BY <1>2, ZenonT(60)
  <2> QED
    BY <2>1, <2>2, <1>1, ZenonT(60)
<1> QED
  BY <1>1, <1>2, <1>4, <1>5, ZenonT(60) DEF MoveFrame

\* Giving a message to a receiver, or queueing it, keeps what the loop keeps.
LEMMA FrameDelivered ==
  ASSUME SetLaws, NEW S \in States, NEW dest \in Queues, NEW source, NEW p \in Ports, NEW P, NEW C,
         NEW T, MoveFrame(S, dest, source, p, P, C, T),
         NEW m \in Message, m.port = p, NEW U, Delivered(T, dest, m, P, C, U)
  PROVE  MoveFrame(S, dest, source, p, P, C, U)
<1>0. T \in States /\ U \in States /\ T.imq_messages \in [Queues -> Seq(Message)] /\ T.ip_seqno \in [Ports -> Nat]
  BY ZenonT(60) DEF MoveFrame, States, Delivered
<1>1. /\ ThreadInv(U, P, C)
      /\ \A t \in Threads : P[t] # "receive" => U.ith[t] = T.ith[t]
      /\ \A x \in Queues \ {dest} : U.imq_threads[x] = T.imq_threads[x]
  BY ZenonT(60) DEF Delivered
<1>2. \A x \in Queues \ {dest} : U.imq_messages[x] = T.imq_messages[x]
  <2>1. CASE U.imq_messages = T.imq_messages
    BY <2>1, ZenonT(60)
  <2>2. CASE U.imq_messages = [T.imq_messages EXCEPT ![dest] = Append(@, m)]
    BY <2>2, <1>0, ZenonT(60)
  <2> QED
    BY <2>1, <2>2, ZenonT(60) DEF Delivered
<1>3. ASSUME NEW r \in Ports, r # p PROVE U.ip_seqno[r] = T.ip_seqno[r] /\ HeldBy(U, P, r) = HeldBy(T, P, r)
  <2>1. HeldBy(U, P, r) = HeldBy(T, P, r)
    BY <1>3, ZenonT(60) DEF Delivered
  <2>2. CASE U.ip_seqno = T.ip_seqno
    BY <2>1, <2>2, ZenonT(60)
  <2>3. CASE U.ip_seqno = [T.ip_seqno EXCEPT ![m.port] = @ + 1]
    BY <2>1, <2>3, <1>0, <1>3, ZenonT(60)
  <2> QED
    BY <2>2, <2>3, ZenonT(60) DEF Delivered
<1>4. Cardinality(HeldBy(U, P, p)) - U.ip_seqno[p] = Cardinality(HeldBy(T, P, p)) - T.ip_seqno[p]
  <2>1. CASE U.ip_seqno = T.ip_seqno /\ HeldBy(U, P, p) = HeldBy(T, P, p)
    BY <2>1, ZenonT(60)
  <2>2. ASSUME NEW r, r \notin HeldBy(T, P, p), HeldBy(U, P, p) = HeldBy(T, P, p) \cup {r},
               U.ip_seqno = [T.ip_seqno EXCEPT ![m.port] = @ + 1]
        PROVE  Cardinality(HeldBy(U, P, p)) - U.ip_seqno[p] = Cardinality(HeldBy(T, P, p)) - T.ip_seqno[p]
    <3>1. IsFiniteSet(HeldBy(T, P, p)) /\ Cardinality(HeldBy(T, P, p)) \in Nat
      BY HeldFinite, ZenonT(60)
    <3>2. Cardinality(HeldBy(T, P, p) \cup {r}) = Cardinality(HeldBy(T, P, p)) + 1
      BY <2>2, <3>1, AddElement, ZenonT(60)
    <3>3. U.ip_seqno[p] = T.ip_seqno[p] + 1 /\ T.ip_seqno[p] \in Nat
      BY <2>2, <1>0, ZenonT(60)
    <3> QED
      BY <3>1, <3>2, <3>3, <2>2, SMTT(60)
  <2> QED
    BY <2>1, <2>2, ZenonT(60) DEF Delivered
<1>5. /\ \A t \in Threads : P[t] # "receive" => U.ith[t] = S.ith[t]
      /\ \A x \in Queues \ {dest} : U.imq_threads[x] = S.imq_threads[x]
      /\ \A x \in Queues \ {dest, source} : U.imq_messages[x] = S.imq_messages[x]
      /\ \A r \in Ports \ {p} : U.ip_seqno[r] = S.ip_seqno[r] /\ HeldBy(U, P, r) = HeldBy(S, P, r)
  BY <1>1, <1>2, <1>3, ZenonT(60) DEF MoveFrame
<1>6. Cardinality(HeldBy(T, P, p)) - T.ip_seqno[p] = Cardinality(HeldBy(S, P, p)) - S.ip_seqno[p]
  BY ZenonT(60) DEF MoveFrame
<1>7. S.imq_threads[dest] = <<>> => U.imq_threads[dest] = <<>> /\ U.ip_seqno[p] = S.ip_seqno[p]
  BY ZenonT(60) DEF MoveFrame, Delivered
<1> QED
  BY <1>0, <1>1, <1>4, <1>5, <1>6, <1>7, ZenonT(60) DEF MoveFrame

\* The invariant of the loop of ipc_mqueue_move holds before its first round.
LEMMA MovingStarts ==
  ASSUME NEW S \in States, NEW dest \in Queues, NEW source \in Queues, dest # source, NEW p \in Ports,
         NEW P, NEW C, ThreadInv(S, P, C), NEW bs \in [Ports -> Nat], NEW sn \in [Ports -> Nat],
         NEW ps, NEW d, QueueInv(S, ps, d, bs, sn), p \notin d, source = QOf(ps, p),
         NEW M, M = S.imq_messages[source],
         NEW T, T = [S EXCEPT !.imq_messages[source] = <<>>]
  PROVE  Moving(S, dest, source, p, P, C, bs, sn, M, 0, T)
<1>0. <<>> \in Seq(Message)
  BY SMTT(60)
<1>1. Requeued(S, source, <<>>, T)
  BY <1>0, MessagesOnly, ZenonT(60)
<1>2. MoveFrame(S, dest, source, p, P, C, S)
  BY ZenonT(60) DEF MoveFrame
<1>3. MoveFrame(S, dest, source, p, P, C, T)
  BY <1>1, <1>2, FrameRequeued, ZenonT(60)
<1>4. S.imq_messages \in [Queues -> Seq(Message)] /\ M \in Seq(Message) /\ S.imq_messages[dest] \in Seq(Message)
  BY ZenonT(60) DEF States
<1>5. T.imq_messages[source] = <<>> /\ T.imq_messages[dest] = S.imq_messages[dest]
  BY <1>1, <1>4, ZenonT(60) DEF Requeued
<1>6. MoveFrom(T.imq_messages[source], M, 0, p)
  <2>1. \A r \in Ports : Ids(<<>>, r) = IdsUpto(M, 0, r)
    BY <1>4, IdsEmpty, IdsEnds, ZenonT(60)
  <2>2. Sorted(<<>>)
    BY IdsEmpty, ZenonT(60)
  <2>3. PortsIn(<<>>) = {}
    BY PortsEmpty, ZenonT(60)
  <2> QED
    BY <2>1, <2>2, <2>3, <1>5, ZenonT(60) DEF MoveFrom
<1>7. p \notin PortsIn(S.imq_messages[dest])
  BY ZenonT(60) DEF QueueInv, Placed
<1>8. Ids(S.imq_messages[dest], p) = {}
  BY <1>4, <1>7, IdsNone, ZenonT(60)
<1>9. IdsAfter(M, 0, p) = Ids(M, p)
  BY <1>4, IdsEnds, ZenonT(60)
<1>10. Numbered(S, ps, bs, sn, p)
  BY ZenonT(60) DEF QueueInv
<1>11. bs[p] + S.ip_seqno[p] <= sn[p] /\ Ids(M, p) = (bs[p] + S.ip_seqno[p])..(sn[p] - 1)
  BY <1>10, ZenonT(60) DEF Numbered, Span
<1>12. bs[p] + S.ip_seqno[p] <= (sn[p] - 1) + 1
  BY <1>11, SMTT(60) DEF States
<1>13. Sorted(S.imq_messages[dest]) /\ (S.imq_messages[dest] = <<>> \/ S.imq_threads[dest] = <<>>)
  BY ZenonT(60) DEF QueueInv, Beside
<1>14. T.imq_threads = S.imq_threads /\ T.ip_seqno = S.ip_seqno
  BY <1>1, ZenonT(60) DEF Requeued
<1>15. Ids(S.imq_messages[dest], p) \cup IdsAfter(M, 0, p) = (bs[p] + S.ip_seqno[p])..(sn[p] - 1)
  BY <1>8, <1>9, <1>11, ZenonT(60)
<1>16. MoveTo(S.imq_messages[dest], S.imq_messages[dest], S.imq_threads[dest], M, 0, p,
              bs[p] + S.ip_seqno[p], sn[p] - 1)
  BY <1>8, <1>12, <1>13, <1>15, ZenonT(60) DEF MoveTo
<1> QED
  BY <1>3, <1>5, <1>6, <1>14, <1>16, ZenonT(60) DEF Moving

\* A round of the loop of ipc_mqueue_move keeps its invariant.
LEMMA MovingSteps ==
  ASSUME SetLaws, NEW S \in States, NEW dest \in Queues, NEW source \in Queues, dest # source, NEW p \in Ports,
         NEW P, NEW C, NEW bs \in [Ports -> Nat], NEW sn \in [Ports -> Nat],
         NEW M \in Seq(Message), Sorted(M), NEW i \in 1..Len(M),
         NEW T, Moving(S, dest, source, p, P, C, bs, sn, M, i - 1, T),
         NEW U, U = MoveOne(T, dest, source, p, M[i])
  PROVE  Moving(S, dest, source, p, P, C, bs, sn, M, i, U)
<1>1. PICK m \in Message : m = M[i]
  BY SMTT(60)
<1>2. MoveFrame(S, dest, source, p, P, C, T) /\ T \in States /\ ThreadInv(T, P, C)
  BY ZenonT(60) DEF Moving, MoveFrame
<1>3. /\ T.imq_messages \in [Queues -> Seq(Message)] /\ T.ip_seqno \in [Ports -> Nat]
      /\ T.imq_messages[source] \in Seq(Message) /\ T.imq_messages[dest] \in Seq(Message)
  BY <1>2, ZenonT(60) DEF States
<1>4. PICK N0 : N0 = S.imq_messages[dest]
  BY ZenonT(60)
<1>5. MoveFrom(T.imq_messages[source], M, i - 1, p)
  BY ZenonT(60) DEF Moving
<1>6. PICK lo \in Nat : lo = bs[p] + T.ip_seqno[p]
  BY <1>3, SMTT(60)
<1>7. PICK hi \in Int : hi = sn[p] - 1
  BY SMTT(60)
<1>8. MoveTo(T.imq_messages[dest], N0, T.imq_threads[dest], M, i - 1, p, lo, hi)
  BY <1>4, <1>6, <1>7, ZenonT(60) DEF Moving
<1>9. CASE m.port # p
  <2>1. PICK s : s = Append(T.imq_messages[source], m)
    BY ZenonT(60)
  <2>a. s \in Seq(Message)
    BY <2>1, <1>3, SMTT(60)
  <2>2. U = [T EXCEPT !.imq_messages[source] = s]
    BY <2>1, <1>1, <1>9, ZenonT(60) DEF MoveOne
  <2>3. Requeued(T, source, s, U)
    <3>1. T \in States
      BY <1>2, ZenonT(60)
    <3>2. Requeued(T, source, s, [T EXCEPT !.imq_messages[source] = s])
      BY <3>1, <2>a, MessagesOnly, ZenonT(60)
    <3> QED
      BY <3>2, <2>2, ZenonT(60)
  <2>4. MoveFrame(S, dest, source, p, P, C, U)
    BY <2>3, <1>2, FrameRequeued, ZenonT(60)
  <2>5. /\ U.imq_messages = [T.imq_messages EXCEPT ![source] = s]
        /\ U.imq_threads = T.imq_threads /\ U.ip_seqno = T.ip_seqno
    BY <2>3, ZenonT(60) DEF Requeued
  <2>6. U.imq_messages[source] = s /\ U.imq_messages[dest] = T.imq_messages[dest]
    BY <2>5, <1>3, ZenonT(60)
  <2>7. MoveFrom(s, M, i, p)
    BY <2>1, <1>1, <1>3, <1>5, <1>9, MoveFromAppend, ZenonT(60)
  <2>8. MoveTo(T.imq_messages[dest], N0, T.imq_threads[dest], M, i, p, lo, hi)
    BY <1>1, <1>8, <1>9, MoveToSkip, ZenonT(60)
  <2> QED
    BY <2>4, <2>5, <2>6, <2>7, <2>8, <1>4, <1>6, <1>7, ZenonT(60) DEF Moving
<1>10. CASE m.port = p
  <2>1. PICK b \in BOOLEAN : b = TRUE
    BY ZenonT(60)
  <2>2. U = Deliver(T, dest, m, b)
    BY <2>1, <1>1, <1>10, ZenonT(60) DEF MoveOne
  <2>3. Delivered(T, dest, m, P, C, U)
    BY <2>2, <1>2, DeliverThreads, ZenonT(60)
  <2>4. MoveFrame(S, dest, source, p, P, C, U)
    BY <2>3, <1>2, <1>10, FrameDelivered, ZenonT(60)
  <2>5. CASE /\ U.imq_messages = [T.imq_messages EXCEPT ![dest] = Append(@, m)]
             /\ U.imq_threads[dest] = <<>>
             /\ U.ip_seqno = T.ip_seqno
    <3>1. U.imq_messages[source] = T.imq_messages[source] /\ U.imq_messages[dest] = Append(T.imq_messages[dest], m)
      BY <2>5, <1>3, ZenonT(60)
    <3>2. MoveTo(Append(T.imq_messages[dest], m), N0, <<>>, M, i, p, lo, hi)
      BY <1>1, <1>3, <1>8, <1>10, MoveToAppend, ZenonT(60)
    <3>3. MoveFrom(T.imq_messages[source], M, i, p)
      <4>1. \A r \in Ports \ {p} : IdsUpto(M, i, r) = IdsUpto(M, i - 1, r)
        BY <1>1, <1>10, IdsStep, SMTT(60)
      <4> QED
        BY <4>1, <1>5, ZenonT(60) DEF MoveFrom
    <3> QED
      BY <2>4, <2>5, <3>1, <3>2, <3>3, <1>4, <1>6, <1>7, ZenonT(60) DEF Moving
  <2>6. CASE /\ T.imq_threads[dest] # <<>>
             /\ U.imq_messages = T.imq_messages
             /\ U.ip_seqno = [T.ip_seqno EXCEPT ![m.port] = @ + 1]
    <3>1. bs[p] + U.ip_seqno[p] = lo + 1
      BY <2>6, <1>3, <1>6, <1>10, SMTT(60)
    <3>2. MoveTo(T.imq_messages[dest], N0, U.imq_threads[dest], M, i, p, lo + 1, hi)
      BY <2>6, <1>1, <1>3, <1>8, <1>10, MoveToTaken, ZenonT(60)
    <3>3. MoveFrom(T.imq_messages[source], M, i, p)
      <4>1. \A r \in Ports \ {p} : IdsUpto(M, i, r) = IdsUpto(M, i - 1, r)
        BY <1>1, <1>10, IdsStep, SMTT(60)
      <4> QED
        BY <4>1, <1>5, ZenonT(60) DEF MoveFrom
    <3> QED
      BY <2>4, <2>6, <3>1, <3>2, <3>3, <1>4, <1>7, ZenonT(60) DEF Moving
  <2> QED
    BY <2>3, <2>5, <2>6, ZenonT(60) DEF Delivered
<1> QED
  BY <1>9, <1>10, ZenonT(60)

\* ipc_mqueue_move: p's messages go to the queue it uses from now on, in order, and
\* receivers there get them.
LEMMA Move ==
  ASSUME SetLaws, NEW S \in States, NEW p \in Ports, NEW P, NEW C, ThreadInv(S, P, C),
         NEW bs \in [Ports -> Nat], NEW sn \in [Ports -> Nat],
         NEW ps \in [Ports -> Psets \cup {Null}], NEW d, QueueInv(S, ps, d, bs, sn), p \notin d,
         NEW s \in Psets \cup {Null}, QOf(ps, p) # QOf([ps EXCEPT ![p] = s], p)
  PROVE  Moved(S, [ps EXCEPT ![p] = s], p, P, C, d, bs, sn,
               ipc_mqueue_move(S, QOf([ps EXCEPT ![p] = s], p), QOf(ps, p), p))
<1>1. PICK ps2 : ps2 = [ps EXCEPT ![p] = s]
  BY ZenonT(60)
<1>2. PICK dest : dest = QOf(ps2, p)
  BY ZenonT(60)
<1>3. PICK source : source = QOf(ps, p)
  BY ZenonT(60)
<1>4. dest \in Queues /\ source \in Queues /\ dest # source
  BY <1>1, <1>2, <1>3, ZenonT(60) DEF QOf, Queues
<1>5. \A r \in Ports \ {p} : QOf(ps2, r) = QOf(ps, r)
  BY <1>1, ZenonT(60) DEF QOf
<1>6. PICK M \in Seq(Message) : M = S.imq_messages[source]
  BY <1>4, ZenonT(60) DEF States
<1>7. PICK f : Loop(S, dest, source, p, M, f) /\ ipc_mqueue_move(S, dest, source, p) = f[Len(M)]
  <2>1. Loops(S, dest, source, p, M)
    BY <1>4, <1>6, MoveLoop, ZenonT(60)
  <2> QED
    BY <2>1, ZenonT(60) DEF Loops
<1>8. Sorted(M)
  BY <1>4, <1>6, ZenonT(60) DEF QueueInv
<1>9. PICK n \in Nat : n = Len(M)
  BY SMTT(60)
<1> DEFINE K == {i \in Nat : i <= n => Moving(S, dest, source, p, P, C, bs, sn, M, i, f[i])}
<1>10. 0 \in K
  <2>1. f[0] = [S EXCEPT !.imq_messages[source] = <<>>]
    BY <1>7, ZenonT(60) DEF Loop
  <2>2. Moving(S, dest, source, p, P, C, bs, sn, M, 0, f[0])
    BY <2>1, <1>3, <1>4, <1>6, MovingStarts, ZenonT(60)
  <2> QED
    BY <2>2, ZenonT(60)
<1>11. ASSUME NEW i \in Nat, i \in K PROVE i + 1 \in K
  <2>1. SUFFICES ASSUME i + 1 <= n PROVE Moving(S, dest, source, p, P, C, bs, sn, M, i + 1, f[i + 1])
    BY SMTT(60)
  <2>2. PICK j \in 1..Len(M) : j = i + 1
    BY <2>1, <1>9, SMTT(60)
  <2>3. j - 1 = i
    BY <2>2, SMTT(60)
  <2>4. Moving(S, dest, source, p, P, C, bs, sn, M, i, f[i])
    BY <2>1, <1>11, SMTT(60)
  <2>5. f[j] = MoveOne(f[j - 1], dest, source, p, M[j])
    BY <1>7, ZenonT(60) DEF Loop
  <2>6. Moving(S, dest, source, p, P, C, bs, sn, M, j, f[j])
    BY <2>3, <2>4, <2>5, <1>4, <1>8, MovingSteps, ZenonT(60)
  <2> QED
    BY <2>2, <2>6, ZenonT(60)
<1>12. n \in K
  BY <1>10, <1>11, NatInduct, ZenonT(60)
<1>13. PICK T : T = f[n]
  BY ZenonT(60)
<1>14. Moving(S, dest, source, p, P, C, bs, sn, M, n, T)
  BY <1>12, <1>13, SMTT(60)
<1> HIDE DEF K
<1>15. MoveFrame(S, dest, source, p, P, C, T)
  BY <1>14, ZenonT(60) DEF Moving
<1>16. PICK L : L = T.imq_messages[source]
  BY ZenonT(60)
<1>17. PICK N : N = T.imq_messages[dest]
  BY ZenonT(60)
<1>18. /\ Sorted(L) /\ PortsIn(L) \subseteq PortsIn(M) \ {p}
       /\ \A r \in Ports \ {p} : Ids(L, r) = Ids(M, r)
  <2>1. MoveFrom(L, M, n, p)
    BY <1>14, <1>16, ZenonT(60) DEF Moving
  <2>2. \A r \in Ports : IdsUpto(M, n, r) = Ids(M, r)
    BY <1>9, IdsEnds, ZenonT(60)
  <2> QED
    BY <2>1, <2>2, ZenonT(60) DEF MoveFrom
<1>19. /\ Sorted(N) /\ PortsIn(N) \subseteq PortsIn(S.imq_messages[dest]) \cup {p}
       /\ \A r \in Ports \ {p} : Ids(N, r) = Ids(S.imq_messages[dest], r)
       /\ N = <<>> \/ T.imq_threads[dest] = <<>>
       /\ bs[p] + T.ip_seqno[p] <= (sn[p] - 1) + 1
       /\ Ids(N, p) = (bs[p] + T.ip_seqno[p])..(sn[p] - 1)
  <2>1. MoveTo(N, S.imq_messages[dest], T.imq_threads[dest], M, n, p, bs[p] + T.ip_seqno[p], sn[p] - 1)
    BY <1>14, <1>17, ZenonT(60) DEF Moving
  <2>2. IdsAfter(M, n, p) = {}
    BY <1>9, IdsEnds, ZenonT(60)
  <2> QED
    BY <2>1, <2>2, ZenonT(60) DEF MoveTo
<1>20. /\ T \in States /\ ThreadInv(T, P, C)
       /\ \A t \in Threads : P[t] # "receive" => T.ith[t] = S.ith[t]
       /\ \A x \in Queues \ {dest} : T.imq_threads[x] = S.imq_threads[x]
       /\ \A x \in Queues \ {dest, source} : T.imq_messages[x] = S.imq_messages[x]
       /\ \A r \in Ports \ {p} : T.ip_seqno[r] = S.ip_seqno[r] /\ HeldBy(T, P, r) = HeldBy(S, P, r)
       /\ Cardinality(HeldBy(T, P, p)) - T.ip_seqno[p] = Cardinality(HeldBy(S, P, p)) - S.ip_seqno[p]
       /\ S.imq_threads[dest] = <<>> => T.imq_threads[dest] = <<>> /\ T.ip_seqno[p] = S.ip_seqno[p]
  BY <1>15, ZenonT(60) DEF MoveFrame
<1>21. /\ \A q \in Queues : \A r \in PortsIn(S.imq_messages[q]) : r \notin d /\ QOf(ps, r) = q
       /\ \A q \in Queues : Sorted(S.imq_messages[q])
       /\ \A q \in Queues : S.imq_messages[q] = <<>> \/ S.imq_threads[q] = <<>>
       /\ \A r \in Ports \ d : Numbered(S, ps, bs, sn, r)
  BY ZenonT(60) DEF QueueInv, Placed, Beside
<1>22. ASSUME NEW q \in Queues, NEW r \in PortsIn(T.imq_messages[q]) PROVE r \notin d /\ QOf(ps2, r) = q
  <2>0. r \in Ports
    <3>1. T.imq_messages[q] \in Seq(Message)
      BY <1>20, ZenonT(60) DEF States
    <3>2. PICK i \in 1..Len(T.imq_messages[q]) : r = T.imq_messages[q][i].port
      BY <1>22, ZenonT(60) DEF PortsIn
    <3>3. T.imq_messages[q][i] \in Message
      BY <3>1, SMTT(60)
    <3> QED
      BY <3>2, <3>3, ZenonT(60) DEF Message
  <2>1. CASE q = source
    BY <2>0, <2>1, <1>5, <1>6, <1>16, <1>18, <1>21, <1>4, ZenonT(60)
  <2>2. CASE q = dest /\ r = p
    BY <2>2, <1>2, ZenonT(60)
  <2>3. CASE q = dest /\ r # p
    BY <2>0, <2>3, <1>5, <1>17, <1>19, <1>21, <1>4, ZenonT(60)
  <2>4. CASE q # source /\ q # dest
    <3>1. r \notin d /\ QOf(ps, r) = q
      BY <2>4, <1>20, <1>21, ZenonT(60)
    <3>2. r # p
      BY <3>1, <2>4, <1>3, ZenonT(60)
    <3> QED
      BY <2>0, <3>1, <3>2, <1>5, ZenonT(60)
  <2> QED
    BY <2>1, <2>2, <2>3, <2>4, ZenonT(60)
<1>23. ASSUME NEW q \in Queues PROVE Sorted(T.imq_messages[q])
  BY <1>16, <1>17, <1>18, <1>19, <1>20, <1>21, ZenonT(60)
<1>24. ASSUME NEW q \in Queues PROVE T.imq_messages[q] = <<>> \/ T.imq_threads[q] = <<>>
  <2>1. CASE q = dest
    BY <2>1, <1>17, <1>19, ZenonT(60)
  <2>2. CASE q = source
    <3>1. CASE M = <<>>
      <4>1. PortsIn(L) = {}
        BY <3>1, <1>18, PortsEmpty, ZenonT(60)
      <4>2. L \in Seq(Message)
        BY <1>4, <1>16, <1>20, ZenonT(60) DEF States
      <4> QED
        BY <4>1, <4>2, <2>2, <1>16, PortsEmpty, ZenonT(60)
    <3>2. CASE M # <<>>
      BY <3>2, <2>2, <1>4, <1>6, <1>20, <1>21, ZenonT(60)
    <3> QED
      BY <3>1, <3>2, ZenonT(60)
  <2>3. CASE q # source /\ q # dest
    BY <2>3, <1>20, <1>21, ZenonT(60)
  <2> QED
    BY <2>1, <2>2, <2>3, ZenonT(60)
<1>25. ASSUME NEW r \in Ports \ d PROVE Numbered(T, ps2, bs, sn, r)
  <2>1. CASE r = p
    <3>1. bs[p] + T.ip_seqno[p] <= sn[p]
      BY <1>19, <1>20, SMTT(60) DEF States
    <3> QED
      BY <2>1, <3>1, <1>2, <1>17, <1>19, ZenonT(60) DEF Numbered, Span
  <2>2. CASE r # p
    <3>1. QOf(ps2, r) = QOf(ps, r) /\ T.ip_seqno[r] = S.ip_seqno[r]
      BY <2>2, <1>5, <1>20, ZenonT(60)
    <3>2. QOf(ps, r) \in Queues
      BY ZenonT(60) DEF QOf, Queues
    <3>3. Ids(T.imq_messages[QOf(ps, r)], r) = Ids(S.imq_messages[QOf(ps, r)], r)
      BY <2>2, <3>2, <1>6, <1>16, <1>17, <1>18, <1>19, <1>20, ZenonT(60)
    <3> QED
      BY <3>1, <3>3, <1>21, ZenonT(60) DEF Numbered
  <2> QED
    BY <2>1, <2>2, ZenonT(60)
<1>26. QueueInv(T, ps2, d, bs, sn)
  BY <1>22, <1>23, <1>24, <1>25, ZenonT(60) DEF QueueInv, Placed, Beside
<1>27. Moved(S, ps2, p, P, C, d, bs, sn, T)
  BY <1>2, <1>20, <1>26, ZenonT(60) DEF Moved
<1>28. T = ipc_mqueue_move(S, dest, source, p)
  BY <1>7, <1>9, <1>13, ZenonT(60)
<1> QED
  BY <1>1, <1>2, <1>3, <1>27, <1>28, ZenonT(60)

\* Threads that are as they were keep the invariant of receivers.
LEMMA Others ==
  ASSUME NEW S, NEW P, NEW C, NEW U, NEW P2, NEW C2, ThreadInv(S, P, C),
         U.imq_threads = S.imq_threads,
         \A x \in Threads : AsWas(S, P, C, U, P2, C2, x)
  PROVE  ThreadInv(U, P2, C2) /\ SameHeld(S, P, U, P2)
<1>1. ASSUME NEW x \in Threads
      PROVE  /\ \A q \in Queues : P2[x] = "receive" /\ C2[x].port = q /\ U.ith[x].state = "RCV_IN_PROGRESS"
                    <=> P[x] = "receive" /\ C[x].port = q /\ S.ith[x].state = "RCV_IN_PROGRESS"
             /\ Holds(U, P2, x) <=> Holds(S, P, x)
             /\ Holds(U, P2, x) => U.ith[x].kmsg = S.ith[x].kmsg
             /\ P2[x] = "receive" => P[x] = "receive" /\ U.ith[x].state = S.ith[x].state
  BY ZenonT(60) DEF AsWas, Holds
<1>2. ThreadInv(U, P2, C2)
  <2>1. Waits(U, P2, C2)
    <3>1. ASSUME NEW x \in Threads, NEW q \in Queues
          PROVE  x \in Range(U.imq_threads[q]) <=>
                   P2[x] = "receive" /\ C2[x].port = q /\ U.ith[x].state = "RCV_IN_PROGRESS"
      <4>1. x \in Range(S.imq_threads[q]) <=>
              P[x] = "receive" /\ C[x].port = q /\ S.ith[x].state = "RCV_IN_PROGRESS"
        BY ZenonT(60) DEF ThreadInv, Waits
      <4> QED
        BY <4>1, <1>1, ZenonT(60)
    <3> QED
      BY <3>1, ZenonT(60) DEF Waits
  <2>2. ASSUME NEW x \in Threads, Holds(U, P2, x) PROVE U.ith[x].kmsg # Null
    <3>1. Holds(S, P, x) /\ U.ith[x].kmsg = S.ith[x].kmsg
      BY <2>2, <1>1, ZenonT(60)
    <3>2. S.ith[x].kmsg # Null
      BY <3>1, ZenonT(60) DEF ThreadInv
    <3> QED
      BY <3>1, <3>2, ZenonT(60)
  <2>3. \A t \in Threads : P2[t] = "receive" => U.ith[t].state \in {"RCV_IN_PROGRESS"} \cup Answers
    BY <1>1, ZenonT(60) DEF ThreadInv
  <2> QED
    BY <2>1, <2>2, <2>3, ZenonT(60) DEF ThreadInv
<1>3. ASSUME NEW p \in Ports PROVE HeldBy(U, P2, p) = HeldBy(S, P, p)
  <2>1. ASSUME NEW x \in Threads PROVE x \in HeldBy(U, P2, p) <=> x \in HeldBy(S, P, p)
    BY <1>1, ZenonT(60) DEF HeldBy
  <2> QED
    BY <2>1, ZenonT(60) DEF HeldBy
<1> QED
  BY <1>2, <1>3, ZenonT(60) DEF SameHeld

\* Queues and numbers stay, and so does what is held.
LEMMA QSame ==
  ASSUME NEW S, NEW P, NEW C, NEW U \in States, NEW P2, NEW C2, NEW ps, NEW d, NEW bs, NEW sn, NEW mc,
         QInv(S, P, C, ps, d, bs, sn, mc),
         U.imq_messages = S.imq_messages, U.imq_threads = S.imq_threads, U.ip_seqno = S.ip_seqno,
         \A x \in Threads : AsWas(S, P, C, U, P2, C2, x)
  PROVE  QInv(U, P2, C2, ps, d, bs, sn, mc)
<1>1. ThreadInv(S, P, C)
  BY ZenonT(60) DEF QInv
<1>2. ThreadInv(U, P2, C2)
  BY <1>1, Others, ZenonT(60)
<1>3. \A p \in Ports : HeldBy(U, P2, p) = HeldBy(S, P, p)
  <2>1. SameHeld(S, P, U, P2)
    BY <1>1, Others, ZenonT(60)
  <2> QED
    BY <2>1, ZenonT(60) DEF SameHeld
<1>4. QueueInv(U, ps, d, bs, sn)
  <2>1. QueueInv(S, ps, d, bs, sn)
    BY ZenonT(60) DEF QInv
  <2>2. Placed(U, ps, d)
    BY <2>1, ZenonT(60) DEF QueueInv, Placed
  <2>3. Beside(U)
    BY <2>1, ZenonT(60) DEF QueueInv, Beside
  <2>4. \A p \in Ports \ d : Numbered(U, ps, bs, sn, p)
    BY <2>1, ZenonT(60) DEF QueueInv, Numbered
  <2> QED
    BY <2>1, <2>2, <2>3, <2>4, ZenonT(60) DEF QueueInv
<1>5. \A p \in Ports \ d : Counted(U, P2, bs, sn, mc, p)
  BY <1>3, ZenonT(60) DEF QInv, Counted
<1> QED
  BY <1>2, <1>4, <1>5, ZenonT(60) DEF QInv

\* A received message is counted out of its port by ipc_mqueue_receive.
LEMMA QDrop ==
  ASSUME SetLaws, NEW S, NEW P, NEW C, NEW U \in States, NEW P2, NEW C2, NEW ps, NEW d, NEW bs, NEW sn, NEW mc,
         QTypes(ps, d, bs, sn, mc), QInv(S, P, C, ps, d, bs, sn, mc),
         U.imq_messages = S.imq_messages, U.imq_threads = S.imq_threads, U.ip_seqno = S.ip_seqno,
         NEW t \in Threads,
         \A x \in Threads \ {t} : AsWas(S, P, C, U, P2, C2, x),
         NEW p \in Ports, CountsOut(S, P, P2, t, p),
         NEW mc2, OneLess(mc, mc2, d, p)
  PROVE  QInv(U, P2, C2, ps, d, bs, sn, mc2)
<1>z. /\ P[t] = "account" /\ P2[t] = "idle" /\ t \in HeldBy(S, P, p)
      /\ p \notin d => mc2[p] = mc[p] - 1
      /\ \A r \in Ports \ {p} : mc2[r] = mc[r]
  BY ZenonT(60) DEF CountsOut, OneLess
<1> USE <1>z
<1>0. ThreadInv(S, P, C) /\ S \in States
  BY ZenonT(60) DEF QInv
<1>1. ASSUME NEW x \in Threads
      PROVE  /\ \A q \in Queues : P2[x] = "receive" /\ C2[x].port = q /\ U.ith[x].state = "RCV_IN_PROGRESS"
                    <=> P[x] = "receive" /\ C[x].port = q /\ S.ith[x].state = "RCV_IN_PROGRESS"
             /\ x # t => (Holds(U, P2, x) <=> Holds(S, P, x))
             /\ x # t => (Holds(U, P2, x) => U.ith[x].kmsg = S.ith[x].kmsg)
             /\ P2[x] = "receive" => P[x] = "receive" /\ U.ith[x].state = S.ith[x].state
  <2>1. CASE x = t
    BY <2>1, ZenonT(60)
  <2>2. CASE x # t
    BY <2>2, ZenonT(60) DEF AsWas, Holds
  <2> QED
    BY <2>1, <2>2, ZenonT(60)
<1>2. ~Holds(U, P2, t) /\ Holds(S, P, t)
  BY ZenonT(60) DEF Holds
<1>3. ThreadInv(U, P2, C2)
  <2>1. Waits(U, P2, C2)
    BY <1>0, <1>1, ZenonT(60) DEF ThreadInv, Waits
  <2>2. ASSUME NEW x \in Threads, Holds(U, P2, x) PROVE U.ith[x].kmsg # Null
    <3>1. Holds(S, P, x) /\ U.ith[x].kmsg = S.ith[x].kmsg
      BY <2>2, <1>1, <1>2, ZenonT(60)
    <3>2. S.ith[x].kmsg # Null
      BY <3>1, <1>0, ZenonT(60) DEF ThreadInv
    <3> QED
      BY <3>1, <3>2, ZenonT(60)
  <2>3. \A x \in Threads : P2[x] = "receive" => U.ith[x].state \in {"RCV_IN_PROGRESS"} \cup Answers
    BY <1>0, <1>1, ZenonT(60) DEF ThreadInv
  <2> QED
    BY <1>0, <2>1, <2>2, <2>3, ZenonT(60) DEF ThreadInv
<1>4. ASSUME NEW r \in Ports PROVE HeldBy(U, P2, r) = HeldBy(S, P, r) \ {t}
  <2>1. ASSUME NEW x \in Threads PROVE x \in HeldBy(U, P2, r) <=> x \in HeldBy(S, P, r) \ {t}
    BY <1>1, <1>2, ZenonT(60) DEF HeldBy
  <2> QED
    BY <2>1, ZenonT(60) DEF HeldBy
<1>5. t \in HeldBy(S, P, p) /\ \A r \in Ports : r # p => t \notin HeldBy(S, P, r)
  BY ZenonT(60) DEF HeldBy
<1>6. QueueInv(U, ps, d, bs, sn)
  <2>1. QueueInv(S, ps, d, bs, sn)
    BY ZenonT(60) DEF QInv
  <2>2. Placed(U, ps, d)
    BY <2>1, ZenonT(60) DEF QueueInv, Placed
  <2>3. Beside(U)
    BY <2>1, ZenonT(60) DEF QueueInv, Beside
  <2>4. \A r \in Ports \ d : Numbered(U, ps, bs, sn, r)
    BY <2>1, ZenonT(60) DEF QueueInv, Numbered
  <2> QED
    BY <2>1, <2>2, <2>3, <2>4, ZenonT(60) DEF QueueInv
<1>7. ASSUME NEW r \in Ports \ d PROVE Counted(U, P2, bs, sn, mc2, r)
  <2>0. Counted(S, P, bs, sn, mc, r)
    BY ZenonT(60) DEF QInv
  <2>1. CASE r = p
    <3>0. PICK H : H = HeldBy(S, P, p)
      BY ZenonT(60)
    <3>a. IsFiniteSet(H) /\ t \in H
      BY <3>0, <1>5, HeldFinite, ZenonT(60)
    <3>b. Cardinality(H \ {t}) = Cardinality(H) - 1
      BY <3>a, RemoveElement, ZenonT(60)
    <3>1. Cardinality(HeldBy(U, P2, p)) = Cardinality(HeldBy(S, P, p)) - 1
      BY <3>0, <3>b, <1>4, ZenonT(60)
    <3>2. mc2[p] = mc[p] - 1 /\ mc[p] \in Int /\ sn[p] \in Nat /\ bs[p] \in Nat /\ S.ip_seqno[p] \in Nat
      BY <2>1, <1>0, ZenonT(60) DEF QTypes, States
    <3>3. Cardinality(HeldBy(S, P, p)) \in Nat
      BY HeldFinite, ZenonT(60)
    <3> QED
      BY <2>0, <2>1, <3>1, <3>2, <3>3, CountSteps, ZenonT(60) DEF Counted
  <2>2. CASE r # p
    <3>1. mc2[r] = mc[r]
      BY <2>2, ZenonT(60)
    <3>2. HeldBy(U, P2, r) = HeldBy(S, P, r)
      <4>1. t \notin HeldBy(S, P, r) /\ HeldBy(U, P2, r) = HeldBy(S, P, r) \ {t}
        BY <2>2, <1>4, <1>5, ZenonT(60)
      <4> QED
        BY <4>1, ZenonT(60)
    <3> QED
      BY <2>0, <3>1, <3>2, ZenonT(60) DEF Counted
  <2> QED
    BY <2>1, <2>2, ZenonT(60)
<1>8. \A r \in Ports : ps[r] # Null => U.imq_threads[r] = <<>>
  BY ZenonT(60) DEF QInv
<1> QED
  BY <1>3, <1>6, <1>7, <1>8, ZenonT(60) DEF QInv

\* Thread t, in no call, takes the first message of queue q.
LEMMA QTake ==
  ASSUME SetLaws, NEW S, NEW P, NEW C, NEW U \in States, NEW P2, NEW C2, NEW ps, NEW d, NEW bs, NEW sn, NEW mc,
         QTypes(ps, d, bs, sn, mc), QInv(S, P, C, ps, d, bs, sn, mc),
         NEW q \in Queues, S.imq_messages[q] # <<>>,
         NEW t \in Threads, P[t] = "idle", P2[t] = "account", Takes(S, q, t, U),
         \A x \in Threads \ {t} : AsWas(S, P, C, U, P2, C2, x)
  PROVE  QInv(U, P2, C2, ps, d, bs, sn, mc)
<1>y. PICK m : m = Head(S.imq_messages[q])
  BY ZenonT(60)
<1>z. /\ U.imq_messages = [S.imq_messages EXCEPT ![q] = Tail(@)]
      /\ U.imq_threads = S.imq_threads
      /\ U.ip_seqno = [S.ip_seqno EXCEPT ![m.port] = @ + 1] /\ U.ith[t].kmsg = m
  BY <1>y, ZenonT(60) DEF Takes
<1> USE <1>y, <1>z
<1>0. ThreadInv(S, P, C) /\ S \in States /\ QueueInv(S, ps, d, bs, sn)
  BY ZenonT(60) DEF QInv
<1>a. S.imq_messages \in [Queues -> Seq(Message)] /\ S.ip_seqno \in [Ports -> Nat]
  BY <1>0, ZenonT(60) DEF States
<1>b. PICK M \in Seq(Message) : M = S.imq_messages[q]
  BY <1>a, ZenonT(60)
<1>c. M # <<>> /\ m = Head(M) /\ m \in Message
  BY <1>b, HeadIn, ZenonT(60)
<1>d. PICK p \in Ports : p = m.port
  BY <1>c, ZenonT(60) DEF Message
<1>e. m # Null
  BY <1>c, IpcAssumption, ZenonT(60) DEF Message
<1>f. /\ p \in PortsIn(M) /\ p \notin d /\ QOf(ps, p) = q /\ Sorted(M)
      /\ PortsIn(Tail(M)) \subseteq PortsIn(M)
  <2>1. p \in PortsIn(M) /\ PortsIn(Tail(M)) \subseteq PortsIn(M)
    BY <1>c, <1>d, PortsTail, ZenonT(60)
  <2> QED
    BY <2>1, <1>0, <1>b, ZenonT(60) DEF QueueInv, Placed
<1>g. /\ U.imq_messages[q] = Tail(M)
      /\ \A x \in Queues : x # q => U.imq_messages[x] = S.imq_messages[x]
      /\ U.ip_seqno[p] = S.ip_seqno[p] + 1
      /\ \A r \in Ports : r # p => U.ip_seqno[r] = S.ip_seqno[r]
  BY <1>a, <1>b, <1>d, ZenonT(60)
<1>1. ASSUME NEW x \in Threads
      PROVE  /\ \A y \in Queues : P2[x] = "receive" /\ C2[x].port = y /\ U.ith[x].state = "RCV_IN_PROGRESS"
                    <=> P[x] = "receive" /\ C[x].port = y /\ S.ith[x].state = "RCV_IN_PROGRESS"
             /\ x # t => (Holds(U, P2, x) <=> Holds(S, P, x))
             /\ x # t => (Holds(U, P2, x) => U.ith[x].kmsg = S.ith[x].kmsg)
             /\ P2[x] = "receive" => P[x] = "receive" /\ U.ith[x].state = S.ith[x].state
  <2>1. CASE x = t
    BY <2>1, ZenonT(60)
  <2>2. CASE x # t
    BY <2>2, ZenonT(60) DEF AsWas, Holds
  <2> QED
    BY <2>1, <2>2, ZenonT(60)
<1>2. Holds(U, P2, t) /\ ~Holds(S, P, t)
  BY ZenonT(60) DEF Holds
<1>3. ThreadInv(U, P2, C2)
  <2>1. Waits(U, P2, C2)
    <3>1. ASSUME NEW x \in Threads, NEW y \in Queues
          PROVE  x \in Range(U.imq_threads[y]) <=>
                   P2[x] = "receive" /\ C2[x].port = y /\ U.ith[x].state = "RCV_IN_PROGRESS"
      <4>1. x \in Range(S.imq_threads[y]) <=>
              P[x] = "receive" /\ C[x].port = y /\ S.ith[x].state = "RCV_IN_PROGRESS"
        BY <1>0, ZenonT(60) DEF ThreadInv, Waits
      <4> QED
        BY <4>1, <1>1, ZenonT(60)
    <3> QED
      BY <3>1, ZenonT(60) DEF Waits
  <2>2. ASSUME NEW x \in Threads, Holds(U, P2, x) PROVE U.ith[x].kmsg # Null
    <3>1. CASE x = t
      BY <3>1, <1>e, ZenonT(60)
    <3>2. CASE x # t
      <4>1. Holds(S, P, x) /\ U.ith[x].kmsg = S.ith[x].kmsg
        BY <2>2, <3>2, <1>1, ZenonT(60)
      <4>2. S.ith[x].kmsg # Null
        BY <4>1, <1>0, ZenonT(60) DEF ThreadInv
      <4> QED
        BY <4>1, <4>2, ZenonT(60)
    <3> QED
      BY <3>1, <3>2, ZenonT(60)
  <2>3. \A x \in Threads : P2[x] = "receive" => U.ith[x].state \in {"RCV_IN_PROGRESS"} \cup Answers
    BY <1>0, <1>1, ZenonT(60) DEF ThreadInv
  <2> QED
    BY <1>0, <2>1, <2>2, <2>3, ZenonT(60) DEF ThreadInv
<1>4. t \in HeldBy(U, P2, p) /\ \A r \in Ports : t \notin HeldBy(S, P, r)
  BY <1>2, <1>d, <1>e, ZenonT(60) DEF HeldBy
<1>5. ASSUME NEW r \in Ports, NEW x \in Threads, x # t
      PROVE  x \in HeldBy(U, P2, r) <=> x \in HeldBy(S, P, r)
  BY <1>1, <1>5, ZenonT(60) DEF HeldBy
<1>6. HeldBy(U, P2, p) = HeldBy(S, P, p) \cup {t}
  <2>1. ASSUME NEW x \in Threads PROVE x \in HeldBy(U, P2, p) <=> x \in HeldBy(S, P, p) \cup {t}
    BY <1>4, <1>5, ZenonT(60)
  <2> QED
    BY <2>1, ZenonT(60) DEF HeldBy
<1>7. ASSUME NEW r \in Ports, r # p PROVE HeldBy(U, P2, r) = HeldBy(S, P, r)
  <2>1. t \notin HeldBy(U, P2, r)
    BY <1>7, <1>d, ZenonT(60) DEF HeldBy
  <2>2. ASSUME NEW x \in Threads PROVE x \in HeldBy(U, P2, r) <=> x \in HeldBy(S, P, r)
    BY <2>1, <1>4, <1>5, ZenonT(60)
  <2> QED
    BY <2>2, ZenonT(60) DEF HeldBy
<1>8. QueueInv(U, ps, d, bs, sn)
  <2>1. Placed(U, ps, d)
    <3>1. ASSUME NEW y \in Queues, NEW r \in PortsIn(U.imq_messages[y]) PROVE r \notin d /\ QOf(ps, r) = y
      <4>1. r \in PortsIn(S.imq_messages[y])
        BY <1>b, <1>f, <1>g, ZenonT(60)
      <4> QED
        BY <4>1, <1>0, ZenonT(60) DEF QueueInv, Placed
    <3> QED
      BY <3>1, ZenonT(60) DEF Placed
  <2>2. \A y \in Queues : Sorted(U.imq_messages[y])
    <3>1. Sorted(Tail(M))
      BY <1>c, <1>f, IdsTail, ZenonT(60)
    <3> QED
      BY <3>1, <1>g, <1>0, ZenonT(60) DEF QueueInv
  <2>3. Beside(U)
    <3>1. ASSUME NEW y \in Queues PROVE U.imq_messages[y] = <<>> \/ U.imq_threads[y] = <<>>
      <4>1. S.imq_messages[y] = <<>> \/ S.imq_threads[y] = <<>>
        BY <1>0, ZenonT(60) DEF QueueInv, Beside
      <4> QED
        BY <4>1, <1>b, <1>c, <1>g, ZenonT(60)
    <3> QED
      BY <3>1, ZenonT(60) DEF Beside
  <2>4. ASSUME NEW r \in Ports \ d PROVE Numbered(U, ps, bs, sn, r)
    <3>0. Numbered(S, ps, bs, sn, r)
      BY <1>0, ZenonT(60) DEF QueueInv
    <3>1. CASE r = p
      <4>1. bs[p] \in Nat /\ S.ip_seqno[p] \in Nat /\ sn[p] \in Nat
        BY <1>a, ZenonT(60) DEF QTypes
      <4>2. PICK I : I = Ids(M, p)
        BY ZenonT(60)
      <4>3. Span(I, bs[p], S.ip_seqno[p], sn[p])
        BY <3>0, <3>1, <4>2, <1>b, <1>f, ZenonT(60) DEF Numbered
      <4>4. /\ Ids(Tail(M), p) = Ids(M, p) \ {m.id}
            /\ m.id \in Ids(M, p)
            /\ \A x \in Ids(M, p) : m.id <= x
        BY <1>c, <1>d, <1>f, IdsTail, ZenonT(60)
      <4>5. Span(I \ {m.id}, bs[p], S.ip_seqno[p] + 1, sn[p])
        BY <4>1, <4>2, <4>3, <4>4, SpanTake, ZenonT(60)
      <4> QED
        BY <4>2, <4>4, <4>5, <3>1, <1>f, <1>g, ZenonT(60) DEF Numbered
    <3>2. CASE r # p
      <4>1. U.ip_seqno[r] = S.ip_seqno[r]
        BY <3>2, <1>g, ZenonT(60)
      <4>2. Ids(U.imq_messages[QOf(ps, r)], r) = Ids(S.imq_messages[QOf(ps, r)], r)
        <5>0. QOf(ps, r) \in Queues
          BY ZenonT(60) DEF QOf, Queues, QTypes
        <5>1. CASE QOf(ps, r) = q
          <6>1. Ids(Tail(M), r) = Ids(M, r)
            BY <3>2, <1>c, <1>d, <1>f, IdsTail, ZenonT(60)
          <6> QED
            BY <6>1, <5>1, <1>b, <1>g, ZenonT(60)
        <5>2. CASE QOf(ps, r) # q
          BY <5>0, <5>2, <1>g, ZenonT(60)
        <5> QED
          BY <5>1, <5>2, ZenonT(60)
      <4> QED
        BY <3>0, <4>1, <4>2, ZenonT(60) DEF Numbered
    <3> QED
      BY <3>1, <3>2, ZenonT(60)
  <2> QED
    BY <2>1, <2>2, <2>3, <2>4, ZenonT(60) DEF QueueInv
<1>9. ASSUME NEW r \in Ports \ d PROVE Counted(U, P2, bs, sn, mc, r)
  <2>0. Counted(S, P, bs, sn, mc, r)
    BY ZenonT(60) DEF QInv
  <2>1. CASE r = p
    <3>0. PICK H : H = HeldBy(S, P, p)
      BY ZenonT(60)
    <3>1. IsFiniteSet(H) /\ t \notin H /\ Cardinality(H) \in Nat
      BY <3>0, <1>4, HeldFinite, ZenonT(60)
    <3>2. Cardinality(H \cup {t}) = Cardinality(H) + 1
      BY <3>1, AddElement, ZenonT(60)
    <3>3. Cardinality(HeldBy(U, P2, p)) = Cardinality(HeldBy(S, P, p)) + 1
      BY <3>0, <3>2, <1>6, ZenonT(60)
    <3>4. mc[p] \in Int /\ sn[p] \in Nat /\ bs[p] \in Nat /\ S.ip_seqno[p] \in Nat
      BY <1>a, ZenonT(60) DEF QTypes
    <3>5. Count(mc[p], bs[p], S.ip_seqno[p], sn[p], Cardinality(H))
      BY <2>0, <2>1, <3>0, ZenonT(60) DEF Counted
    <3>6. Count(mc[p], bs[p], S.ip_seqno[p] + 1, sn[p], Cardinality(H) + 1)
      BY <3>1, <3>4, <3>5, CountSteps, ZenonT(60)
    <3> QED
      BY <2>1, <3>0, <3>3, <3>6, <1>g, ZenonT(60) DEF Counted
  <2>2. CASE r # p
    BY <2>0, <2>2, <1>7, <1>g, ZenonT(60) DEF Counted
  <2> QED
    BY <2>1, <2>2, ZenonT(60)
<1>10. \A r \in Ports : ps[r] # Null => U.imq_threads[r] = <<>>
  BY ZenonT(60) DEF QInv
<1> QED
  BY <1>3, <1>8, <1>9, <1>10, ZenonT(60) DEF QInv

\* What a thread at the end of a queue of waiting threads changes.
LEMMA AppendIs ==
  ASSUME NEW R \in Seq(Threads), NEW t \in Threads, IsInjective(R), t \notin Range(R)
  PROVE  /\ \A x : x \in Range(Append(R, t)) <=> x \in Range(R) \cup {t}
         /\ IsInjective(Append(R, t))
<1>2. PICK A : A = Append(R, t)
  BY ZenonT(60)
<1>3. /\ DOMAIN A = 1..(Len(R) + 1) /\ DOMAIN R = 1..Len(R) /\ Len(R) \in Nat
      /\ A[Len(R) + 1] = t /\ \A i \in 1..Len(R) : A[i] = R[i]
  BY <1>2, SMTT(60)
<1>4. ASSUME NEW x PROVE x \in Range(A) <=> x \in Range(R) \cup {t}
  BY <1>3, SMTT(60) DEF Range
<1>5. \A i \in 1..Len(R) : R[i] # t
  BY <1>3, ZenonT(60) DEF Range
<1>6. ASSUME NEW i \in DOMAIN A, NEW j \in DOMAIN A, A[i] = A[j] PROVE i = j
  <2>1. CASE i \in 1..Len(R) /\ j \in 1..Len(R)
    BY <2>1, <1>3, <1>6, SMTT(60) DEF IsInjective
  <2>2. CASE i = Len(R) + 1 \/ j = Len(R) + 1
    BY <2>2, <1>3, <1>5, <1>6, SMTT(60)
  <2> QED
    BY <2>1, <2>2, <1>3, SMTT(60)
<1>7. IsInjective(A)
  BY <1>6, ZenonT(60) DEF IsInjective
<1> QED
  BY <1>2, <1>4, <1>7, ZenonT(60)

\* Thread t, in no call, waits on queue q, which has no messages.
LEMMA QWait ==
  ASSUME NEW S, NEW P, NEW C, NEW U \in States, NEW P2, NEW C2, NEW ps, NEW d, NEW bs, NEW sn, NEW mc,
         QInv(S, P, C, ps, d, bs, sn, mc),
         NEW q \in Queues, S.imq_messages[q] = <<>>, q \in Ports => ps[q] = Null,
         NEW t \in Threads, P[t] = "idle", P2[t] = "receive", C2[t].port = q,
         U.ith[t].state = "RCV_IN_PROGRESS",
         U.imq_messages = S.imq_messages, U.ip_seqno = S.ip_seqno,
         U.imq_threads = [S.imq_threads EXCEPT ![q] = Append(@, t)],
         \A x \in Threads \ {t} : AsWas(S, P, C, U, P2, C2, x)
  PROVE  QInv(U, P2, C2, ps, d, bs, sn, mc)
<1>0. ThreadInv(S, P, C) /\ S \in States /\ QueueInv(S, ps, d, bs, sn)
  BY ZenonT(60) DEF QInv
<1>a. PICK R \in Seq(Threads) : R = S.imq_threads[q]
  BY <1>0, ZenonT(60) DEF States
<1>b. /\ U.imq_threads[q] = Append(R, t)
      /\ \A x \in Queues : x # q => U.imq_threads[x] = S.imq_threads[x]
  <2>1. S.imq_threads \in [Queues -> Seq(Threads)]
    BY <1>0, ZenonT(60) DEF States
  <2> QED
    BY <2>1, <1>a, ZenonT(60)
<1>c. \A y \in Queues : t \notin Range(S.imq_threads[y])
  BY <1>0, ZenonT(60) DEF ThreadInv, Waits
<1>d. /\ \A x : x \in Range(Append(R, t)) <=> x \in Range(R) \cup {t}
      /\ IsInjective(R) /\ t \notin Range(R)
      /\ IsInjective(Append(R, t))
  <2>1. IsInjective(R) /\ t \notin Range(R)
    BY <1>0, <1>a, <1>c, ZenonT(60) DEF ThreadInv
  <2> QED
    BY <2>1, AppendIs, ZenonT(60)
<1>1. ASSUME NEW x \in Threads, x # t
      PROVE  /\ \A y \in Queues : P2[x] = "receive" /\ C2[x].port = y /\ U.ith[x].state = "RCV_IN_PROGRESS"
                    <=> P[x] = "receive" /\ C[x].port = y /\ S.ith[x].state = "RCV_IN_PROGRESS"
             /\ Holds(U, P2, x) <=> Holds(S, P, x)
             /\ Holds(U, P2, x) => U.ith[x].kmsg = S.ith[x].kmsg
             /\ P2[x] = "receive" => P[x] = "receive" /\ U.ith[x].state = S.ith[x].state
  BY <1>1, ZenonT(60) DEF AsWas, Holds
<1>2. ~Holds(U, P2, t) /\ ~Holds(S, P, t)
  BY ZenonT(60) DEF Holds
<1>3. ThreadInv(U, P2, C2)
  <2>1. Waits(U, P2, C2)
    <3>1. ASSUME NEW x \in Threads, NEW y \in Queues
          PROVE  x \in Range(U.imq_threads[y]) <=>
                   P2[x] = "receive" /\ C2[x].port = y /\ U.ith[x].state = "RCV_IN_PROGRESS"
      <4>1. x \in Range(S.imq_threads[y]) <=>
              P[x] = "receive" /\ C[x].port = y /\ S.ith[x].state = "RCV_IN_PROGRESS"
        BY <1>0, ZenonT(60) DEF ThreadInv, Waits
      <4>2. CASE x # t /\ y # q
        BY <4>1, <4>2, <1>1, <1>b, ZenonT(60)
      <4>3. CASE x # t /\ y = q
        <5>1. x \in Range(U.imq_threads[y]) <=> x \in Range(S.imq_threads[y])
          BY <4>3, <1>a, <1>b, <1>d, ZenonT(60)
        <5> QED
          BY <5>1, <4>1, <4>3, <1>1, ZenonT(60)
      <4>4. CASE x = t /\ y # q
        BY <4>4, <1>b, <1>c, ZenonT(60)
      <4>5. CASE x = t /\ y = q
        <5>1. x \in Range(U.imq_threads[y])
          BY <4>5, <1>b, <1>d, ZenonT(60)
        <5> QED
          BY <5>1, <4>5, ZenonT(60)
      <4> QED
        BY <4>2, <4>3, <4>4, <4>5, ZenonT(60)
    <3> QED
      BY <3>1, ZenonT(60) DEF Waits
  <2>2. ASSUME NEW x \in Threads, Holds(U, P2, x) PROVE U.ith[x].kmsg # Null
    <3>1. Holds(S, P, x) /\ U.ith[x].kmsg = S.ith[x].kmsg
      BY <2>2, <1>1, <1>2, ZenonT(60)
    <3>2. S.ith[x].kmsg # Null
      BY <3>1, <1>0, ZenonT(60) DEF ThreadInv
    <3> QED
      BY <3>1, <3>2, ZenonT(60)
  <2>3. ASSUME NEW x \in Threads, P2[x] = "receive" PROVE U.ith[x].state \in {"RCV_IN_PROGRESS"} \cup Answers
    <3>1. CASE x = t
      BY <3>1, ZenonT(60)
    <3>2. CASE x # t
      BY <3>2, <2>3, <1>0, <1>1, ZenonT(60) DEF ThreadInv
    <3> QED
      BY <3>1, <3>2, ZenonT(60)
  <2>4. \A y \in Queues : IsInjective(U.imq_threads[y])
    BY <1>0, <1>b, <1>d, ZenonT(60) DEF ThreadInv
  <2> QED
    BY <2>1, <2>2, <2>3, <2>4, ZenonT(60) DEF ThreadInv
<1>4. ASSUME NEW r \in Ports PROVE HeldBy(U, P2, r) = HeldBy(S, P, r)
  <2>1. ASSUME NEW x \in Threads PROVE x \in HeldBy(U, P2, r) <=> x \in HeldBy(S, P, r)
    BY <1>1, <1>2, ZenonT(60) DEF HeldBy
  <2> QED
    BY <2>1, ZenonT(60) DEF HeldBy
<1>5. QueueInv(U, ps, d, bs, sn)
  <2>2. Placed(U, ps, d)
    BY <1>0, ZenonT(60) DEF QueueInv, Placed
  <2>3. Beside(U)
    BY <1>0, <1>b, ZenonT(60) DEF QueueInv, Beside
  <2>4. \A p \in Ports \ d : Numbered(U, ps, bs, sn, p)
    BY <1>0, ZenonT(60) DEF QueueInv, Numbered
  <2> QED
    BY <1>0, <2>2, <2>3, <2>4, ZenonT(60) DEF QueueInv
<1>6. \A p \in Ports \ d : Counted(U, P2, bs, sn, mc, p)
  BY <1>4, ZenonT(60) DEF QInv, Counted
<1>7. ASSUME NEW p \in Ports, ps[p] # Null PROVE U.imq_threads[p] = <<>>
  <2>1. p # q /\ p \in Queues
    BY <1>7, ZenonT(60) DEF Queues
  <2>2. S.imq_threads[p] = <<>>
    BY <1>7, ZenonT(60) DEF QInv
  <2> QED
    BY <2>1, <2>2, <1>b, ZenonT(60)
<1> QED
  BY <1>3, <1>5, <1>6, <1>7, ZenonT(60) DEF QInv

\* ipc_thread_rmqueue takes one thread off a queue.
LEMMA Rmqueue ==
  ASSUME NEW s \in Seq(Threads), IsInjective(s), NEW t \in Threads
  PROVE  Removed(s, t, ipc_thread_rmqueue(s, t))
<1>1. DOMAIN s = 1..Len(s) /\ Len(s) \in Nat
  BY SMTT(60)
<1>2. CASE t \notin Range(s)
  BY <1>2, ZenonT(60) DEF ipc_thread_rmqueue, Removed
<1>3. CASE t \in Range(s)
  <2>1. PICK k : k = CHOOSE j \in DOMAIN s : s[j] = t
    BY ZenonT(60)
  <2>2. \E j \in DOMAIN s : s[j] = t
    BY <1>3, ZenonT(60) DEF Range
  <2>3. k \in DOMAIN s /\ s[k] = t
    BY <2>1, <2>2, ZenonT(60)
  <2>4. PICK u : u = SubSeq(s, 1, k - 1) \o SubSeq(s, k + 1, Len(s))
    BY ZenonT(60)
  <2>5. ipc_thread_rmqueue(s, t) = u
    BY <2>1, <2>4, <1>3, ZenonT(60) DEF ipc_thread_rmqueue
  <2>6. k \in 1..Len(s)
    BY <2>3, <1>1, ZenonT(60)
  <2>7. PICK a : a = SubSeq(s, 1, k - 1)
    BY ZenonT(60)
  <2>8. PICK b : b = SubSeq(s, k + 1, Len(s))
    BY ZenonT(60)
  <2>9. a \in Seq(Threads) /\ Len(a) = k - 1 /\ \A i \in 1..(k - 1) : a[i] = s[i]
    BY <2>6, <2>7, <1>1, SMTT(60)
  <2>10. b \in Seq(Threads) /\ Len(b) = Len(s) - k /\ \A i \in 1..Len(b) : b[i] = s[i + k]
    <3>1. k \in Nat /\ k <= Len(s) /\ k + 1 \in Nat
      BY <2>6, <1>1, SMTT(60)
    <3> QED
      BY <3>1, <2>8, SMTT(60)
  <2>a. u = a \o b
    BY <2>4, <2>7, <2>8, ZenonT(60)
  <2>b. a \in Seq(Threads) /\ b \in Seq(Threads)
    BY <2>9, <2>10, ZenonT(60)
  <2>c. /\ u \in Seq(Threads) /\ Len(u) = Len(a) + Len(b)
        /\ \A i \in 1..Len(a) : u[i] = a[i]
        /\ \A i \in 1..Len(b) : u[Len(a) + i] = b[i]
    BY <2>a, <2>b, SMTT(60)
  <2>11. u \in Seq(Threads) /\ Len(u) = Len(s) - 1
    BY <2>c, <2>9, <2>10, <2>6, <1>1, SMTT(60)
  <2>12. \A i \in 1..(k - 1) : u[i] = s[i]
    BY <2>c, <2>9, ZenonT(60)
  <2>13. \A i \in k..(Len(s) - 1) : u[i] = s[i + 1]
    <3> TAKE i \in k..(Len(s) - 1)
    <3>1. i - (k - 1) \in 1..Len(b) /\ Len(a) + (i - (k - 1)) = i /\ (i - (k - 1)) + k = i + 1
      BY <2>6, <2>9, <2>10, <1>1, SMTT(60)
    <3>2. u[Len(a) + (i - (k - 1))] = b[i - (k - 1)] /\ b[i - (k - 1)] = s[(i - (k - 1)) + k]
      BY <3>1, <2>c, <2>10, ZenonT(60)
    <3> QED
      BY <3>1, <3>2, ZenonT(60)
  <2>14. \A i, j \in 1..Len(s) : s[i] = s[j] => i = j
    BY <1>1, ZenonT(60) DEF IsInjective
  <2>15. DOMAIN u = 1..(Len(s) - 1)
    BY <2>11, SMTT(60)
  <2>16. ASSUME NEW i \in DOMAIN u, NEW j \in DOMAIN u, u[i] = u[j] PROVE i = j
    BY <2>16, <2>15, <2>12, <2>13, <2>14, <2>6, <1>1, SMTT(60)
  <2>17. ASSUME NEW x \in Threads, x \in Range(u) PROVE x \in Range(s) /\ x # t
    <3>1. PICK i \in DOMAIN u : x = u[i]
      BY <2>17, ZenonT(60) DEF Range
    <3>2. PICK j \in 1..Len(s) : x = s[j] /\ j # k
      BY <3>1, <2>12, <2>13, <2>15, <2>6, <1>1, SMTT(60)
    <3> QED
      BY <3>2, <2>14, <2>3, <2>6, <1>1, ZenonT(60) DEF Range
  <2>18. ASSUME NEW x \in Threads, x \in Range(s), x # t PROVE x \in Range(u)
    <3>1. PICK j \in 1..Len(s) : x = s[j]
      BY <2>18, <1>1, ZenonT(60) DEF Range
    <3>2. j # k
      BY <3>1, <2>18, <2>3, ZenonT(60)
    <3>3. CASE j < k
      <4>1. j \in DOMAIN u /\ x = u[j]
        BY <3>1, <3>3, <2>12, <2>15, <2>6, <1>1, SMTT(60)
      <4> QED
        BY <4>1, ZenonT(60) DEF Range
    <3>4. CASE j > k
      <4>1. j - 1 \in k..(Len(s) - 1) /\ (j - 1) + 1 = j
        BY <3>4, <2>6, <1>1, SMTT(60)
      <4>2. j - 1 \in DOMAIN u /\ x = u[j - 1]
        BY <3>1, <4>1, <2>13, <2>15, <2>6, <1>1, SMTT(60)
      <4> QED
        BY <4>2, ZenonT(60) DEF Range
    <3> QED
      BY <3>2, <3>3, <3>4, <2>6, SMTT(60)
  <2>19. s # <<>>
    BY <2>6, SMTT(60)
  <2>20. IsInjective(u)
    BY <2>16, ZenonT(60) DEF IsInjective
  <2>21. Removed(s, t, u)
    BY <2>11, <2>17, <2>18, <2>19, <2>20, ZenonT(60) DEF Removed
  <2> QED
    BY <2>5, <2>21, ZenonT(60)
<1> QED
  BY <1>2, <1>3, ZenonT(60)

\* Thread t, which waited on queue q, is taken off it.
LEMMA QOff ==
  ASSUME NEW S, NEW P, NEW C, NEW U \in States, NEW P2, NEW C2, NEW ps, NEW d, NEW bs, NEW sn, NEW mc,
         QInv(S, P, C, ps, d, bs, sn, mc),
         NEW q \in Queues, NEW t \in Threads, NEW u, Removed(S.imq_threads[q], t, u),
         WaitsAt(S, P, C, t, q), P2[t] # "receive", P2[t] # "account", TakenOff(S, q, u, U),
         \A x \in Threads \ {t} : AsWas(S, P, C, U, P2, C2, x)
  PROVE  QInv(U, P2, C2, ps, d, bs, sn, mc)
<1>z. /\ P[t] = "receive" /\ C[t].port = q /\ S.ith[t].state = "RCV_IN_PROGRESS"
      /\ U.imq_messages = S.imq_messages /\ U.ip_seqno = S.ip_seqno
      /\ U.imq_threads = [S.imq_threads EXCEPT ![q] = u]
  BY ZenonT(60) DEF WaitsAt, TakenOff
<1> USE <1>z
<1>0. ThreadInv(S, P, C) /\ S \in States /\ QueueInv(S, ps, d, bs, sn)
  BY ZenonT(60) DEF QInv
<1>b. /\ U.imq_threads[q] = u
      /\ \A x \in Queues : x # q => U.imq_threads[x] = S.imq_threads[x]
  <2>1. S.imq_threads \in [Queues -> Seq(Threads)]
    BY <1>0, ZenonT(60) DEF States
  <2> QED
    BY <2>1, ZenonT(60)
<1>c. \A y \in Queues : t \in Range(S.imq_threads[y]) => y = q
  BY <1>0, ZenonT(60) DEF ThreadInv, Waits
<1>d. /\ IsInjective(u)
      /\ \A x \in Threads : x \in Range(u) <=> x \in Range(S.imq_threads[q]) /\ x # t
      /\ S.imq_threads[q] = <<>> => u = <<>>
  BY ZenonT(60) DEF Removed
<1>1. ASSUME NEW x \in Threads, x # t
      PROVE  /\ \A y \in Queues : P2[x] = "receive" /\ C2[x].port = y /\ U.ith[x].state = "RCV_IN_PROGRESS"
                    <=> P[x] = "receive" /\ C[x].port = y /\ S.ith[x].state = "RCV_IN_PROGRESS"
             /\ Holds(U, P2, x) <=> Holds(S, P, x)
             /\ Holds(U, P2, x) => U.ith[x].kmsg = S.ith[x].kmsg
             /\ P2[x] = "receive" => P[x] = "receive" /\ U.ith[x].state = S.ith[x].state
  BY <1>1, ZenonT(60) DEF AsWas, Holds
<1>2. ~Holds(U, P2, t) /\ ~Holds(S, P, t)
  BY ZenonT(60) DEF Holds
<1>3. ThreadInv(U, P2, C2)
  <2>1. Waits(U, P2, C2)
    <3>1. ASSUME NEW x \in Threads, NEW y \in Queues
          PROVE  x \in Range(U.imq_threads[y]) <=>
                   P2[x] = "receive" /\ C2[x].port = y /\ U.ith[x].state = "RCV_IN_PROGRESS"
      <4>1. x \in Range(S.imq_threads[y]) <=>
              P[x] = "receive" /\ C[x].port = y /\ S.ith[x].state = "RCV_IN_PROGRESS"
        BY <1>0, ZenonT(60) DEF ThreadInv, Waits
      <4>2. CASE x # t /\ y # q
        BY <4>1, <4>2, <1>1, <1>b, ZenonT(60)
      <4>3. CASE x # t /\ y = q
        <5>1. x \in Range(U.imq_threads[y]) <=> x \in Range(S.imq_threads[y])
          BY <4>3, <1>b, <1>d, ZenonT(60)
        <5> QED
          BY <5>1, <4>1, <4>3, <1>1, ZenonT(60)
      <4>4. CASE x = t /\ y # q
        BY <4>4, <1>b, <1>c, ZenonT(60)
      <4>5. CASE x = t /\ y = q
        BY <4>5, <1>b, <1>d, ZenonT(60)
      <4> QED
        BY <4>2, <4>3, <4>4, <4>5, ZenonT(60)
    <3> QED
      BY <3>1, ZenonT(60) DEF Waits
  <2>2. ASSUME NEW x \in Threads, Holds(U, P2, x) PROVE U.ith[x].kmsg # Null
    <3>1. Holds(S, P, x) /\ U.ith[x].kmsg = S.ith[x].kmsg
      BY <2>2, <1>1, <1>2, ZenonT(60)
    <3>2. S.ith[x].kmsg # Null
      BY <3>1, <1>0, ZenonT(60) DEF ThreadInv
    <3> QED
      BY <3>1, <3>2, ZenonT(60)
  <2>3. ASSUME NEW x \in Threads, P2[x] = "receive" PROVE U.ith[x].state \in {"RCV_IN_PROGRESS"} \cup Answers
    <3>1. x # t
      BY <2>3, ZenonT(60)
    <3> QED
      BY <3>1, <2>3, <1>0, <1>1, ZenonT(60) DEF ThreadInv
  <2>4. \A y \in Queues : IsInjective(U.imq_threads[y])
    BY <1>0, <1>b, <1>d, ZenonT(60) DEF ThreadInv
  <2> QED
    BY <2>1, <2>2, <2>3, <2>4, ZenonT(60) DEF ThreadInv
<1>4. ASSUME NEW r \in Ports PROVE HeldBy(U, P2, r) = HeldBy(S, P, r)
  <2>1. ASSUME NEW x \in Threads PROVE x \in HeldBy(U, P2, r) <=> x \in HeldBy(S, P, r)
    BY <1>1, <1>2, ZenonT(60) DEF HeldBy
  <2> QED
    BY <2>1, ZenonT(60) DEF HeldBy
<1>5. QueueInv(U, ps, d, bs, sn)
  <2>2. Placed(U, ps, d)
    BY <1>0, ZenonT(60) DEF QueueInv, Placed
  <2>3. Beside(U)
    BY <1>0, <1>b, <1>d, ZenonT(60) DEF QueueInv, Beside
  <2>4. \A p \in Ports \ d : Numbered(U, ps, bs, sn, p)
    BY <1>0, ZenonT(60) DEF QueueInv, Numbered
  <2> QED
    BY <1>0, <2>2, <2>3, <2>4, ZenonT(60) DEF QueueInv
<1>6. \A p \in Ports \ d : Counted(U, P2, bs, sn, mc, p)
  BY <1>4, ZenonT(60) DEF QInv, Counted
<1>7. ASSUME NEW p \in Ports, ps[p] # Null PROVE U.imq_threads[p] = <<>>
  <2>1. p \in Queues
    BY ZenonT(60) DEF Queues
  <2>2. S.imq_threads[p] = <<>>
    BY <1>7, ZenonT(60) DEF QInv
  <2> QED
    BY <2>1, <2>2, <1>b, <1>d, ZenonT(60)
<1> QED
  BY <1>3, <1>5, <1>6, <1>7, ZenonT(60) DEF QInv

\* The next message of p, which is alive, is placed in the queue p uses.
LEMMA QDeliver ==
  ASSUME SetLaws, NEW S, NEW P, NEW C, NEW ps, NEW d, NEW bs, NEW sn, NEW mc,
         QTypes(ps, d, bs, sn, mc), QInv(S, P, C, ps, d, bs, sn, mc),
         NEW p \in Ports, p \notin d, NEW m \in Message, NextOf(m, p, sn),
         NEW T, Delivered(S, QOf(ps, p), m, P, C, T),
         NEW sn2, NEW mc2, OneMore(sn, sn2, p), OneMore(mc, mc2, p)
  PROVE  QInv(T, P, C, ps, d, bs, sn2, mc2)
<1>z. /\ m.port = p /\ m.id = sn[p] /\ sn2[p] = sn[p] + 1 /\ mc2[p] = mc[p] + 1
      /\ \A r \in Ports \ {p} : sn2[r] = sn[r] /\ mc2[r] = mc[r]
  BY ZenonT(60) DEF NextOf, OneMore
<1> USE <1>z
<1>0. ThreadInv(S, P, C) /\ S \in States /\ QueueInv(S, ps, d, bs, sn)
  BY ZenonT(60) DEF QInv
<1>a. S.imq_messages \in [Queues -> Seq(Message)] /\ S.ip_seqno \in [Ports -> Nat]
  BY <1>0, ZenonT(60) DEF States
<1>b. PICK q \in Queues : q = QOf(ps, p)
  BY ZenonT(60) DEF QOf, Queues, QTypes
<1>c. PICK M \in Seq(Message) : M = S.imq_messages[q]
  BY <1>a, ZenonT(60)
<1>d. bs[p] \in Nat /\ S.ip_seqno[p] \in Nat /\ sn[p] \in Nat /\ mc[p] \in Int
  BY <1>a, ZenonT(60) DEF QTypes
<1>e. PICK I : I = Ids(M, p)
  BY ZenonT(60)
<1>f. Span(I, bs[p], S.ip_seqno[p], sn[p])
  BY <1>0, <1>b, <1>c, <1>e, ZenonT(60) DEF QueueInv, Numbered
<1>g. PICK h \in Nat : h = Cardinality(HeldBy(S, P, p))
  BY HeldFinite, ZenonT(60)
<1>h. Count(mc[p], bs[p], S.ip_seqno[p], sn[p], h)
  BY <1>g, ZenonT(60) DEF QInv, Counted
<1>i. /\ T \in States /\ ThreadInv(T, P, C)
      /\ \A x \in Queues \ {q} : T.imq_threads[x] = S.imq_threads[x]
  BY <1>b, ZenonT(60) DEF Delivered
<1>j. ASSUME NEW r \in Ports, ps[r] # Null PROVE T.imq_threads[r] = <<>>
  <2>1. r \in Queues \ {q}
    BY <1>j, <1>b, IpcAssumption, ZenonT(60) DEF QOf, Queues, QTypes
  <2>2. S.imq_threads[r] = <<>>
    BY <1>j, ZenonT(60) DEF QInv
  <2> QED
    BY <2>1, <2>2, <1>i, ZenonT(60)
<1>k. ASSUME NEW r \in Ports, r # p PROVE HeldBy(T, P, r) = HeldBy(S, P, r) /\ T.ip_seqno[r] = S.ip_seqno[r]
  <2>1. HeldBy(T, P, r) = HeldBy(S, P, r)
    BY <1>k, ZenonT(60) DEF Delivered
  <2>2. CASE T.ip_seqno = S.ip_seqno
    BY <2>1, <2>2, ZenonT(60)
  <2>3. CASE T.ip_seqno = [S.ip_seqno EXCEPT ![m.port] = @ + 1]
    BY <2>1, <2>3, <1>k, <1>a, ZenonT(60)
  <2> QED
    BY <2>2, <2>3, ZenonT(60) DEF Delivered
<1>1. CASE /\ T.imq_messages = [S.imq_messages EXCEPT ![q] = Append(@, m)]
           /\ T.imq_threads[q] = <<>>
           /\ T.ip_seqno = S.ip_seqno
           /\ \A r \in Ports : HeldBy(T, P, r) = HeldBy(S, P, r)
  <2>1. T.imq_messages[q] = Append(M, m) /\ \A x \in Queues : x # q => T.imq_messages[x] = S.imq_messages[x]
    BY <1>1, <1>a, <1>c, ZenonT(60)
  <2>2. \A x \in I : x < sn[p]
    BY <1>d, <1>f, SpanAdd, ZenonT(60)
  <2>3. Span(I \cup {sn[p]}, bs[p], S.ip_seqno[p], sn[p] + 1)
    BY <1>d, <1>f, SpanAdd, ZenonT(60)
  <2>4. Placed(T, ps, d)
    <3>1. PortsIn(Append(M, m)) = PortsIn(M) \cup {p}
      BY PortsAppend, ZenonT(60)
    <3>2. ASSUME NEW x \in Queues, NEW r \in PortsIn(T.imq_messages[x]) PROVE r \notin d /\ QOf(ps, r) = x
      <4>1. r \in PortsIn(S.imq_messages[x]) \/ (r = p /\ x = q)
        <5>1. CASE x = q
          <6>1. r \in PortsIn(M) \cup {p}
            BY <5>1, <3>1, <3>2, <2>1, ZenonT(60)
          <6> QED
            BY <5>1, <6>1, <1>c, ZenonT(60)
        <5>2. CASE x # q
          BY <5>2, <3>2, <2>1, ZenonT(60)
        <5> QED
          BY <5>1, <5>2, ZenonT(60)
      <4>2. CASE r \in PortsIn(S.imq_messages[x])
        BY <4>2, <1>0, ZenonT(60) DEF QueueInv, Placed
      <4> QED
        BY <4>1, <4>2, <1>b, ZenonT(60)
    <3> QED
      BY <3>2, ZenonT(60) DEF Placed
  <2>5. \A x \in Queues : Sorted(T.imq_messages[x])
    <3>1. Sorted(M)
      BY <1>0, <1>c, ZenonT(60) DEF QueueInv
    <3>2. \A x \in Ids(M, m.port) : x < m.id
      BY <2>2, <1>e, ZenonT(60)
    <3>3. Sorted(Append(M, m))
      BY <3>1, <3>2, SortedAppend, ZenonT(60)
    <3> QED
      BY <3>3, <2>1, <1>0, ZenonT(60) DEF QueueInv
  <2>6. Beside(T)
    <3>1. ASSUME NEW x \in Queues PROVE T.imq_messages[x] = <<>> \/ T.imq_threads[x] = <<>>
      <4>1. CASE x = q
        BY <4>1, <1>1, ZenonT(60)
      <4>2. CASE x # q
        <5>1. S.imq_messages[x] = <<>> \/ S.imq_threads[x] = <<>>
          BY <1>0, ZenonT(60) DEF QueueInv, Beside
        <5> QED
          BY <5>1, <4>2, <2>1, <1>i, ZenonT(60)
      <4> QED
        BY <4>1, <4>2, ZenonT(60)
    <3> QED
      BY <3>1, ZenonT(60) DEF Beside
  <2>7. ASSUME NEW r \in Ports \ d PROVE Numbered(T, ps, bs, sn2, r)
    <3>1. CASE r = p
      <4>1. Ids(Append(M, m), p) = Ids(M, p) \cup {m.id}
        BY IdsAppend, ZenonT(60)
      <4> QED
        BY <4>1, <3>1, <2>1, <2>3, <1>1, <1>b, <1>e, ZenonT(60) DEF Numbered
    <3>2. CASE r # p
      <4>0. QOf(ps, r) \in Queues
        BY ZenonT(60) DEF QOf, Queues, QTypes
      <4>1. Ids(Append(M, m), r) = Ids(M, r)
        BY <3>2, IdsAppend, ZenonT(60)
      <4>2. Ids(T.imq_messages[QOf(ps, r)], r) = Ids(S.imq_messages[QOf(ps, r)], r)
        BY <4>0, <4>1, <2>1, <1>c, ZenonT(60)
      <4>3. Numbered(S, ps, bs, sn, r)
        BY <1>0, ZenonT(60) DEF QueueInv
      <4> QED
        BY <4>2, <4>3, <3>2, <1>1, ZenonT(60) DEF Numbered
    <3> QED
      BY <3>1, <3>2, ZenonT(60)
  <2>8. ASSUME NEW r \in Ports \ d PROVE Counted(T, P, bs, sn2, mc2, r)
    <3>1. CASE r = p
      <4>1. Count(mc[p] + 1, bs[p], S.ip_seqno[p], sn[p] + 1, h)
        BY <1>d, <1>h, CountSteps, ZenonT(60)
      <4> QED
        BY <4>1, <3>1, <1>1, <1>g, ZenonT(60) DEF Counted
    <3>2. CASE r # p
      BY <3>2, <1>k, ZenonT(60) DEF Counted, QInv
    <3> QED
      BY <3>1, <3>2, ZenonT(60)
  <2>9. QueueInv(T, ps, d, bs, sn2)
    BY <2>4, <2>5, <2>6, <2>7, ZenonT(60) DEF QueueInv
  <2> QED
    BY <2>8, <2>9, <1>i, <1>j, ZenonT(60) DEF QInv
<1>2. ASSUME NEW t, t \notin HeldBy(S, P, p), S.imq_threads[q] # <<>>,
             T.imq_messages = S.imq_messages,
             T.ip_seqno = [S.ip_seqno EXCEPT ![m.port] = @ + 1],
             HeldBy(T, P, p) = HeldBy(S, P, p) \cup {t}
      PROVE  QInv(T, P, C, ps, d, bs, sn2, mc2)
  <2>1. M = <<>> /\ I = {}
    <3>1. M = <<>>
      BY <1>0, <1>2, <1>c, ZenonT(60) DEF QueueInv, Beside
    <3> QED
      BY <3>1, <1>e, IdsEmpty, ZenonT(60)
  <2>2. T.ip_seqno[p] = S.ip_seqno[p] + 1
    BY <1>2, <1>a, ZenonT(60)
  <2>3. Span(I, bs[p], S.ip_seqno[p] + 1, sn[p] + 1)
    BY <2>1, <1>d, <1>f, SpanPass, ZenonT(60)
  <2>4. Placed(T, ps, d) /\ \A x \in Queues : Sorted(T.imq_messages[x])
    BY <1>0, <1>2, ZenonT(60) DEF QueueInv, Placed
  <2>5. Beside(T)
    <3>1. ASSUME NEW x \in Queues PROVE T.imq_messages[x] = <<>> \/ T.imq_threads[x] = <<>>
      <4>1. CASE x = q
        BY <4>1, <2>1, <1>2, <1>c, ZenonT(60)
      <4>2. CASE x # q
        <5>1. S.imq_messages[x] = <<>> \/ S.imq_threads[x] = <<>>
          BY <1>0, ZenonT(60) DEF QueueInv, Beside
        <5> QED
          BY <5>1, <4>2, <1>2, <1>i, ZenonT(60)
      <4> QED
        BY <4>1, <4>2, ZenonT(60)
    <3> QED
      BY <3>1, ZenonT(60) DEF Beside
  <2>6. ASSUME NEW r \in Ports \ d PROVE Numbered(T, ps, bs, sn2, r)
    <3>1. CASE r = p
      BY <3>1, <2>2, <2>3, <1>2, <1>b, <1>c, <1>e, ZenonT(60) DEF Numbered
    <3>2. CASE r # p
      <4>1. Numbered(S, ps, bs, sn, r)
        BY <1>0, ZenonT(60) DEF QueueInv
      <4> QED
        BY <4>1, <3>2, <1>2, <1>k, ZenonT(60) DEF Numbered
    <3> QED
      BY <3>1, <3>2, ZenonT(60)
  <2>7. ASSUME NEW r \in Ports \ d PROVE Counted(T, P, bs, sn2, mc2, r)
    <3>1. CASE r = p
      <4>0. PICK H : H = HeldBy(S, P, p)
        BY ZenonT(60)
      <4>1. IsFiniteSet(H) /\ t \notin H
        BY <4>0, <1>2, HeldFinite, ZenonT(60)
      <4>2. Cardinality(H \cup {t}) = Cardinality(H) + 1
        BY <4>1, AddElement, ZenonT(60)
      <4>3. Cardinality(HeldBy(T, P, p)) = h + 1
        BY <4>0, <4>2, <1>2, <1>g, ZenonT(60)
      <4>4. Count(mc[p] + 1, bs[p], S.ip_seqno[p] + 1, sn[p] + 1, h + 1)
        BY <1>d, <1>h, CountSteps, ZenonT(60)
      <4> QED
        BY <4>3, <4>4, <3>1, <2>2, ZenonT(60) DEF Counted
    <3>2. CASE r # p
      BY <3>2, <1>k, ZenonT(60) DEF Counted, QInv
    <3> QED
      BY <3>1, <3>2, ZenonT(60)
  <2>8. QueueInv(T, ps, d, bs, sn2)
    BY <2>4, <2>5, <2>6, ZenonT(60) DEF QueueInv
  <2> QED
    BY <2>7, <2>8, <1>i, <1>j, ZenonT(60) DEF QInv
<1> QED
  BY <1>1, <1>2, <1>b, ZenonT(60) DEF Delivered

\* The invariant of queues, in parts.
LEMMA QParts ==
  ASSUME NEW S, NEW P, NEW C, NEW ps, NEW d, NEW bs, NEW sn, NEW mc
  PROVE  QInv(S, P, C, ps, d, bs, sn, mc) <=>
           QCore(S, P, C, ps, d, bs, sn, mc) /\ \A p \in Ports : NoneOnMember(S, ps, p)
BY ZenonT(60) DEF QInv, QCore, NoneOnMember

\* Port p, alive, goes to set s, or to none.
LEMMA QMoveCore ==
  ASSUME SetLaws, NEW S, NEW P, NEW C, NEW ps, NEW d, NEW bs, NEW sn, NEW mc,
         QTypes(ps, d, bs, sn, mc), QInv(S, P, C, ps, d, bs, sn, mc),
         NEW p \in Ports, p \notin d, NEW ps2,
         NEW T, Moved(S, ps2, p, P, C, d, bs, sn, T),
         \A r \in Ports \ {p} : ps2[r] = ps[r], ps2[p] # p, ps2[p] \in Psets \cup {Null}
  PROVE  /\ QCore(T, P, C, ps2, d, bs, sn, mc)
         /\ NoneOnOthers(T, ps2, p)
<1>0. ThreadInv(S, P, C) /\ S \in States /\ QueueInv(S, ps, d, bs, sn)
  BY ZenonT(60) DEF QInv
<1>1. T \in States /\ ThreadInv(T, P, C) /\ QueueInv(T, ps2, d, bs, sn)
  BY ZenonT(60) DEF Moved
<1>2. ASSUME NEW r \in Ports \ {p}, ps2[r] # Null PROVE T.imq_threads[r] = <<>>
  <2>1. S.imq_threads[r] = <<>>
    BY <1>2, ZenonT(60) DEF QInv
  <2>2. r \in Queues \ {QOf(ps2, p)}
    BY <1>2, IpcAssumption, ZenonT(60) DEF QOf, Queues
  <2> QED
    BY <2>1, <2>2, ZenonT(60) DEF Moved
<1>3. ASSUME NEW r \in Ports \ d PROVE Counted(T, P, bs, sn, mc, r)
  <2>0. Counted(S, P, bs, sn, mc, r)
    BY ZenonT(60) DEF QInv
  <2>1. CASE r = p
    <3>1. PICK h \in Nat : h = Cardinality(HeldBy(S, P, p))
      BY HeldFinite, ZenonT(60)
    <3>2. PICK h2 \in Nat : h2 = Cardinality(HeldBy(T, P, p))
      BY HeldFinite, ZenonT(60)
    <3>3. h2 - T.ip_seqno[p] = h - S.ip_seqno[p]
      BY <3>1, <3>2, ZenonT(60) DEF Moved
    <3>4. Count(mc[p], bs[p], S.ip_seqno[p], sn[p], h)
      BY <2>0, <2>1, <3>1, ZenonT(60) DEF Counted
    <3>5. bs[p] \in Nat /\ S.ip_seqno[p] \in Nat /\ T.ip_seqno[p] \in Nat /\ sn[p] \in Nat /\ mc[p] \in Int
      BY <1>0, <1>1, ZenonT(60) DEF QTypes, States
    <3>6. Count(mc[p], bs[p], T.ip_seqno[p], sn[p], h2)
      BY <3>3, <3>4, <3>5, CountAlike, ZenonT(60)
    <3> QED
      BY <2>1, <3>2, <3>6, ZenonT(60) DEF Counted
  <2>2. CASE r # p
    <3>1. T.ip_seqno[r] = S.ip_seqno[r] /\ HeldBy(T, P, r) = HeldBy(S, P, r)
      BY <2>2, ZenonT(60) DEF Moved
    <3> QED
      BY <2>0, <3>1, ZenonT(60) DEF Counted
  <2> QED
    BY <2>1, <2>2, ZenonT(60)
<1> QED
  BY <1>1, <1>2, <1>3, ZenonT(60) DEF QCore, NoneOnMember, NoneOnOthers

\* The same, when p goes to no set, or no receiver waits on p itself.
LEMMA QMove ==
  ASSUME SetLaws, NEW S, NEW P, NEW C, NEW ps, NEW d, NEW bs, NEW sn, NEW mc,
         QTypes(ps, d, bs, sn, mc), QInv(S, P, C, ps, d, bs, sn, mc),
         NEW p \in Ports, p \notin d, NEW ps2,
         NEW T, Moved(S, ps2, p, P, C, d, bs, sn, T),
         \A r \in Ports \ {p} : ps2[r] = ps[r], ps2[p] # p, ps2[p] \in Psets \cup {Null},
         NoneOnMember(T, ps2, p)
  PROVE  QInv(T, P, C, ps2, d, bs, sn, mc)
<1>1. QCore(T, P, C, ps2, d, bs, sn, mc) /\ NoneOnOthers(T, ps2, p)
  BY QMoveCore, ZenonT(60)
<1>2. \A r \in Ports : NoneOnMember(T, ps2, r)
  BY <1>1, ZenonT(60) DEF NoneOnOthers
<1> QED
  BY <1>1, <1>2, QParts, ZenonT(60)

\* ipc_mqueue_changed takes all receivers off the queue, with an answer.
LEMMA ChangedBy ==
  ASSUME NEW S \in States, NEW q \in Queues, NEW mr \in WaitStates
  PROVE  Changed(S, q, mr, ipc_mqueue_changed(S, q, mr))
<1>1. PICK R : R = Range(S.imq_threads[q])
  BY ZenonT(60)
<1>2. PICK I : I = [t \in Threads |-> IF t \in R THEN thread_go([S.ith[t] EXCEPT !.state = mr]) ELSE S.ith[t]]
  BY ZenonT(60)
<1>3. PICK T : T = ipc_mqueue_changed(S, q, mr)
  BY ZenonT(60)
<1>4. T = [S EXCEPT !.imq_threads[q] = <<>>, !.ith = I]
  BY <1>1, <1>2, <1>3, ZenonT(60) DEF ipc_mqueue_changed
<1>5. /\ S.imq_messages \in [Queues -> Seq(Message)] /\ S.imq_threads \in [Queues -> Seq(Threads)]
      /\ S.ith \in [Threads -> Ith] /\ S.ip_seqno \in [Ports -> Nat]
  BY ZenonT(60) DEF States
<1>6. ASSUME NEW t \in Threads
      PROVE  /\ I[t] \in Ith
             /\ t \in R => I[t].state = mr /\ I[t].kmsg = S.ith[t].kmsg
             /\ t \notin R => I[t] = S.ith[t]
  <2>1. S.ith[t] \in Ith
    BY <1>5, ZenonT(60)
  <2>2. PICK r : r = [S.ith[t] EXCEPT !.state = mr]
    BY ZenonT(60)
  <2>3. r \in Ith /\ r.state = mr /\ r.kmsg = S.ith[t].kmsg
    BY <2>1, <2>2, Answered, ZenonT(60)
  <2>4. thread_go(r) \in Ith /\ thread_go(r).state = r.state /\ thread_go(r).kmsg = r.kmsg
    BY <2>3, ThreadGo, ZenonT(60)
  <2>5. I[t] = IF t \in R THEN thread_go(r) ELSE S.ith[t]
    BY <1>2, <2>2, ZenonT(60)
  <2> QED
    BY <2>1, <2>3, <2>4, <2>5, ZenonT(60)
<1>7. I \in [Threads -> Ith]
  BY <1>2, <1>6, ZenonT(60)
<1>8. /\ T.imq_messages = S.imq_messages /\ T.ip_seqno = S.ip_seqno
      /\ T.imq_threads = [S.imq_threads EXCEPT ![q] = <<>>] /\ T.ith = I
  BY <1>4, ZenonT(60) DEF States
<1>9. [S.imq_threads EXCEPT ![q] = <<>>] \in [Queues -> Seq(Threads)]
  BY <1>5, SMTT(60)
<1>10. T \in States
  BY <1>4, <1>5, <1>7, <1>8, <1>9, ZenonT(60) DEF States
<1>11. T.imq_threads[q] = <<>> /\ \A x \in Queues \ {q} : T.imq_threads[x] = S.imq_threads[x]
  BY <1>5, <1>8, ZenonT(60)
<1>12. Changed(S, q, mr, T)
  BY <1>1, <1>6, <1>8, <1>10, <1>11, ZenonT(60) DEF Changed
<1> QED
  BY <1>3, <1>12, ZenonT(60)

\* ipc_mqueue_changed keeps queues, numbers and receivers consistent.
LEMMA QChangedCore ==
  ASSUME NEW S, NEW P, NEW C, NEW ps, NEW d, NEW bs, NEW sn, NEW mc,
         QCore(S, P, C, ps, d, bs, sn, mc),
         NEW q \in Queues, NEW mr \in Departures, NEW T, Changed(S, q, mr, T)
  PROVE  /\ QCore(T, P, C, ps, d, bs, sn, mc)
         /\ OthersStay(S, P, T)
<1>0. ThreadInv(S, P, C) /\ S \in States /\ QueueInv(S, ps, d, bs, sn)
  BY ZenonT(60) DEF QCore
<1>1. /\ T \in States
      /\ T.imq_messages = S.imq_messages /\ T.ip_seqno = S.ip_seqno
      /\ T.imq_threads[q] = <<>>
      /\ \A x \in Queues \ {q} : T.imq_threads[x] = S.imq_threads[x]
      /\ \A t \in Threads : t \in Range(S.imq_threads[q]) =>
            T.ith[t].state = mr /\ T.ith[t].kmsg = S.ith[t].kmsg
      /\ \A t \in Threads : t \notin Range(S.imq_threads[q]) => T.ith[t] = S.ith[t]
  BY ZenonT(60) DEF Changed
<1>2. mr \in Answers /\ mr # "RCV_IN_PROGRESS" /\ mr # "SUCCESS"
  BY ZenonT(60) DEF Answers, Departures
<1>3. \A t \in Threads : t \in Range(S.imq_threads[q]) <=>
        P[t] = "receive" /\ C[t].port = q /\ S.ith[t].state = "RCV_IN_PROGRESS"
  BY <1>0, ZenonT(60) DEF ThreadInv, Waits
<1>4. OthersStay(S, P, T)
  BY <1>1, <1>3, ZenonT(60) DEF OthersStay
<1>5. ASSUME NEW t \in Threads
      PROVE  /\ Holds(T, P, t) <=> Holds(S, P, t)
             /\ T.ith[t].kmsg = S.ith[t].kmsg
             /\ P[t] = "receive" => T.ith[t].state \in {"RCV_IN_PROGRESS"} \cup Answers
             /\ \A y \in Queues : t \in Range(T.imq_threads[y]) <=>
                  P[t] = "receive" /\ C[t].port = y /\ T.ith[t].state = "RCV_IN_PROGRESS"
  <2>1. CASE t \in Range(S.imq_threads[q])
    <3>1. /\ T.ith[t].state = mr /\ T.ith[t].kmsg = S.ith[t].kmsg
          /\ P[t] = "receive" /\ C[t].port = q /\ S.ith[t].state = "RCV_IN_PROGRESS"
      BY <2>1, <1>1, <1>3, ZenonT(60)
    <3>2. ~Holds(T, P, t) /\ ~Holds(S, P, t)
      BY <3>1, <1>2, ZenonT(60) DEF Holds
    <3>3. ASSUME NEW y \in Queues PROVE t \notin Range(T.imq_threads[y])
      <4>1. CASE y = q
        BY <4>1, <1>1, EmptyRange, ZenonT(60)
      <4>2. CASE y # q
        <5>1. t \notin Range(S.imq_threads[y])
          BY <4>2, <3>1, <1>0, ZenonT(60) DEF ThreadInv, Waits
        <5> QED
          BY <5>1, <4>2, <1>1, ZenonT(60)
      <4> QED
        BY <4>1, <4>2, ZenonT(60)
    <3> QED
      BY <3>1, <3>2, <3>3, <1>2, ZenonT(60)
  <2>2. CASE t \notin Range(S.imq_threads[q])
    <3>1. T.ith[t] = S.ith[t]
      BY <2>2, <1>1, ZenonT(60)
    <3>2. Holds(T, P, t) <=> Holds(S, P, t)
      BY <3>1, ZenonT(60) DEF Holds
    <3>3. P[t] = "receive" => T.ith[t].state \in {"RCV_IN_PROGRESS"} \cup Answers
      BY <3>1, <1>0, ZenonT(60) DEF ThreadInv
    <3>4. ASSUME NEW y \in Queues
          PROVE  t \in Range(T.imq_threads[y]) <=>
                  P[t] = "receive" /\ C[t].port = y /\ T.ith[t].state = "RCV_IN_PROGRESS"
      <4>1. t \in Range(S.imq_threads[y]) <=>
              P[t] = "receive" /\ C[t].port = y /\ S.ith[t].state = "RCV_IN_PROGRESS"
        BY <1>0, ZenonT(60) DEF ThreadInv, Waits
      <4>2. t \in Range(T.imq_threads[y]) <=> t \in Range(S.imq_threads[y])
        <5>1. CASE y = q
          BY <5>1, <2>2, <1>1, EmptyRange, ZenonT(60)
        <5>2. CASE y # q
          BY <5>2, <1>1, ZenonT(60)
        <5> QED
          BY <5>1, <5>2, ZenonT(60)
      <4> QED
        BY <4>1, <4>2, <3>1, ZenonT(60)
    <3> QED
      BY <3>1, <3>2, <3>3, <3>4, ZenonT(60)
  <2> QED
    BY <2>1, <2>2, ZenonT(60)
<1>6. ThreadInv(T, P, C)
  <2>1. \A y \in Queues : IsInjective(T.imq_threads[y])
    BY <1>0, <1>1, EmptyRange, ZenonT(60) DEF ThreadInv
  <2>2. \A t \in Threads : Holds(T, P, t) => T.ith[t].kmsg # Null
    <3>1. \A t \in Threads : Holds(S, P, t) => S.ith[t].kmsg # Null
      BY <1>0, ZenonT(60) DEF ThreadInv
    <3> QED
      BY <3>1, <1>5, ZenonT(60)
  <2>3. Waits(T, P, C)
    BY <1>5, ZenonT(60) DEF Waits
  <2> QED
    BY <2>1, <2>2, <2>3, <1>5, ZenonT(60) DEF ThreadInv
<1>7. ASSUME NEW r \in Ports PROVE HeldBy(T, P, r) = HeldBy(S, P, r)
  <2>1. ASSUME NEW x \in Threads PROVE x \in HeldBy(T, P, r) <=> x \in HeldBy(S, P, r)
    BY <1>5, ZenonT(60) DEF HeldBy
  <2> QED
    BY <2>1, ZenonT(60) DEF HeldBy
<1>8. QueueInv(T, ps, d, bs, sn)
  <2>1. Placed(T, ps, d)
    BY <1>0, <1>1, ZenonT(60) DEF QueueInv, Placed
  <2>2. Beside(T)
    BY <1>0, <1>1, ZenonT(60) DEF QueueInv, Beside
  <2>3. \A p \in Ports \ d : Numbered(T, ps, bs, sn, p)
    BY <1>0, <1>1, ZenonT(60) DEF QueueInv, Numbered
  <2> QED
    BY <1>0, <1>1, <2>1, <2>2, <2>3, ZenonT(60) DEF QueueInv
<1>9. \A p \in Ports \ d : Counted(T, P, bs, sn, mc, p)
  BY <1>1, <1>7, ZenonT(60) DEF QCore, Counted
<1>10. QCore(T, P, C, ps, d, bs, sn, mc)
  BY <1>1, <1>6, <1>8, <1>9, ZenonT(60) DEF QCore
<1> QED
  BY <1>4, <1>10, ZenonT(60)

\* The same for the whole invariant.
LEMMA QChanged ==
  ASSUME NEW S, NEW P, NEW C, NEW ps, NEW d, NEW bs, NEW sn, NEW mc,
         QInv(S, P, C, ps, d, bs, sn, mc),
         NEW q \in Queues, NEW mr \in Departures, NEW T, Changed(S, q, mr, T)
  PROVE  /\ QInv(T, P, C, ps, d, bs, sn, mc)
         /\ OthersStay(S, P, T)
<1>1. QCore(S, P, C, ps, d, bs, sn, mc) /\ \A p \in Ports : NoneOnMember(S, ps, p)
  BY QParts, ZenonT(60)
<1>2. QCore(T, P, C, ps, d, bs, sn, mc) /\ OthersStay(S, P, T)
  BY <1>1, QChangedCore, ZenonT(60)
<1>3. ASSUME NEW p \in Ports PROVE NoneOnMember(T, ps, p)
  <2>1. p \in Queues /\ NoneOnMember(S, ps, p)
    BY <1>1, ZenonT(60) DEF Queues
  <2> QED
    BY <2>1, ZenonT(60) DEF NoneOnMember, Changed
<1> QED
  BY <1>2, <1>3, QParts, ZenonT(60)

\* ipc_port_clear_receiver sets ip_seqno to 0.
LEMMA QReset ==
  ASSUME SetLaws, NEW S, NEW P, NEW C, NEW U, NEW ps, NEW d, NEW bs, NEW sn, NEW mc,
         QTypes(ps, d, bs, sn, mc), QInv(S, P, C, ps, d, bs, sn, mc),
         NEW p \in Ports, NEW bs2, Resets(S, U, p, bs, bs2)
  PROVE  QInv(U, P, C, ps, d, bs2, sn, mc)
<1>z. /\ U \in States
      /\ U.imq_messages = S.imq_messages /\ U.imq_threads = S.imq_threads /\ U.ith = S.ith
      /\ U.ip_seqno[p] = 0 /\ \A r \in Ports \ {p} : U.ip_seqno[r] = S.ip_seqno[r]
      /\ bs2[p] = bs[p] + S.ip_seqno[p] /\ \A r \in Ports \ {p} : bs2[r] = bs[r]
  BY ZenonT(60) DEF Resets
<1> USE <1>z
<1>0. ThreadInv(S, P, C) /\ S \in States /\ QueueInv(S, ps, d, bs, sn)
  BY ZenonT(60) DEF QInv
<1>1. ThreadInv(U, P, C)
  BY <1>0, SameThreads, ZenonT(60)
<1>2. \A r : HeldBy(U, P, r) = HeldBy(S, P, r)
  BY ZenonT(60) DEF HeldBy, Holds
<1>3. bs[p] \in Nat /\ S.ip_seqno[p] \in Nat /\ sn[p] \in Nat /\ mc[p] \in Int
  BY <1>0, ZenonT(60) DEF QTypes, States
<1>4. Placed(U, ps, d) /\ Beside(U) /\ \A q \in Queues : Sorted(U.imq_messages[q])
  BY <1>0, ZenonT(60) DEF QueueInv, Placed, Beside
<1>5. ASSUME NEW r \in Ports \ d PROVE Numbered(U, ps, bs2, sn, r)
  <2>1. Numbered(S, ps, bs, sn, r)
    BY <1>0, ZenonT(60) DEF QueueInv
  <2>2. CASE r = p
    BY <2>1, <2>2, <1>3, SpanReset, ZenonT(60) DEF Numbered
  <2>3. CASE r # p
    BY <2>1, <2>3, ZenonT(60) DEF Numbered
  <2> QED
    BY <2>2, <2>3, ZenonT(60)
<1>6. ASSUME NEW r \in Ports \ d PROVE Counted(U, P, bs2, sn, mc, r)
  <2>1. Counted(S, P, bs, sn, mc, r)
    BY ZenonT(60) DEF QInv
  <2>2. CASE r = p
    <3>1. PICK h \in Nat : h = Cardinality(HeldBy(S, P, p))
      BY HeldFinite, ZenonT(60)
    <3>2. Count(mc[p], bs[p], S.ip_seqno[p], sn[p], h)
      BY <2>1, <2>2, <3>1, ZenonT(60) DEF Counted
    <3>3. Count(mc[p], bs[p] + S.ip_seqno[p], 0, sn[p], h)
      BY <3>2, <1>3, CountSteps, ZenonT(60)
    <3> QED
      BY <3>1, <3>3, <2>2, <1>2, ZenonT(60) DEF Counted
  <2>3. CASE r # p
    BY <2>1, <2>3, <1>2, ZenonT(60) DEF Counted
  <2> QED
    BY <2>2, <2>3, ZenonT(60)
<1>7. QueueInv(U, ps, d, bs2, sn)
  BY <1>4, <1>5, ZenonT(60) DEF QueueInv
<1> QED
  BY <1>1, <1>6, <1>7, ZenonT(60) DEF QInv

\* ipc_port_destroy discards the messages of a port.
LEMMA QKill ==
  ASSUME NEW S, NEW P, NEW C, NEW U, NEW C2, NEW ps, NEW d, NEW bs, NEW sn, NEW mc,
         QTypes(ps, d, bs, sn, mc), QInv(S, P, C, ps, d, bs, sn, mc),
         NEW p \in Ports, Kills(S, U, ps, p), \A x \in Threads : AsWas(S, P, C, U, P, C2, x)
  PROVE  QInv(U, P, C2, ps, d \cup {p}, bs, sn, mc)
<1>z. /\ U \in States /\ ps[p] = Null
      /\ U.imq_messages = [S.imq_messages EXCEPT ![p] = <<>>] /\ U.imq_threads = S.imq_threads
      /\ \A r \in Ports \ {p} : U.ip_seqno[r] = S.ip_seqno[r]
  BY ZenonT(60) DEF Kills
<1> USE <1>z
<1>0. ThreadInv(S, P, C) /\ S \in States /\ QueueInv(S, ps, d, bs, sn)
  BY ZenonT(60) DEF QInv
<1>1. ThreadInv(U, P, C2)
  BY <1>0, Others, ZenonT(60)
<1>2. \A r \in Ports : HeldBy(U, P, r) = HeldBy(S, P, r)
  <2>1. SameHeld(S, P, U, P)
    BY <1>0, Others, ZenonT(60)
  <2> QED
    BY <2>1, ZenonT(60) DEF SameHeld
<1>3. U.imq_messages[p] = <<>> /\ \A x \in Queues : x # p => U.imq_messages[x] = S.imq_messages[x]
  <2>1. S.imq_messages \in [Queues -> Seq(Message)] /\ p \in Queues
    BY <1>0, ZenonT(60) DEF States, Queues
  <2> QED
    BY <2>1, ZenonT(60)
<1>4. QOf(ps, p) = p
  BY ZenonT(60) DEF QOf
<1>5. Placed(U, ps, d \cup {p})
  <2>1. ASSUME NEW x \in Queues, NEW r \in PortsIn(U.imq_messages[x]) PROVE r \notin d \cup {p} /\ QOf(ps, r) = x
    <3>1. x # p
      BY <1>3, PortsEmpty, ZenonT(60)
    <3>2. r \in PortsIn(S.imq_messages[x])
      BY <3>1, <1>3, ZenonT(60)
    <3>3. r \notin d /\ QOf(ps, r) = x
      BY <3>2, <1>0, ZenonT(60) DEF QueueInv, Placed
    <3> QED
      BY <3>1, <3>3, <1>4, ZenonT(60)
  <2> QED
    BY <2>1, ZenonT(60) DEF Placed
<1>6. \A x \in Queues : Sorted(U.imq_messages[x])
  BY <1>0, <1>3, IdsEmpty, ZenonT(60) DEF QueueInv
<1>7. Beside(U)
  BY <1>0, <1>3, ZenonT(60) DEF QueueInv, Beside
<1>8. ASSUME NEW r \in Ports \ (d \cup {p}) PROVE Numbered(U, ps, bs, sn, r) /\ Counted(U, P, bs, sn, mc, r)
  <2>1. r # p /\ r \notin d
    BY ZenonT(60)
  <2>2. Numbered(S, ps, bs, sn, r) /\ Counted(S, P, bs, sn, mc, r)
    BY <2>1, <1>0, ZenonT(60) DEF QueueInv, QInv
  <2>3. QOf(ps, r) # p /\ QOf(ps, r) \in Queues
    BY <2>1, IpcAssumption, SMTT(60) DEF QOf, Queues, QTypes
  <2> QED
    BY <2>1, <2>2, <2>3, <1>2, <1>3, ZenonT(60) DEF Numbered, Counted
<1>9. QueueInv(U, ps, d \cup {p}, bs, sn)
  BY <1>5, <1>6, <1>7, <1>8, ZenonT(60) DEF QueueInv
<1>10. \A r \in Ports : ps[r] # Null => U.imq_threads[r] = <<>>
  BY ZenonT(60) DEF QInv
<1> QED
  BY <1>1, <1>8, <1>9, <1>10, ZenonT(60) DEF QInv

\* A set dies.
LEMMA QKillSet ==
  ASSUME NEW S, NEW P, NEW C, NEW ps, NEW d, NEW bs, NEW sn, NEW mc,
         QInv(S, P, C, ps, d, bs, sn, mc), NEW s \in Psets
  PROVE  QInv(S, P, C, ps, d \cup {s}, bs, sn, mc)
<1>0. QueueInv(S, ps, d, bs, sn) /\ S \in States
  BY ZenonT(60) DEF QInv
<1>1. s \notin Ports
  BY IpcAssumption, ZenonT(60)
<1>2. Placed(S, ps, d \cup {s})
  <2>1. ASSUME NEW q \in Queues, NEW r \in PortsIn(S.imq_messages[q]) PROVE r \notin d \cup {s} /\ QOf(ps, r) = q
    <3>1. r \notin d /\ QOf(ps, r) = q
      BY <1>0, ZenonT(60) DEF QueueInv, Placed
    <3>2. S.imq_messages[q] \in Seq(Message)
      BY <1>0, ZenonT(60) DEF States
    <3>3. PICK i \in 1..Len(S.imq_messages[q]) : r = S.imq_messages[q][i].port
      BY ZenonT(60) DEF PortsIn
    <3>4. S.imq_messages[q][i] \in Message
      BY <3>2, SMTT(60)
    <3>5. r \in Ports
      BY <3>3, <3>4, ZenonT(60) DEF Message
    <3> QED
      BY <3>1, <3>5, <1>1, ZenonT(60)
  <2> QED
    BY <2>1, ZenonT(60) DEF Placed
<1>3. \A r \in Ports : r \notin d \cup {s} => r \notin d
  BY ZenonT(60)
<1>4. QueueInv(S, ps, d \cup {s}, bs, sn)
  BY <1>0, <1>2, <1>3, ZenonT(60) DEF QueueInv
<1> QED
  BY <1>3, <1>4, ZenonT(60) DEF QInv
=============================================================================
