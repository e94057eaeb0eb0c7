---------------------------- MODULE IpcMqueueInv ----------------------------
(***************************************************************************)
(* The inductive invariant of IpcMqueue and the predicates its proof is    *)
(* told in.                                                                *)
(*                                                                         *)
(* The inductive invariant IInv has two halves.  QInv speaks of messages   *)
(* and receivers: receivers are on a queue exactly while they wait there,  *)
(* messages are on the queue of their port and in order, never beside a    *)
(* receiver, those queued are the ones after the last numbered, and        *)
(* ip_msgcount is what remains of the messages accepted.  SInv speaks of   *)
(* senders: they are blocked exactly while they wait, and while some are,  *)
(* messages and senders let in fill the port.                              *)
(***************************************************************************)
EXTENDS IpcMqueue

-----------------------------------------------------------------------------
(* Numbers and finite sets *)

Induction == \A S : 0 \in S /\ (\A n \in Nat : n \in S => n + 1 \in S) => Nat \subseteq S

LeastNumber == \A S \in SUBSET Nat : S # {} => \E x \in S : \A y \in S : x <= y

SizeOfOne ==
    /\ IsFiniteSet({}) /\ Cardinality({}) = 0
    /\ \A S : IsFiniteSet(S) => (Cardinality(S) = 0 <=> S = {})
    /\ \A x : IsFiniteSet({x}) /\ Cardinality({x}) = 1
    /\ \A S : IsFiniteSet(S) => (Cardinality(S) = 1 <=> \E x : S = {x})
    /\ \A a, b \in Int : IsFiniteSet(a..b) /\ Cardinality(a..b) = IF a > b THEN 0 ELSE b - a + 1

SizeOfMore ==
    /\ \A S : IsFiniteSet(S) => Cardinality(S) \in Nat
    /\ \A S, x : IsFiniteSet(S) =>
         /\ IsFiniteSet(S \cup {x})
         /\ Cardinality(S \cup {x}) = IF x \in S THEN Cardinality(S) ELSE Cardinality(S) + 1
    /\ \A S, x : IsFiniteSet(S) =>
         /\ IsFiniteSet(S \ {x})
         /\ Cardinality(S \ {x}) = IF x \in S THEN Cardinality(S) - 1 ELSE Cardinality(S)
    /\ \A S : IsFiniteSet(S) => \A T \in SUBSET S :
         /\ IsFiniteSet(T) /\ Cardinality(T) <= Cardinality(S)
         /\ Cardinality(S) = Cardinality(T) => S = T
    /\ \A S, T : IsFiniteSet(S) /\ IsFiniteSet(T) =>
         /\ IsFiniteSet(S \cup T)
         /\ Cardinality(S \cup T) = Cardinality(S) + Cardinality(T) - Cardinality(S \cap T)
    /\ \A S, T : IsFiniteSet(S) /\ ExistsBijection(S, T) =>
         IsFiniteSet(T) /\ Cardinality(T) = Cardinality(S)

\* What the lemmas use of the library's facts about numbers and finite sets.  They take
\* it as a hypothesis; IpcMqueueProofs proves it from the library.
SetLaws == Induction /\ LeastNumber /\ SizeOfOne /\ SizeOfMore

Recursive(n, X, a, D) ==
    \E f \in [0..n -> X] : f[0] = a /\ \A i \in 1..n : f[i] = D[<<f[i - 1], i>>]
-----------------------------------------------------------------------------
Message == [port : Ports, id : Nat, size : Nat]
Results == {"none", "AWAKENED", "TIMED_OUT", "INTERRUPTED"}
Answers == {"SUCCESS", "TOO_LARGE", "PORT_DIED", "PORT_CHANGED"}
WaitStates == {"none", "SEND_IN_PROGRESS", "RCV_IN_PROGRESS"} \cup Answers

Ith == [state : WaitStates, kmsg : Message \cup {Null}, msize : Nat,
        wait : BOOLEAN, result : Results]

States == [imq_messages : [Queues -> Seq(Message)], imq_threads : [Queues -> Seq(Threads)],
           ith : [Threads -> Ith], ip_seqno : [Ports -> Nat]]

\* The numbers of port p's messages in queue s.
Ids(s, p) == {s[i].id : i \in {j \in 1..Len(s) : s[j].port = p}}

\* Each port's messages are in the order of their numbers.
Sorted(s) == \A i, j \in 1..Len(s) : i < j /\ s[i].port = s[j].port => s[i].id < s[j].id

\* What Deliver makes of S, when k is the place of the taker among R.
Placing(S, q, m, R, k, T) ==
    /\ T \in States /\ k \in 1..(Len(R) + 1)
    /\ \A x \in Queues \ {q} : T.imq_threads[x] = S.imq_threads[x]
    /\ \A t \in Threads : (\E i \in 1..(k - 1) : t = R[i]) => T.ith[t].state = "TOO_LARGE"
    /\ \A t \in Threads : (\A i \in 1..Len(R) : i <= k => t # R[i]) => T.ith[t] = S.ith[t]
    /\ k > Len(R) =>
         /\ T.imq_messages = [S.imq_messages EXCEPT ![q] = Append(@, m)]
         /\ T.imq_threads[q] = <<>>
         /\ T.ip_seqno = S.ip_seqno
    /\ k <= Len(R) =>
         /\ T.imq_messages = S.imq_messages
         /\ T.imq_threads[q] = SubSeq(R, k + 1, Len(R))
         /\ T.ip_seqno = [S.ip_seqno EXCEPT ![m.port] = @ + 1]
         /\ T.ith[R[k]].state = "SUCCESS"
         /\ T.ith[R[k]].kmsg = m
-----------------------------------------------------------------------------
(* Threads P, with calls C, and the queues of S. *)
Waits(S, P, C) == \A t \in Threads, q \in Queues :
    t \in Range(S.imq_threads[q]) <=>
        P[t] = "receive" /\ C[t].port = q /\ S.ith[t].state = "RCV_IN_PROGRESS"

Holds(S, P, t) == P[t] = "account" \/ (P[t] = "receive" /\ S.ith[t].state = "SUCCESS")

ThreadInv(S, P, C) ==
    /\ Waits(S, P, C)
    /\ \A q \in Queues : IsInjective(S.imq_threads[q])
    /\ \A t \in Threads : Holds(S, P, t) => S.ith[t].kmsg # Null
    /\ \A t \in Threads : P[t] = "receive" => S.ith[t].state \in {"RCV_IN_PROGRESS"} \cup Answers

HeldBy(S, P, p) == {t \in Threads : /\ S.ith[t].kmsg # Null /\ S.ith[t].kmsg.port = p
                                    /\ Holds(S, P, t)}

\* U is what is left of R after its first k.
Rest(R, k, U) ==
    /\ IsInjective(U)
    /\ \A t \in Threads : t \in Range(U) <=> t \in Range(R) /\ \A i \in 1..k : t # R[i]

\* Message m is placed in queue q of S, which gives T.  Threads and queues stay
\* consistent; a receiver that gets the message held none before.
Delivered(S, q, m, P, C, T) ==
    /\ T \in States /\ ThreadInv(T, P, C)
    /\ \A t \in Threads : P[t] # "receive" => T.ith[t] = S.ith[t]
    /\ \A x \in Queues \ {q} : T.imq_threads[x] = S.imq_threads[x]
    /\ \/ /\ Receiver(S, q, m) = Null
          /\ T.imq_messages = [S.imq_messages EXCEPT ![q] = Append(@, m)]
          /\ T.imq_threads[q] = <<>>
          /\ T.ip_seqno = S.ip_seqno
          /\ \A p \in Ports : HeldBy(T, P, p) = HeldBy(S, P, p)
       \/ /\ Receiver(S, q, m) \in Threads \ HeldBy(S, P, m.port)
          /\ S.imq_threads[q] # <<>>
          /\ T.imq_messages = S.imq_messages
          /\ T.ip_seqno = [S.ip_seqno EXCEPT ![m.port] = @ + 1]
          /\ HeldBy(T, P, m.port) = HeldBy(S, P, m.port) \cup {Receiver(S, q, m)}
          /\ \A p \in Ports : p # m.port => HeldBy(T, P, p) = HeldBy(S, P, p)
-----------------------------------------------------------------------------
(* The messages of S, when ps is the set of each port and d what is dead. *)
PortsIn(s) == {s[i].port : i \in 1..Len(s)}
QOf(ps, p) == IF ps[p] = Null THEN p ELSE ps[p]

Placed(S, ps, d) == \A q \in Queues : \A r \in PortsIn(S.imq_messages[q]) :
    r \notin d /\ QOf(ps, r) = q

Beside(S) == \A q \in Queues : S.imq_messages[q] = <<>> \/ S.imq_threads[q] = <<>>

\* Of n messages, e were numbered since the first b; those after them are I.
Span(I, b, e, n) == b + e <= n /\ I = (b + e)..(n - 1)

\* a is the number of those, and h more.
Count(a, b, e, n, h) == a = n - b - e + h

\* The messages of p that are queued are those after the last numbered.
Numbered(S, ps, bs, sn, p) ==
    Span(Ids(S.imq_messages[QOf(ps, p)], p), bs[p], S.ip_seqno[p], sn[p])

\* mc counts the messages of p that are queued or held.
Counted(S, P, bs, sn, mc, p) ==
    Count(mc[p], bs[p], S.ip_seqno[p], sn[p], Cardinality(HeldBy(S, P, p)))

QueueInv(S, ps, d, bs, sn) ==
    /\ Placed(S, ps, d)
    /\ \A q \in Queues : Sorted(S.imq_messages[q])
    /\ Beside(S)
    /\ \A p \in Ports \ d : Numbered(S, ps, bs, sn, p)

\* The numbers of p's messages among the first i of M, and after them.
IdsUpto(M, i, p) == {M[j].id : j \in {k \in 1..i : M[k].port = p}}
IdsAfter(M, i, p) == {M[j].id : j \in {k \in (i + 1)..Len(M) : M[k].port = p}}
-----------------------------------------------------------------------------
(* ipc_mqueue_move *)
\* Only the messages of queue x change, to s.
Requeued(S, x, s, T) ==
    /\ T \in States
    /\ T.imq_messages = [S.imq_messages EXCEPT ![x] = s]
    /\ T.imq_threads = S.imq_threads
    /\ T.ith = S.ith
    /\ T.ip_seqno = S.ip_seqno

\* The body of the loop of ipc_mqueue_move, on message m.
MoveOne(T, dest, source, p, m) ==
    IF m.port = p THEN Deliver(T, dest, m, TRUE)
    ELSE [T EXCEPT !.imq_messages[source] = Append(@, m)]

\* f follows the loop over M.
Loop(S, dest, source, p, M, f) ==
    /\ f[0] = [S EXCEPT !.imq_messages[source] = <<>>]
    /\ \A i \in 1..Len(M) : f[i] = MoveOne(f[i - 1], dest, source, p, M[i])

Loops(S, dest, source, p, M) ==
    \E f : /\ Loop(S, dest, source, p, M, f)
           /\ ipc_mqueue_move(S, dest, source, p) = f[Len(M)]

\* What the loop leaves alone.
MoveFrame(S, dest, source, p, P, C, T) ==
    /\ T \in States /\ ThreadInv(T, P, C)
    /\ \A t \in Threads : P[t] # "receive" => T.ith[t] = S.ith[t]
    /\ \A x \in Queues \ {dest} : T.imq_threads[x] = S.imq_threads[x]
    /\ \A x \in Queues \ {dest, source} : T.imq_messages[x] = S.imq_messages[x]
    /\ \A r \in Ports \ {p} : T.ip_seqno[r] = S.ip_seqno[r] /\ HeldBy(T, P, r) = HeldBy(S, P, r)
    /\ Cardinality(HeldBy(T, P, p)) - T.ip_seqno[p] = Cardinality(HeldBy(S, P, p)) - S.ip_seqno[p]
    /\ S.imq_threads[dest] = <<>> => T.imq_threads[dest] = <<>> /\ T.ip_seqno[p] = S.ip_seqno[p]

\* L, left on the source, has the first i messages of M but those of p.
MoveFrom(L, M, i, p) ==
    /\ Sorted(L)
    /\ PortsIn(L) \subseteq PortsIn(M) \ {p}
    /\ \A r \in Ports \ {p} : Ids(L, r) = IdsUpto(M, i, r)

\* N, on the destination, has what N0 had and those of p among the first i of M that nobody
\* took; the numbers of those not taken, here or still to be moved, are lo to hi.
MoveTo(N, N0, W, M, i, p, lo, hi) ==
    /\ Sorted(N)
    /\ PortsIn(N) \subseteq PortsIn(N0) \cup {p}
    /\ \A r \in Ports \ {p} : Ids(N, r) = Ids(N0, r)
    /\ N = <<>> \/ W = <<>>
    /\ lo <= hi + 1
    /\ Ids(N, p) \cup IdsAfter(M, i, p) = lo..hi
    /\ \A x \in Ids(N, p), y \in IdsAfter(M, i, p) : x < y

\* The invariant of the loop of ipc_mqueue_move.
Moving(S, dest, source, p, P, C, bs, sn, M, i, T) ==
    /\ MoveFrame(S, dest, source, p, P, C, T)
    /\ MoveFrom(T.imq_messages[source], M, i, p)
    /\ MoveTo(T.imq_messages[dest], S.imq_messages[dest], T.imq_threads[dest], M, i, p,
              bs[p] + T.ip_seqno[p], sn[p] - 1)

\* p's messages were moved from the queue it used under ps to the one it uses under ps2.
Moved(S, ps2, p, P, C, d, bs, sn, T) ==
    /\ T \in States /\ ThreadInv(T, P, C)
    /\ QueueInv(T, ps2, d, bs, sn)
    /\ \A t \in Threads : P[t] # "receive" => T.ith[t] = S.ith[t]
    /\ \A x \in Queues \ {QOf(ps2, p)} : T.imq_threads[x] = S.imq_threads[x]
    /\ \A r \in Ports \ {p} : T.ip_seqno[r] = S.ip_seqno[r] /\ HeldBy(T, P, r) = HeldBy(S, P, r)
    /\ Cardinality(HeldBy(T, P, p)) - T.ip_seqno[p] = Cardinality(HeldBy(S, P, p)) - S.ip_seqno[p]
    /\ S.imq_threads[QOf(ps2, p)] = <<>> =>
          T.imq_threads[QOf(ps2, p)] = <<>> /\ T.ip_seqno[p] = S.ip_seqno[p]
-----------------------------------------------------------------------------
(* The invariant of queues, receivers and numbers, and what keeps it. *)
QInv(S, P, C, ps, d, bs, sn, mc) ==
    /\ S \in States
    /\ ThreadInv(S, P, C)
    /\ QueueInv(S, ps, d, bs, sn)
    /\ \A p \in Ports : ps[p] # Null => S.imq_threads[p] = <<>>
    /\ \A p \in Ports \ d : Counted(S, P, bs, sn, mc, p)

QTypes(ps, d, bs, sn, mc) ==
    /\ ps \in [Ports -> Psets \cup {Null}] /\ d \subseteq Queues
    /\ bs \in [Ports -> Nat] /\ sn \in [Ports -> Nat] /\ mc \in [Ports -> Int]

\* Thread x is as it was, or is in no call to receive, before and after.
AsWas(S, P, C, U, P2, C2, x) ==
    \/ /\ P2[x] = P[x] /\ C2[x].port = C[x].port
       /\ U.ith[x].state = S.ith[x].state /\ U.ith[x].kmsg = S.ith[x].kmsg
    \/ /\ ~(P[x] = "receive" /\ S.ith[x].state = "RCV_IN_PROGRESS") /\ P2[x] # "receive"
       /\ Holds(U, P2, x) <=> Holds(S, P, x)
       /\ Holds(U, P2, x) => U.ith[x].kmsg = S.ith[x].kmsg

SameHeld(S, P, U, P2) == \A p \in Ports : HeldBy(U, P2, p) = HeldBy(S, P, p)

\* Thread t, which held a message of p, has counted it out.
\* Thread t is about to count out a message of p, and then is done.
CountsOut(S, P, P2, t, p) == P[t] = "account" /\ P2[t] = "idle" /\ t \in HeldBy(S, P, p)

OneLess(n, n2, d, p) ==
    /\ p \notin d => n2[p] = n[p] - 1
    /\ \A r \in Ports \ {p} : n2[r] = n[r]

\* What TryReceive takes.
Takes(S, q, t, T) ==
    /\ T \in States
    /\ T.imq_messages = [S.imq_messages EXCEPT ![q] = Tail(@)]
    /\ T.imq_threads = S.imq_threads
    /\ T.ip_seqno = [S.ip_seqno EXCEPT ![Head(S.imq_messages[q]).port] = @ + 1]
    /\ T.ith[t].kmsg = Head(S.imq_messages[q])
    /\ \A x \in Threads \ {t} : T.ith[x] = S.ith[x]

\* What ipc_thread_rmqueue returns.
Removed(s, t, u) ==
    /\ u \in Seq(Threads) /\ IsInjective(u)
    /\ \A x \in Threads : x \in Range(u) <=> x \in Range(s) /\ x # t
    /\ s = <<>> => u = <<>>

\* Thread t waits on queue q.
WaitsAt(S, P, C, t, q) == P[t] = "receive" /\ C[t].port = q /\ S.ith[t].state = "RCV_IN_PROGRESS"

\* The threads on queue q of S are now u.
TakenOff(S, q, u, T) ==
    /\ T \in States
    /\ T.imq_messages = S.imq_messages /\ T.ip_seqno = S.ip_seqno /\ T.ith = S.ith
    /\ T.imq_threads = [S.imq_threads EXCEPT ![q] = u]

\* m is the next message of p.
NextOf(m, p, sn) == m.port = p /\ m.id = sn[p]
OneMore(n, n2, p) == n2[p] = n[p] + 1 /\ \A r \in Ports \ {p} : n2[r] = n[r]

\* QInv, but for receivers that wait on ports in sets.
QCore(S, P, C, ps, d, bs, sn, mc) ==
    /\ S \in States /\ ThreadInv(S, P, C) /\ QueueInv(S, ps, d, bs, sn)
    /\ \A p \in Ports \ d : Counted(S, P, bs, sn, mc, p)

NoneOnMember(S, ps, p) == ps[p] # Null => S.imq_threads[p] = <<>>
NoneOnOthers(S, ps, p) == \A r \in Ports \ {p} : NoneOnMember(S, ps, r)

\* What ipc_mqueue_changed makes of S.
Changed(S, q, mr, T) ==
    /\ T \in States
    /\ T.imq_messages = S.imq_messages /\ T.ip_seqno = S.ip_seqno
    /\ T.imq_threads[q] = <<>>
    /\ \A x \in Queues \ {q} : T.imq_threads[x] = S.imq_threads[x]
    /\ \A t \in Threads : t \in Range(S.imq_threads[q]) =>
          T.ith[t].state = mr /\ T.ith[t].kmsg = S.ith[t].kmsg
    /\ \A t \in Threads : t \notin Range(S.imq_threads[q]) => T.ith[t] = S.ith[t]

\* The receivers of a queue are sent away.
Departures == {"PORT_DIED", "PORT_CHANGED"}
OthersStay(S, P, T) == \A t \in Threads : P[t] # "receive" => T.ith[t] = S.ith[t]

\* ip_seqno of p starts from 0 again.
Resets(S, U, p, bs, bs2) ==
    /\ U \in States
    /\ U.imq_messages = S.imq_messages /\ U.imq_threads = S.imq_threads /\ U.ith = S.ith
    /\ U.ip_seqno[p] = 0 /\ \A r \in Ports \ {p} : U.ip_seqno[r] = S.ip_seqno[r]
    /\ bs2[p] = bs[p] + S.ip_seqno[p] /\ \A r \in Ports \ {p} : bs2[r] = bs[r]

\* Port p, in no set, dies, and its messages are destroyed.
Kills(S, U, ps, p) ==
    /\ U \in States /\ ps[p] = Null
    /\ U.imq_messages = [S.imq_messages EXCEPT ![p] = <<>>] /\ U.imq_threads = S.imq_threads
    /\ \A r \in Ports \ {p} : U.ip_seqno[r] = S.ip_seqno[r]
-----------------------------------------------------------------------------
(* The invariant of blocked senders *)
LetInAt(I, P, C, p) == {t \in Threads : P[t] = "send" /\ C[t].port = p /\ I[t].state = "SUCCESS"}

BInv(B, I, P, C) ==
    /\ \A p \in Ports : B[p] \in Seq(Threads) /\ IsInjective(B[p])
    /\ \A t \in Threads, p \in Ports : t \in Range(B[p]) <=>
          P[t] = "send" /\ C[t].port = p /\ I[t].state = "SEND_IN_PROGRESS"
    /\ \A t \in Threads : P[t] = "send" =>
          C[t].port \in Ports /\ I[t].state \in {"SEND_IN_PROGRESS", "SUCCESS"}

\* The slots of p are taken, by messages or senders let in.
Full(I, P, C, mc, ql, p) == mc[p] + Cardinality(LetInAt(I, P, C, p)) >= ql[p]

SInv(B, I, P, C, mc, ql, d, w) ==
    /\ BInv(B, I, P, C)
    /\ \A p \in Ports \ d : B[p] # <<>> /\ p \notin w => Full(I, P, C, mc, ql, p)

\* Thread x sends as it did.
SendsAs(I, P, C, I2, P2, C2, x) ==
    /\ P2[x] = "send" <=> P[x] = "send"
    /\ P2[x] = "send" => C2[x].port = C[x].port /\ I2[x].state = I[x].state

STypes(mc, ql) == mc \in [Ports -> Int] /\ ql \in [Ports -> Nat]

\* R with t after the rest.
Joined(R, t, A) ==
    /\ A \in Seq(Threads) /\ IsInjective(A)
    /\ \A x \in Threads : x \in Range(A) <=> x \in Range(R) \/ x = t

\* t is not blocked, and if it sends it is to p; t is blocked at p.
BlocksFrom(I, P, C, t, p) ==
    ~(P[t] = "send" /\ I[t].state = "SEND_IN_PROGRESS") /\ (P[t] = "send" => C[t].port = p)

BlocksAt(I, P, C, t, p) == P[t] = "send" /\ C[t].port = p /\ I[t].state = "SEND_IN_PROGRESS"
-----------------------------------------------------------------------------
\* S and T are finite and have as many elements.
AsMany(S, T) == IsFiniteSet(T) /\ Cardinality(T) = Cardinality(S)

\* The threads in W, of the queue R, are taken off it, which leaves A.
Dropped(R, W, A) ==
    /\ A \in Seq(Threads) /\ IsInjective(A)
    /\ \A x \in Threads : x \in Range(A) <=> x \in Range(R) /\ x \notin W
    /\ \A x \in W : x \in Threads /\ x \in Range(R)
    /\ R = <<>> => A = <<>>

\* The threads in W are told to try again, and the other senders wait as before.
Rousing(I, P, C, I2, P2, C2, W) ==
    /\ \A x \in W : P2[x] = "send" /\ C2[x].port = C[x].port /\ I2[x].state = "SUCCESS"
    /\ \A x \in Threads : x \notin W => SendsAs(I, P, C, I2, P2, C2, x)

Drops(B, p, W, B2) == Dropped(B[p], W, B2[p]) /\ \A r \in Ports \ {p} : B2[r] = B[r]

\* If senders still wait for p, those in L and W may use all slots.
Slots(B2, L, W, mc2, ql2, p, d2, w) ==
    p \notin d2 /\ B2[p] # <<>> /\ p \notin w =>
        mc2[p] + Cardinality(L) + Cardinality(W) >= ql2[p]

\* The first n of a queue of threads, and what is left.
FirstOf(R, n) == {R[i] : i \in 1..Len(R) \cap 1..n}
-----------------------------------------------------------------------------
(* The inductive invariant *)
Stages == {"idle", "send", "go", "receive", "account", "panic"}

CallArgs == [port : Queues \cup {Null}, size : Nat, kind : {"none", "normal", "always", "circular"},
             timeout : {"never", "later", "now"}, callee : Threads \cup {Null}]

\* What threads do, and with what arguments.
CInv(P, C) ==
    /\ P \in [Threads -> Stages] /\ C \in [Threads -> CallArgs]
    /\ \A t \in Threads : P[t] = "go" => C[t].callee \in Threads
    /\ \A t \in Threads : P[t] = "receive" => C[t].port \in Queues

IInv ==
    /\ CInv(pc, call)
    /\ QTypes(ip_pset, dead, base, sent, ip_msgcount)
    /\ STypes(ip_msgcount, ip_qlimit)
    /\ ip_blocked \in [Ports -> Seq(Threads)] /\ wasted \subseteq Ports
    /\ QInv(Now, pc, call, ip_pset, dead, base, sent, ip_msgcount)
    /\ SInv(ip_blocked, ith, pc, call, ip_msgcount, ip_qlimit, dead, wasted)

\* Only thread t's record changes, to r.
OneThread(S, t, r, T) ==
    /\ T \in States
    /\ T.imq_messages = S.imq_messages /\ T.imq_threads = S.imq_threads /\ T.ip_seqno = S.ip_seqno
    /\ T.ith = [S.ith EXCEPT ![t] = r]
    /\ T.ith[t] = r /\ \A x \in Threads \ {t} : T.ith[x] = S.ith[x]

\* Thread t goes to stage v with call c, and the others do as before.
Goes(P, C, t, v, c, P2, C2) ==
    /\ CInv(P2, C2)
    /\ P2[t] = v /\ C2[t] = c
    /\ \A x \in Threads \ {t} : P2[x] = P[x] /\ C2[x] = C[x]

\* What t, about to send to p, may be: in no call, let in, or with its timer run out;
\* and what is left of the senders that wait.
Sender(t, p, blocked, timeout) ==
    \/ pc[t] = "idle" /\ blocked = ip_blocked[p]
    \/ pc[t] = "send" /\ call[t].port = p /\ ith[t].state = "SUCCESS" /\ blocked = ip_blocked[p]
    \/ /\ pc[t] = "send" /\ call[t].port = p /\ ith[t].state = "SEND_IN_PROGRESS"
       /\ blocked = ipc_thread_rmqueue(ip_blocked[p], t) /\ timeout = "now"

\* The first, and third, alternative of TrySend: nothing is sent.
SendFails(t, p, blocked) ==
    /\ ip_blocked' = [ip_blocked EXCEPT ![p] = blocked]
    /\ ith' = Idle(Now, t).ith
    /\ Return(t)
    /\ UNCHANGED <<ip_msgcount, ip_seqno, imq, sent>>
    /\ UNCHANGED <<portvars, base>>

\* What SendNow does for p, with m the message, R the receiver and T what is delivered.
Sends(t, c, p, R, T) ==
    /\ ip_msgcount' = [ip_msgcount EXCEPT ![p] = @ + 1]
    /\ sent' = [sent EXCEPT ![p] = @ + 1]
    /\ Become(T)
    /\ \/ R = Null /\ Return(t)
       \/ /\ R # Null
          /\ pc' = [pc EXCEPT ![t] = "go"]
          /\ call' = [call EXCEPT ![t] = [c EXCEPT !.callee = R]]

\* The second alternative of TrySend.
Sending(t, c, p, blocked) ==
    /\ c.port = p /\ SendNow(t, c)
    /\ ip_blocked' = [ip_blocked EXCEPT ![p] = blocked]
    /\ UNCHANGED <<portvars, base>>

\* The last alternative of TrySend.
Blocking(t, c, p) ==
    /\ c.port = p
    /\ ip_blocked' = [ip_blocked EXCEPT ![p] = Append(ip_blocked[p], t)]
    /\ ith' = [ith EXCEPT ![t] = Wait(@, "SEND_IN_PROGRESS", @.msize)]
    /\ pc' = [pc EXCEPT ![t] = "send"] /\ call' = [call EXCEPT ![t] = c]
    /\ UNCHANGED <<ip_msgcount, ip_seqno, imq, sent>>
    /\ UNCHANGED <<portvars, base>>

\* t is not among the senders blocked at p, and not at another port.
MayBlock(t, p) == \/ pc[t] = "idle"
                  \/ pc[t] = "send" /\ call[t].port = p /\ ith[t].state = "SUCCESS"

\* A sender let in that finds its message circular is marked.
Marks(t, p, c) ==
    pc[t] = "send" /\ ith[t].state = "SUCCESS" /\ p \notin dead /\ c.kind = "circular" /\ pc'[t] = "idle"
        => p \in wasted'

Unblocked(t, p, blocked) == blocked = ip_blocked[p] /\ MayBlock(t, p)

\* The other threads send as they did; the other ports have the senders they
\* had; the port is full.
OthersSendAs(I, P, C, I2, P2, C2, t) == \A x \in Threads \ {t} : SendsAs(I, P, C, I2, P2, C2, x)
OthersKept(B, B2, p) == \A r \in Ports \ {p} : B2[r] = B[r]
Crowded(mc, ql, p) == mc[p] >= ql[p]
-----------------------------------------------------------------------------
(* ipc_mqueue_receive *)
\* Nothing but queues, receivers, sequence numbers and sets has changed.
RestSame ==
    /\ dead' = dead /\ ip_qlimit' = ip_qlimit /\ ip_msgcount' = ip_msgcount
    /\ ip_blocked' = ip_blocked /\ sent' = sent /\ base' = base /\ wasted' = wasted

\* Threads that send are left alone.
SendersSame(I, P, C, I2, P2, C2) == \A x \in Threads : SendsAs(I, P, C, I2, P2, C2, x)

WaitsOn(S, q, t, T) ==
    /\ T \in States
    /\ T.imq_messages = S.imq_messages /\ T.ip_seqno = S.ip_seqno
    /\ T.imq_threads = [S.imq_threads EXCEPT ![q] = Append(@, t)]
    /\ T.ith[t].state = "RCV_IN_PROGRESS"
    /\ \A x \in Threads \ {t} : T.ith[x] = S.ith[x]

\* S is what a receiver t, in no call, finds, when threads do P with calls C.
Finds(t, S, P, C) ==
    /\ QTypes(ip_pset', dead, base, sent, ip_msgcount)
    /\ QInv(S, P, C, ip_pset', dead, base, sent, ip_msgcount)
    /\ P[t] = "idle" /\ pc[t] # "send"
    /\ \A x \in Threads \ {t} : P[x] = pc[x] /\ C[x] = call[x]
    /\ \A x \in Threads \ {t} : pc[x] = "send" => S.ith[x] = ith[x]

\* Port p has left its set: ps2 says so, and T is what became of S.
LeftSet(S, P, C, ps2, d, bs, sn, mc, p, T) ==
    /\ QInv(T, P, C, ps2, d, bs, sn, mc)
    /\ \A t \in Threads : P[t] # "receive" => T.ith[t] = S.ith[t]
    /\ T.ip_seqno[p] = S.ip_seqno[p]

\* Queue q of S, without thread t.
Off(S, q, t) == [S EXCEPT !.imq_threads[q] = ipc_thread_rmqueue(@, t)]
-----------------------------------------------------------------------------
(* Senders are roused. *)
Roused(W, I, I2) ==
    /\ I2 \in [Threads -> Ith]
    /\ \A x \in Threads : x \in W => I2[x].state = "SUCCESS" /\ I2[x].kmsg = I[x].kmsg
    /\ \A x \in Threads : x \notin W => I2[x] = I[x]

\* What receive_accounts does for p, when W are let in.
Accounts(t, p, W) ==
    /\ ip_msgcount' = [ip_msgcount EXCEPT ![p] = IF Alive(p) THEN @ - 1 ELSE @]
    /\ ip_blocked' = [ip_blocked EXCEPT ![p] = IF W = {} THEN @ ELSE Tail(@)]
    /\ ith' = [Rouse(W) EXCEPT ![t] = NoWait]
    /\ Return(t)
    /\ UNCHANGED <<portvars, ip_seqno, imq, calls, sent, base, wasted>>

\* The senders W let in at p, what is left, and the slot.
LetsInAt(p, W, u) ==
    /\ Dropped(ip_blocked[p], W, u) /\ u = (IF W = {} THEN ip_blocked[p] ELSE Tail(ip_blocked[p]))
    /\ p \notin dead /\ u # <<>> /\ p \notin wasted =>
         ip_msgcount[p] - 1 + Cardinality(LetInAt(ith, pc, call, p)) + Cardinality(W) >= ip_qlimit[p]

Accounting(t, p) == pc[t] = "account" /\ ith[t].kmsg.port = p
-----------------------------------------------------------------------------
(* Operations on ports and port sets *)
AreSenders(P, C, W, p) == \A x \in W : x \in Threads /\ P[x] = "send" /\ C[x].port = p
InNoSet(ps, p) == ps[p] = Null

Enters(S, P, C, ps2, d, bs, sn, mc, U) ==
    QInv(U, P, C, ps2, d, bs, sn, mc) /\ OthersStay(S, P, U)

\* Port p is in no set, has no receivers of its own and a seqno of 0.
Clears(p, ps2, bs2, U) ==
    /\ QInv(U, pc, call, ps2, dead, bs2, sent, ip_msgcount) /\ OthersStay(Now, pc, U)
    /\ QTypes(ps2, dead, bs2, sent, ip_msgcount) /\ InNoSet(ps2, p)

\* What ipc_port_destroy makes of S, the state after ipc_port_clear_receiver,
\* when senders W are roused.
Destroyed(S, p, W, V) ==
    /\ V \in States
    /\ V.imq_messages = [S.imq_messages EXCEPT ![p] = <<>>] /\ V.imq_threads = S.imq_threads
    /\ V.ip_seqno = S.ip_seqno
    /\ \A x \in Threads : x \in W => V.ith[x].state = "SUCCESS"
    /\ \A x \in Threads : x \notin W => V.ith[x] = S.ith[x]

\* The messages of a live port in the queue M it uses.
QueueOfPort(p, M) ==
    /\ M = imq_messages[QueueOf(p)] /\ M \in Seq(Message)
    /\ Queued(p) = {i \in 1..Len(M) : M[i].port = p}
    /\ Sorted(M) /\ Span(Ids(M, p), base[p], ip_seqno[p], sent[p])
    /\ base[p] \in Nat /\ ip_seqno[p] \in Nat /\ sent[p] \in Nat
=============================================================================
