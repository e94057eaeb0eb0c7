------------------------------ MODULE IpcMqueue ------------------------------
(***************************************************************************)
(* Message queues of ports and port sets: ipc/ipc_mqueue.c, ipc/ipc_pset.c *)
(* and the parts of ipc/ipc_port.c that act on them.                       *)
(*                                                                         *)
(* One action is one section under the port, port set and message queue    *)
(* locks.  ipc_mqueue_send unlocks the queue before it calls thread_go on  *)
(* the receiver it gave the message to; ipc_mqueue_receive unlocks the     *)
(* queue before it locks the port to count the message out.                *)
(*                                                                         *)
(* A message is its port, its number in the order in which the port        *)
(* accepted messages, and its size.  Kernel ports, whose messages go to    *)
(* ipc_kobject_server, and NORMA_IPC are left out.                         *)
(***************************************************************************)
EXTENDS Integers, Sequences, FiniteSets, Functions

CONSTANTS
    Threads, Ports, Psets, Null,
    Sizes,      \* sizes of messages and of receivers' buffers
    Kinds,      \* what may be sent: "normal", "always" (MACH_SEND_ALWAYS, or to
                \* a send-once right), "circular" (MACH_MSGH_BITS_CIRCULAR)
    QLimits,    \* values of ip_qlimit
    Timeouts,   \* of calls: "never", "later", or "now" for a timeout of 0
    MaxCalls    \* bound: calls made, operations on ports and sets included

ASSUME IpcAssumption ==
    /\ Ports \cap Psets = {} /\ Null \notin Ports \cup Psets \cup Threads
    /\ Null \notin [port : Ports, id : Nat, size : Nat]
    /\ IsFiniteSet(Threads) /\ Sizes \subseteq Nat /\ QLimits \subseteq Nat /\ QLimits # {}
    /\ Kinds \subseteq {"normal", "always", "circular"}
    /\ Timeouts \subseteq {"never", "later", "now"} /\ MaxCalls \in Nat

VARIABLES
    dead,           \* ports and port sets that are not active
    ip_pset, ip_qlimit, ip_msgcount, ip_seqno,
    ip_blocked,     \* the senders that wait for each port, first to last
    imq_messages,   \* the messages in each queue, first to last
    imq_threads,    \* the receivers that wait on each queue
    ith,            \* ith_state, ith_kmsg and ith_msize of each thread;
                    \* whether it is TH_WAIT, and its wait_result
    pc, call,       \* what each thread does, and the arguments
    calls,          \* calls made so far
    sent, base,     \* messages a port has accepted; the one its ip_seqno 0 had
    wasted          \* history: ports at which a sender let in sent nothing

portvars == <<dead, ip_pset, ip_qlimit>>
threadvars == <<pc, call, calls>>
imq == <<imq_messages, imq_threads>>
vars == <<portvars, ip_msgcount, ip_seqno, ip_blocked, imq, ith, threadvars, sent, base,
          wasted>>

Queues == Ports \cup Psets
Alive(x) == x \notin dead
QueueOf(p) == IF ip_pset[p] = Null THEN p ELSE ip_pset[p]
NoCall == [port |-> Null, size |-> 0, kind |-> "none", timeout |-> "never", callee |-> Null]

\* A thread in no call: what the fields were is not read again.
NoWait == [state |-> "none", kmsg |-> Null, msize |-> 0, wait |-> FALSE, result |-> "none"]

Init ==
    /\ dead = {}
    /\ ip_pset = [p \in Ports |-> Null]
    /\ ip_qlimit \in [Ports -> QLimits]
    /\ ip_msgcount = [p \in Ports |-> 0]
    /\ ip_seqno = [p \in Ports |-> 0]
    /\ ip_blocked = [p \in Ports |-> <<>>]
    /\ imq_messages = [q \in Queues |-> <<>>]
    /\ imq_threads = [q \in Queues |-> <<>>]
    /\ ith = [t \in Threads |-> NoWait]
    /\ pc = [t \in Threads |-> "idle"]
    /\ call = [t \in Threads |-> NoCall]
    /\ calls = 0
    /\ sent = [p \in Ports |-> 0]
    /\ base = [p \in Ports |-> 0]
    /\ wasted = {}

-----------------------------------------------------------------------------
(* Threads and queues *)

\* The queue s after thread t is taken off it.
ipc_thread_rmqueue(s, t) ==
    LET k == CHOOSE k \in DOMAIN s : s[k] = t
    IN IF t \in Range(s) THEN SubSeq(s, 1, k - 1) \o SubSeq(s, k + 1, Len(s)) ELSE s

\* thread_go, on the record of a thread.
thread_go(r) == IF r.wait THEN [r EXCEPT !.wait = FALSE, !.result = "AWAKENED"] ELSE r

\* The thread will wait, in the state given.
Wait(r, st, size) == [r EXCEPT !.state = st, !.msize = size, !.wait = TRUE]

\* Queues, threads and sequence numbers, on which the next operators act.
Now == [imq_messages |-> imq_messages, imq_threads |-> imq_threads, ith |-> ith,
        ip_seqno |-> ip_seqno]

\* The place among the receivers of q of the first that has room for m, or
\* the place after the last.
Taker(S, q, m) ==
    LET R == S.imq_threads[q]
        room(i) == m.size <= S.ith[R[i]].msize IN
    CHOOSE k \in 1..(Len(R) + 1) :
        (k <= Len(R) => room(k)) /\ \A i \in 1..(k - 1) : ~room(i)

\* The receiver that gets message m.
Receiver(S, q, m) ==
    LET k == Taker(S, q, m) IN IF k > Len(S.imq_threads[q]) THEN Null ELSE S.imq_threads[q][k]

\* The receivers before place k are told that the message is too large.
TellTooLarge(i, R, k) ==
    [t \in Threads |-> IF \E j \in 1..(k - 1) : t = R[j]
                       THEN thread_go([i[t] EXCEPT !.state = "TOO_LARGE"]) ELSE i[t]]

\* Thread r is given message m, and started if now.
Give(r, m, now) == [IF now THEN thread_go(r) ELSE r EXCEPT !.state = "SUCCESS", !.kmsg = m]

\* Place message m in queue q: the first receiver that has room for it gets
\* it, and those before it are told that it is too large; if there is none
\* the message is enqueued.  The receiver is started now, or by the caller.
Deliver(S, q, m, now) ==
    LET R == S.imq_threads[q]
        k == Taker(S, q, m)
        told == TellTooLarge(S.ith, R, k) IN
    IF k > Len(R)
    THEN [S EXCEPT !.imq_messages[q] = Append(@, m), !.imq_threads[q] = <<>>, !.ith = told]
    ELSE [S EXCEPT !.imq_threads[q] = SubSeq(R, k + 1, Len(R)),
                   !.ith = [told EXCEPT ![R[k]] = Give(@, m, now)],
                   !.ip_seqno[m.port] = @ + 1]

\* Mutant: receivers that wait on dest are not looked at.
ipc_mqueue_move_NoReceivers(S, dest, source, p) ==
    LET ofPort(m) == m.port = p
        others(m) == m.port # p
        moved == SelectSeq(S.imq_messages[source], ofPort) IN
    [S EXCEPT !.imq_messages[source] = SelectSeq(@, others),
              !.imq_messages[dest] = @ \o moved]

\* Mutant: the messages are put at the front of dest, last first.
ipc_mqueue_move_Reversed(S, dest, source, p) ==
    LET ofPort(m) == m.port = p
        others(m) == m.port # p
        moved == SelectSeq(S.imq_messages[source], ofPort) IN
    [S EXCEPT !.imq_messages[source] = SelectSeq(@, others),
              !.imq_messages[dest] = [i \in DOMAIN moved |-> moved[Len(moved) + 1 - i]] \o @]

\* The messages of port p go from queue source to queue dest, one by one.
ipc_mqueue_move(S, dest, source, p) ==
    LET M == S.imq_messages[source]
        after[i \in 0..Len(M)] ==
            IF i = 0 THEN [S EXCEPT !.imq_messages[source] = <<>>]
            ELSE IF M[i].port = p THEN Deliver(after[i - 1], dest, M[i], TRUE)
            ELSE [after[i - 1] EXCEPT !.imq_messages[source] = Append(@, M[i])]
    IN after[Len(M)]

\* Mutant: the receivers stay on the queue.
ipc_mqueue_changed_KeepsQueue(S, q, mr) ==
    LET R == Range(S.imq_threads[q]) IN
    [S EXCEPT !.ith = [t \in Threads |-> IF t \in R THEN thread_go([@[t] EXCEPT !.state = mr])
                                         ELSE @[t]]]

\* The receivers that wait on q are sent away with answer mr.
ipc_mqueue_changed(S, q, mr) ==
    LET R == Range(S.imq_threads[q]) IN
    [S EXCEPT !.imq_threads[q] = <<>>,
              !.ith = [t \in Threads |-> IF t \in R THEN thread_go([@[t] EXCEPT !.state = mr])
                                         ELSE @[t]]]

\* The port enters the set.
ipc_pset_add(S, s, p) ==
    ipc_mqueue_changed(ipc_mqueue_move(S, s, p, p), p, "PORT_CHANGED")
\* Mutant: the messages stay with the set.
ipc_pset_remove_LeavesMessages(S, s, p) == S

\* The port leaves the set; it has no receivers of its own.
ipc_pset_remove(S, s, p) == ipc_mqueue_move(S, p, s, p)

\* Mutant: the wait_result is looked at before ith_state.
Woke_ResultFirst(t) ==
    IF ith[t].result # "AWAKENED" THEN ith[t].result ELSE ith[t].state

\* Why a thread woke up: an answer from IPC or, without one, its wait_result.
Woke(t) == IF ith[t].state \in {"SEND_IN_PROGRESS", "RCV_IN_PROGRESS"} THEN ith[t].result
           ELSE ith[t].state

Become(S) ==
    /\ imq_messages' = S.imq_messages /\ imq_threads' = S.imq_threads
    /\ ith' = S.ith /\ ip_seqno' = S.ip_seqno
Return(t) == pc' = [pc EXCEPT ![t] = "idle"] /\ call' = [call EXCEPT ![t] = NoCall]
Idle(S, t) == [S EXCEPT !.ith[t] = NoWait]

-----------------------------------------------------------------------------
(* ipc_mqueue_send *)

\* The message may be queued, or the sender must wait.
MaySend(p, kind) == ip_msgcount[p] < ip_qlimit[p] \/ kind = "always"

\* From ip_msgcount++ to the end: the message is delivered, and if a receiver
\* got it thread_go is still to be called.
SendNow(t, c) ==
    LET p == c.port
        q == QueueOf(p)
        m == [port |-> p, id |-> sent[p], size |-> c.size]
        S == Idle(Now, t)
        receiver == Receiver(S, q, m) IN
    /\ ip_msgcount' = [ip_msgcount EXCEPT ![p] = @ + 1]
    /\ sent' = [sent EXCEPT ![p] = @ + 1]
    /\ Become(Deliver(S, q, m, FALSE))
    /\ \/ /\ receiver = Null
          /\ Return(t)
       \/ /\ receiver # Null
          /\ pc' = [pc EXCEPT ![t] = "go"]
          /\ call' = [call EXCEPT ![t] = [c EXCEPT !.callee = receiver]]

\* The loop, with the port locked and blocked the senders that wait for it.
TrySend(t, c, blocked) ==
    LET p == c.port IN
    \/ /\ ~Alive(p) \/ (MaySend(p, c.kind) /\ c.kind = "circular")
       /\ ip_blocked' = [ip_blocked EXCEPT ![p] = blocked]
       /\ ith' = Idle(Now, t).ith
       /\ Return(t)
       /\ UNCHANGED <<ip_msgcount, ip_seqno, imq, sent>>
    \/ /\ Alive(p) /\ MaySend(p, c.kind) /\ c.kind # "circular"
       /\ ip_blocked' = [ip_blocked EXCEPT ![p] = blocked]
       /\ SendNow(t, c)
    \/ /\ Alive(p) /\ ~MaySend(p, c.kind) /\ c.timeout = "now"
       /\ ip_blocked' = [ip_blocked EXCEPT ![p] = blocked]
       /\ ith' = Idle(Now, t).ith
       /\ Return(t)
       /\ UNCHANGED <<ip_msgcount, ip_seqno, imq, sent>>
    \/ /\ Alive(p) /\ ~MaySend(p, c.kind) /\ c.timeout # "now"
       /\ ip_blocked' = [ip_blocked EXCEPT ![p] = Append(blocked, t)]
       /\ ith' = [ith EXCEPT ![t] = Wait(@, "SEND_IN_PROGRESS", @.msize)]
       /\ pc' = [pc EXCEPT ![t] = "send"]
       /\ call' = [call EXCEPT ![t] = c]
       /\ UNCHANGED <<ip_msgcount, ip_seqno, imq, sent>>

Call == calls < MaxCalls /\ calls' = calls + 1

ipc_mqueue_send(t, p, size, kind, timeout) ==
    /\ pc[t] = "idle" /\ Call
    /\ TrySend(t, [NoCall EXCEPT !.port = p, !.size = size, !.kind = kind,
                                 !.timeout = timeout], ip_blocked[p])
    /\ UNCHANGED <<portvars, base, wasted>>

\* The sender was let in and has not run since.
LetIn(t, p) == pc[t] = "send" /\ call[t].port = p /\ ith[t].state = "SUCCESS"

\* The sender runs again, and looks at why.  One that was let in and finds
\* that its message is circular leaves its slot unused.
send_resumes(t) ==
    LET c == call[t]
        p == c.port
        others == ipc_thread_rmqueue(ip_blocked[p], t) IN
    /\ pc[t] = "send" /\ ~ith[t].wait
    /\ \/ /\ Woke(t) = "SUCCESS"
          /\ TrySend(t, c, ip_blocked[p])
       \/ /\ Woke(t) = "TIMED_OUT"
          /\ TrySend(t, [c EXCEPT !.timeout = "now"], others)
       \/ /\ Woke(t) = "INTERRUPTED"
          /\ ip_blocked' = [ip_blocked EXCEPT ![p] = others]
          /\ ith' = Idle(Now, t).ith
          /\ Return(t)
          /\ UNCHANGED <<ip_msgcount, ip_seqno, imq, sent>>
       \/ /\ Woke(t) = "AWAKENED"
          /\ ip_blocked' = [ip_blocked EXCEPT ![p] = others]
          /\ pc' = [pc EXCEPT ![t] = "panic"]
          /\ UNCHANGED <<ip_msgcount, ip_seqno, imq, ith, call, sent>>
    /\ wasted' = IF LetIn(t, p) /\ Alive(p) /\ c.kind = "circular" /\ pc'[t] = "idle"
                    THEN wasted \cup {p} ELSE wasted
    /\ UNCHANGED <<portvars, calls, base>>

\* thread_go(receiver), after the queue was unlocked.
send_goes(t) ==
    /\ pc[t] = "go"
    /\ ith' = [ith EXCEPT ![call[t].callee] = thread_go(@)]
    /\ Return(t)
    /\ UNCHANGED <<portvars, ip_msgcount, ip_seqno, ip_blocked, imq, calls, sent, base, wasted>>

-----------------------------------------------------------------------------
(* ipc_mqueue_receive *)

\* The loop, with queue q of S locked.
TryReceive(t, c, S) ==
    LET q == c.port
        M == S.imq_messages[q]
        take == [S EXCEPT !.imq_messages[q] = Tail(M),
                          !.ith[t] = [NoWait EXCEPT !.kmsg = Head(M)],
                          !.ip_seqno[Head(M).port] = @ + 1]
        wait == [S EXCEPT !.imq_threads[q] = Append(@, t),
                          !.ith[t] = Wait(@, "RCV_IN_PROGRESS", c.size)] IN
    \/ /\ M # <<>> /\ Head(M).size > c.size
       /\ Become(Idle(S, t)) /\ Return(t)
    \/ /\ M # <<>> /\ Head(M).size <= c.size
       /\ Become(take)
       /\ pc' = [pc EXCEPT ![t] = "account"] /\ call' = [call EXCEPT ![t] = c]
    \/ /\ M = <<>> /\ c.timeout = "now"
       /\ Become(Idle(S, t)) /\ Return(t)
    \/ /\ M = <<>> /\ c.timeout # "now"
       /\ Become(wait)
       /\ pc' = [pc EXCEPT ![t] = "receive"] /\ call' = [call EXCEPT ![t] = c]

\* ipc_mqueue_copyin, then ipc_mqueue_receive.  A port in a dead set is taken
\* out of it first; one in a live set is refused.
ipc_mqueue_receive(t, q, size, timeout) ==
    LET c == [NoCall EXCEPT !.port = q, !.size = size, !.timeout = timeout] IN
    /\ pc[t] = "idle" /\ Call
    /\ Alive(q)
    /\ \/ /\ q \in Ports => ip_pset[q] = Null
          /\ TryReceive(t, c, Now)
          /\ UNCHANGED ip_pset
       \/ /\ q \in Ports /\ ip_pset[q] \in dead
          /\ TryReceive(t, c, ipc_pset_remove(Now, ip_pset[q], q))
          /\ ip_pset' = [ip_pset EXCEPT ![q] = Null]
    /\ UNCHANGED <<dead, ip_qlimit, ip_msgcount, ip_blocked, sent, base, wasted>>

\* The receiver runs again, and looks at why.
receive_resumes(t) ==
    LET c == call[t]
        off == [Now EXCEPT !.imq_threads[c.port] = ipc_thread_rmqueue(@, t)] IN
    /\ pc[t] = "receive" /\ ~ith[t].wait
    /\ \/ /\ Woke(t) = "SUCCESS"
          /\ Become([Now EXCEPT !.ith[t] = [NoWait EXCEPT !.kmsg = ith[t].kmsg]])
          /\ pc' = [pc EXCEPT ![t] = "account"]
          /\ UNCHANGED call
       \/ /\ Woke(t) \in {"TOO_LARGE", "PORT_DIED", "PORT_CHANGED"}
          /\ Become(Idle(Now, t)) /\ Return(t)
       \/ /\ Woke(t) = "TIMED_OUT"
          /\ TryReceive(t, [c EXCEPT !.timeout = "now"], off)
       \/ /\ Woke(t) = "INTERRUPTED"
          /\ Become(Idle(off, t)) /\ Return(t)
       \/ /\ Woke(t) = "AWAKENED"
          /\ Become(off)
          /\ pc' = [pc EXCEPT ![t] = "panic"]
          /\ UNCHANGED call
    /\ UNCHANGED <<portvars, ip_msgcount, ip_blocked, calls, sent, base, wasted>>

\* The senders in set W are told to try again.
Rouse(W) == [t \in Threads |-> IF t \in W THEN [thread_go(ith[t]) EXCEPT !.state = "SUCCESS"]
                               ELSE ith[t]]

\* Mutant: the message that was received still counts.
LetsIn_CountsItself(p) ==
    IF Alive(p) /\ ip_blocked[p] # <<>> /\ ip_msgcount[p] < ip_qlimit[p]
    THEN {Head(ip_blocked[p])} ELSE {}

\* The sender that may go on once a message of p has been counted out.
LetsIn(p) ==
    IF Alive(p) /\ ip_blocked[p] # <<>> /\ ip_msgcount[p] - 1 < ip_qlimit[p]
    THEN {Head(ip_blocked[p])} ELSE {}

\* The message is counted out of its port, and a blocked sender let in.
receive_accounts(t) ==
    LET p == ith[t].kmsg.port
        W == LetsIn(p) IN
    /\ pc[t] = "account"
    /\ ip_msgcount' = [ip_msgcount EXCEPT ![p] = IF Alive(p) THEN @ - 1 ELSE @]
    /\ ip_blocked' = [ip_blocked EXCEPT ![p] = IF W = {} THEN @ ELSE Tail(@)]
    /\ ith' = [Rouse(W) EXCEPT ![t] = NoWait]
    /\ Return(t)
    /\ UNCHANGED <<portvars, ip_seqno, imq, calls, sent, base, wasted>>

-----------------------------------------------------------------------------
(* Wakeups that are not IPC's, and operations on ports and sets *)

\* clear_wait by the timer of the wait, or by thread_abort.
clear_wait(t, result) ==
    /\ ith[t].wait
    /\ result = "TIMED_OUT" => call[t].timeout = "later"
    /\ ith' = [ith EXCEPT ![t].wait = FALSE, ![t].result = result]
    /\ UNCHANGED <<portvars, ip_msgcount, ip_seqno, ip_blocked, imq, threadvars, sent, base, wasted>>

ipc_port_set_qlimit(p, qlimit) ==
    LET n == IF qlimit > ip_qlimit[p] THEN qlimit - ip_qlimit[p] ELSE 0
        B == ip_blocked[p] IN
    /\ Call /\ Alive(p)
    /\ ip_qlimit' = [ip_qlimit EXCEPT ![p] = qlimit]
    /\ ip_blocked' = [ip_blocked EXCEPT ![p] = SubSeq(B, n + 1, Len(B))]
    /\ ith' = Rouse({B[i] : i \in 1..Len(B) \cap 1..n})
    /\ UNCHANGED <<dead, ip_pset, ip_msgcount, ip_seqno, imq, pc, call, sent, base, wasted>>

\* The port leaves the set it is in, if any, and enters nset, if any.
ipc_pset_move(p, nset) ==
    LET oset == ip_pset[p]
        out == IF oset = Null THEN Now ELSE ipc_pset_remove(Now, oset, p) IN
    /\ Call /\ Alive(p) /\ nset # oset
    /\ nset = Null \/ Alive(nset)
    /\ Become(IF nset = Null THEN out ELSE ipc_pset_add(out, nset, p))
    /\ ip_pset' = [ip_pset EXCEPT ![p] = nset]
    /\ UNCHANGED <<dead, ip_qlimit, ip_msgcount, ip_blocked, pc, call, sent, base, wasted>>

\* The members stay in the dead set until each is next received from, moved
\* or destroyed.
ipc_pset_destroy(s) ==
    /\ Call /\ Alive(s)
    /\ dead' = dead \cup {s}
    /\ Become(ipc_mqueue_changed(Now, s, "PORT_DIED"))
    /\ UNCHANGED <<ip_pset, ip_qlimit, ip_msgcount, ip_blocked, pc, call, sent, base, wasted>>

\* What ipc_port_clear_receiver makes of queues, threads and numbers.
Cleared(p) ==
    LET S == IF ip_pset[p] # Null THEN ipc_pset_remove(Now, ip_pset[p], p)
             ELSE ipc_mqueue_changed(Now, p, "PORT_DIED") IN
    [S EXCEPT !.ip_seqno[p] = 0]

\* The receive right is sent away, or goes to a backup port.
ipc_port_clear_receiver(p) ==
    /\ Call /\ Alive(p)
    /\ Become(Cleared(p))
    /\ ip_pset' = [ip_pset EXCEPT ![p] = Null]
    /\ base' = [base EXCEPT ![p] = @ + ip_seqno[p]]
    /\ UNCHANGED <<dead, ip_qlimit, ip_msgcount, ip_blocked, pc, call, sent, wasted>>

\* ipc_port_clear_receiver, then ipc_port_destroy: all senders are roused and
\* the messages destroyed.
ipc_port_destroy(p) ==
    LET S == Cleared(p)
        B == Range(ip_blocked[p]) IN
    /\ Call /\ Alive(p)
    /\ dead' = dead \cup {p}
    /\ ip_pset' = [ip_pset EXCEPT ![p] = Null]
    /\ ip_blocked' = [ip_blocked EXCEPT ![p] = <<>>]
    /\ Become([S EXCEPT !.imq_messages[p] = <<>>,
                        !.ith = [t \in Threads |-> IF t \in B THEN Rouse(B)[t] ELSE @[t]]])
    /\ UNCHANGED <<ip_qlimit, ip_msgcount, pc, call, sent, base, wasted>>

-----------------------------------------------------------------------------
ThreadStep(t) ==
    \/ \E p \in Ports, size \in Sizes, kind \in Kinds, timeout \in Timeouts :
          ipc_mqueue_send(t, p, size, kind, timeout)
    \/ send_resumes(t) \/ send_goes(t)
    \/ \E q \in Queues, size \in Sizes, timeout \in Timeouts :
          ipc_mqueue_receive(t, q, size, timeout)
    \/ receive_resumes(t) \/ receive_accounts(t)
    \/ \E result \in {"TIMED_OUT", "INTERRUPTED"} : clear_wait(t, result)

PortStep ==
    \/ \E p \in Ports :
          \/ \E n \in QLimits \ {ip_qlimit[p]} : ipc_port_set_qlimit(p, n)
          \/ \E nset \in Psets \cup {Null} : ipc_pset_move(p, nset)
          \/ ipc_port_clear_receiver(p) \/ ipc_port_destroy(p)
    \/ \E s \in Psets : ipc_pset_destroy(s)

\* A thread that panics takes no more steps; the others are let go on.
Next == (\E t \in Threads : ThreadStep(t)) \/ PortStep

Spec == Init /\ [][Next]_vars

-----------------------------------------------------------------------------
(* Properties *)

\* No queue holds a message while a receiver waits on it: a message never
\* sits beside a thread that would take it.  ipc_mqueue_send and
\* ipc_mqueue_move assert it whenever they take a receiver off a queue.
NoMessageBesideReceiver ==
    \A q \in Queues : imq_messages[q] = <<>> \/ imq_threads[q] = <<>>

\* The messages of a port that threads hold and have not yet counted out.
InHand(p) == {t \in Threads : /\ ith[t].kmsg # Null /\ ith[t].kmsg.port = p
                              /\ \/ pc[t] = "account"
                                 \/ pc[t] = "receive" /\ ith[t].state = "SUCCESS"}
\* The places of its messages in the queue it uses.
Queued(p) == {i \in DOMAIN imq_messages[QueueOf(p)] : imq_messages[QueueOf(p)][i].port = p}

\* ip_msgcount of a live port is the number of its messages that are queued,
\* on its own queue or its set's, or in the hands of a receiver that has not
\* locked the port yet: none is lost or counted twice when a port changes
\* sets, when a receiver times out as it is given one, or when a send resumes.
MsgCountExact ==
    \A p \in Ports : Alive(p) =>
        ip_msgcount[p] = Cardinality(Queued(p)) + Cardinality(InHand(p))

\* Messages of a live port are received, and numbered by ip_seqno, in the
\* order the port accepted them, with none left out: those queued are exactly
\* the ones after the last given a sequence number, in order, whatever sets
\* the port was moved through.
InOrder ==
    \A p \in Ports : Alive(p) =>
        LET id(i) == imq_messages[QueueOf(p)][i].id IN
        /\ {id(i) : i \in Queued(p)} = (base[p] + ip_seqno[p])..(sent[p] - 1)
        /\ \A i, j \in Queued(p) : i < j => id(i) < id(j)

\* Only the queue a port uses holds its messages, and only live ports have
\* any: a message left on a queue its port no longer uses is never received.
OnPortsQueue ==
    \A q \in Queues : \A i \in 1..Len(imq_messages[q]) :
        LET p == imq_messages[q][i].port IN Alive(p) /\ QueueOf(p) = q

\* A thread is on a queue of receivers or senders exactly while it waits in
\* that call with no answer yet: nobody gives a message, or a slot, to a
\* thread that has left.
WaitsWhereQueued ==
    \A t \in Threads :
        /\ \A q \in Queues : t \in Range(imq_threads[q]) <=>
              pc[t] = "receive" /\ call[t].port = q /\ ith[t].state = "RCV_IN_PROGRESS"
        /\ \A p \in Ports : t \in Range(ip_blocked[p]) <=>
              pc[t] = "send" /\ call[t].port = p /\ ith[t].state = "SEND_IN_PROGRESS"

\* While a sender waits for a live port, the messages counted and the senders
\* let in fill it to its limit: no slot is free that no wakeup is on its way
\* to.  The loop of ipc_mqueue_send says a sender does not block under the
\* queue limit.  The exception is a port at which a sender was let in whose
\* message is circular: it does not use the slot and lets nobody else in.
NoIdleSlot ==
    \A p \in Ports : Alive(p) /\ ip_blocked[p] # <<>> /\ p \notin wasted
        => ip_msgcount[p] + Cardinality({t \in Threads : LetIn(t, p)}) >= ip_qlimit[p]
=============================================================================
