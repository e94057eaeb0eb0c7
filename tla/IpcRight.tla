------------------------------ MODULE IpcRight ------------------------------
(***************************************************************************)
(* Port rights: the entries of name spaces, the counts and the references  *)
(* a port keeps of its rights, the notifications a task may ask for, and   *)
(* the death of ports and of spaces                                        *)
(* (mach4/kernel/ipc/ipc_right.c, ipc_object.c, ipc_port.c, ipc_notify.c,  *)
(* ipc_space.c, mach_port.c).                                              *)
(*                                                                         *)
(* A kernel call works under the space lock and one port lock, so it is    *)
(* one step; what it does after it has unlocked (sending a notification,   *)
(* tearing down a dead port, copying out a received message) is a piece of *)
(* `work' that its thread still has to do, and other calls come between.   *)
(*                                                                         *)
(* Operators take and return the kernel state K, a record of the variables *)
(* below. Port sets, msg-accepted requests, reply ports and the *_compat   *)
(* calls are not modelled.                                                 *)
(***************************************************************************)
EXTENDS Integers, Sequences, FiniteSets, Bags, FiniteSetsExt

CONSTANTS
    Spaces, Names, Ports, Null,
    MACH_PORT_UREFS_MAX,    \* limit on the user references of an entry
    MaxRequests,            \* slots of a port's table of dead-name requests
    MaxNaked,               \* rights held outside of spaces and queues
    MaxMscount,             \* bound on the make-send count
    MaxCalls                \* bound on the number of kernel calls

VARIABLES
    is_active,   \* [Spaces -> BOOLEAN], the space is alive
    ie,          \* ie[s][n], the entry of name n in space s
    ip,          \* the ports
    naked,       \* bag of the rights that a thread or a user message holds
    work,        \* bag of what threads still do after unlocking
    stray,       \* history: send rights that mod_refs turned into dead names
                 \* of a port which its backup then kept alive
    sync,        \* history: the sync argument of a port's no-senders request
    calls        \* kernel calls made so far

vars == <<is_active, ie, ip, naked, work, stray, sync, calls>>

NoEntry == [type |-> {}, urefs |-> 0, port |-> Null, request |-> 0]

\* A right on its way: the port and one of "send", "sonce", "receive".
Right(p, k) == [port |-> p, msgt |-> k]
NoRight == Right(Null, "none")

\* A message: the right that carries it, and the right in its body.
Message(k, r) == [right |-> k, body |-> r]

\* A piece of work: what to do, on which port, with which message, for whom.
Job(op, p, m, s) == [op |-> op, port |-> p, m |-> m, space |-> s]
NoMessage == Message("none", NoRight)

One(x) == SetToBag({x})

Kernel == [ie |-> ie, ip |-> ip, naked |-> naked, work |-> work]

Becomes(K) ==
    /\ ie' = K.ie
    /\ ip' = K.ip
    /\ naked' = K.naked
    /\ work' = K.work

-----------------------------------------------------------------------------
(* References, counts and requests of a port.                              *)

ip_active(K, p) == K.ip[p].state = "active"

ip_reference(K, p) == [K EXCEPT !.ip[p].references = @ + 1]

ip_release(K, p) == [K EXCEPT !.ip[p].references = @ - 1]

ip_check_unlock(K, p) ==
    IF K.ip[p].references = 0 THEN [K EXCEPT !.ip[p].state = "freed"] ELSE K

ipc_port_release(K, p) == ip_check_unlock(ip_release(K, p), p)

Owe(K, job) == [K EXCEPT !.work = @ (+) One(job)]

Hold(K, r) == [K EXCEPT !.naked = @ (+) One(r)]

Spend(K, r) == [K EXCEPT !.naked = @ (-) One(r)]

\* ipc_notify_*: the thread will send a message to the send-once right q.
Notify(K, q) == Owe(K, Job("notify", q, Message("sonce", NoRight), Null))

\* `--ip_srights == 0' and what every place that writes it does then.
LoseSend(K, p) ==
    LET D == [K EXCEPT !.ip[p].srights = @ - 1]
        ns == K.ip[p].nsrequest
    IN IF D.ip[p].srights = 0 /\ ns # Null
       THEN Notify([D EXCEPT !.ip[p].nsrequest = Null], ns)
       ELSE D

ipc_port_clear_receiver(K, p) == [K EXCEPT !.ip[p].mscount = 0]

\* With a backup the port goes into limbo, otherwise it dies; the rest of
\* the work is done with the port unlocked.
ipc_port_destroy(K, p) ==
    LET pd == K.ip[p].pdrequest
        L == [K EXCEPT !.ip[p].receiver = Null, !.ip[p].destination = Null,
                       !.ip[p].pdrequest = Null]
    IN IF pd # Null
       THEN Owe(L, Job("backup", p, Message("sonce", Right(pd, "sonce")), Null))
       ELSE Owe([L EXCEPT !.ip[p].state = "dead"], Job("reap", p, NoMessage, Null))

ipc_port_release_send(K, p) ==
    IF ip_active(K, p) THEN LoseSend(ip_release(K, p), p)
    ELSE ipc_port_release(K, p)

\* Mutant: ip_sorights is not lowered.
ipc_port_release_sonce_KeepsCount(K, p) ==
    LET D == ip_release(K, p)
    IN IF ip_active(K, p) THEN D ELSE ip_check_unlock(D, p)

ipc_port_release_sonce(K, p) ==
    LET D == ip_release([K EXCEPT !.ip[p].sorights = @ - 1], p)
    IN IF ip_active(K, p) THEN D ELSE ip_check_unlock(D, p)

ipc_port_release_receive(K, p) ==
    LET dest == K.ip[p].destination
        D == ipc_port_destroy(K, p)
    IN IF dest = Null THEN D
       ELSE Owe(D, Job("release", dest, NoMessage, Null))

ipc_object_destroy(K, r) ==
    CASE r.msgt = "send"    -> ipc_port_release_send(K, r.port)
      [] r.msgt = "sonce"   -> Notify(K, r.port)
      [] r.msgt = "receive" -> ipc_port_release_receive(K, r.port)
      [] r.msgt = "none"    -> K

\* The chain of ports in transit that starts at d ends at the base.
Base(K, d) ==
    LET next(q) == IF ip_active(K, q) /\ K.ip[q].receiver = Null
                      /\ K.ip[q].destination # Null
                   THEN K.ip[q].destination ELSE q
        at[i \in 0..Cardinality(Ports)] == IF i = 0 THEN d ELSE next(at[i - 1])
    IN at[Cardinality(Ports)]

\* Mutant: the chain is not followed.
ipc_port_check_circularity_Self(K, p, d) == p = d

ipc_port_check_circularity(K, p, d) == p = d \/ Base(K, d) = p

\* Not circular: the port is from now on in transit to d.
InTransit(K, p, d) == ip_reference([K EXCEPT !.ip[p].destination = d], d)

\* ipc_mqueue_send with a message nobody waits for.
ipc_mqueue_send(K, d, m) ==
    IF ip_active(K, d) THEN [K EXCEPT !.ip[d].queue = Append(@, m)]
    ELSE ipc_object_destroy(ipc_port_release(K, d), m.body)

-----------------------------------------------------------------------------
(* Entries.                                                                *)

ipc_entry_dealloc(K, s, n) == [K EXCEPT !.ie[s][n] = NoEntry]

\* The send-once right of the entry's dead-name request.
Soright(K, s, n) == LET e == K.ie[s][n] IN
    IF e.request = 0 THEN Null ELSE K.ip[e.port].dnrequests[e.request].soright

ipc_right_dncancel(K, s, n) == LET e == K.ie[s][n] IN
    IF e.request = 0 THEN K
    ELSE [K EXCEPT !.ip[e.port].dnrequests[e.request] = Null,
                   !.ie[s][n].request = 0]

\* Cancel the request and send a port-deleted notification to it.
CancelAndNotify(K, s, n) ==
    IF K.ie[s][n].request = 0 THEN K
    ELSE Notify(ipc_right_dncancel(K, s, n), Soright(K, s, n))

\* The entry after its port has died: a dead name, with one more user
\* reference if a dead-name notification speaks of it.
DeadName(e) == [type |-> {"dead"}, port |-> Null, request |-> 0,
                urefs |-> IF e.request = 0 THEN e.urefs ELSE e.urefs + 1]

ipc_right_check(K, s, n) == LET e == K.ie[s][n] IN
    IF e.port = Null THEN K
    ELSE IF ip_active(K, e.port) THEN K
    ELSE ipc_port_release([K EXCEPT !.ie[s][n] = DeadName(e)], e.port)

ipc_right_destroy(K, s, n) ==
    LET e == K.ie[s][n]
        C == ipc_entry_dealloc(CancelAndNotify(K, s, n), s, n)
        D == IF "send" \in e.type THEN LoseSend(C, e.port) ELSE C
    IN CASE e.type = {"dead"} -> ipc_entry_dealloc(K, s, n)
         [] e.type # {"dead"} /\ ~ip_active(K, e.port) ->
              ipc_entry_dealloc(ipc_port_release(K, e.port), s, n)
         [] e.type # {"dead"} /\ ip_active(K, e.port) ->
              CASE "receive" \in e.type ->
                     ipc_port_destroy(ipc_port_clear_receiver(D, e.port), e.port)
                [] e.type = {"sonce"} -> Notify(D, e.port)
                [] e.type = {"send"}  -> ip_release(D, e.port)

\* An entry of a dead space.
ipc_right_clean(K, s, n) == ipc_right_destroy(K, s, n)

\* Change the user references of a send right to a live port.
SendDelta(K, s, n, delta) ==
    LET e == K.ie[s][n]
        D == LoseSend(K, e.port)
    IN CASE e.urefs + delta # 0 -> [K EXCEPT !.ie[s][n].urefs = @ + delta]
         [] e.urefs + delta = 0 /\ "receive" \in e.type ->
              [D EXCEPT !.ie[s][n].urefs = 0, !.ie[s][n].type = {"receive"}]
         [] e.urefs + delta = 0 /\ "receive" \notin e.type ->
              ipc_entry_dealloc(
                  ip_release(CancelAndNotify(D, s, n), e.port), s, n)

DeadNameDelta(K, s, n, delta) ==
    IF K.ie[s][n].urefs + delta = 0 THEN ipc_entry_dealloc(K, s, n)
    ELSE [K EXCEPT !.ie[s][n].urefs = @ + delta]

\* A send-once right is given up by a send-once notification.
SendOnceDealloc(K, s, n) ==
    Notify(ipc_entry_dealloc(CancelAndNotify(K, s, n), s, n), K.ie[s][n].port)

ipc_right_dealloc(K, s, n) ==
    LET C == ipc_right_check(K, s, n)
        e == C.ie[s][n]
    IN CASE e.type = {"dead"}    -> DeadNameDelta(C, s, n, -1)
         [] e.type = {"sonce"}   -> SendOnceDealloc(C, s, n)
         [] "send" \in e.type    -> SendDelta(C, s, n, -1)
         [] e.type = {"receive"} -> K

\* The receive right goes and its port is destroyed. A send right beside it
\* turns into a dead name: ip_srights and the request table are left alone.
ReceiveDealloc(K, s, n) ==
    LET e == K.ie[s][n]
        C == IF "send" \in e.type THEN [K EXCEPT !.ie[s][n] = DeadName(e)]
             ELSE ipc_entry_dealloc(CancelAndNotify(K, s, n), s, n)
    IN ipc_port_destroy(ipc_port_clear_receiver(C, e.port), e.port)

\* Mutant: no room is left for the reference that the port's death adds.
UrefsInRange_Full(urefs, delta, max) == urefs + delta \in 0..(max + 1)

UrefsInRange(urefs, delta, max) == urefs + delta \in 0..max

ipc_right_delta(K, s, n, right, delta) ==
    LET f == K.ie[s][n]
        C == ipc_right_check(K, s, n)
        e == C.ie[s][n]
    IN CASE right = "receive" ->
              IF "receive" \in f.type /\ delta = -1 THEN ReceiveDealloc(K, s, n)
              ELSE K
         [] right = "sonce" ->
              IF "sonce" \notin f.type \/ delta \notin {-1, 0} THEN K
              ELSE IF "sonce" \in e.type /\ delta = -1
                   THEN SendOnceDealloc(C, s, n) ELSE C
         [] right = "dead" ->
              IF e.type = {"dead"}
                 /\ UrefsInRange(e.urefs, delta, MACH_PORT_UREFS_MAX)
              THEN DeadNameDelta(C, s, n, delta) ELSE C
         [] right = "send" ->
              IF "send" \notin f.type
                 \/ ~UrefsInRange(f.urefs, delta, MACH_PORT_UREFS_MAX - 1) THEN K
              ELSE IF "send" \in e.type THEN SendDelta(C, s, n, delta) ELSE C

-----------------------------------------------------------------------------
(* Moving rights into and out of a space.                                  *)

\* Another send right to a live port, for the message.
CopySend(K, p) ==
    Hold(ip_reference([K EXCEPT !.ip[p].srights = @ + 1], p), Right(p, "send"))

\* Mutant: the dead-name request is not cancelled.
MoveLastSend_KeepsRequest(K, s, n) ==
    LET e == K.ie[s][n]
        H == Hold(K, Right(e.port, "send"))
    IN IF "receive" \in e.type
       THEN ip_reference([H EXCEPT !.ie[s][n].type = {"receive"},
                                   !.ie[s][n].urefs = 0], e.port)
       ELSE ipc_entry_dealloc(H, s, n)

\* The last user reference: the right itself goes into the message.
MoveLastSend(K, s, n) ==
    LET e == K.ie[s][n]
        H == Hold(K, Right(e.port, "send"))
    IN IF "receive" \in e.type
       THEN ip_reference([H EXCEPT !.ie[s][n].type = {"receive"},
                                   !.ie[s][n].urefs = 0], e.port)
       ELSE ipc_entry_dealloc(CancelAndNotify(H, s, n), s, n)

\* Mutant: the send right left behind has no reference of its own.
MoveReceive_NoReference(K, s, n) ==
    LET e == K.ie[s][n]
        p == e.port
        C == IF "send" \in e.type THEN [K EXCEPT !.ie[s][n].type = {"send"}]
             ELSE ipc_entry_dealloc(CancelAndNotify(K, s, n), s, n)
        L == [ipc_port_clear_receiver(C, p) EXCEPT
                 !.ip[p].receiver = Null, !.ip[p].destination = Null]
    IN Hold(L, Right(p, "receive"))

\* The receive right leaves; the port is in limbo. A send right stays behind
\* under the same name with a reference of its own.
MoveReceive(K, s, n) ==
    LET e == K.ie[s][n]
        p == e.port
        C == IF "send" \in e.type
             THEN ip_reference([K EXCEPT !.ie[s][n].type = {"send"}], p)
             ELSE ipc_entry_dealloc(CancelAndNotify(K, s, n), s, n)
        L == [ipc_port_clear_receiver(C, p) EXCEPT
                 !.ip[p].receiver = Null, !.ip[p].destination = Null]
    IN Hold(L, Right(p, "receive"))

\* A dead right is copied in as IO_DEAD, which carries nothing; the entry is
\* deallocated by the caller when no right is left.
ipc_right_copyin(K, s, n, msgt) ==
    LET f == K.ie[s][n]
        C == ipc_right_check(K, s, n)
        e == C.ie[s][n]
        p == f.port
    IN CASE msgt \in {"make_send", "make_sonce", "move_receive"}
              /\ "receive" \notin f.type -> K
         [] msgt = "make_send" /\ "receive" \in f.type ->
              CopySend([K EXCEPT !.ip[p].mscount = @ + 1], p)
         [] msgt = "make_sonce" /\ "receive" \in f.type ->
              Hold(ip_reference([K EXCEPT !.ip[p].sorights = @ + 1], p),
                   Right(p, "sonce"))
         [] msgt = "move_receive" /\ "receive" \in f.type ->
              MoveReceive(K, s, n)
         [] msgt = "copy_send" ->
              IF "send" \in e.type THEN CopySend(C, p) ELSE C
         [] msgt = "move_send" ->
              CASE e.type = {"dead"} -> DeadNameDelta(C, s, n, -1)
                [] "send" \in e.type ->
                     IF e.urefs = 1 THEN MoveLastSend(C, s, n)
                     ELSE [CopySend(C, p) EXCEPT !.ie[s][n].urefs = @ - 1]
                [] OTHER -> C
         [] msgt = "move_sonce" ->
              CASE e.type = {"dead"} -> DeadNameDelta(C, s, n, -1)
                [] "sonce" \in e.type ->
                     ipc_entry_dealloc(
                         CancelAndNotify(Hold(C, Right(p, "sonce")), s, n), s, n)
                [] OTHER -> C

\* The name under which a live port's send or receive right is known in s.
Known(K, s, p) == {n \in Names : K.ie[s][n].port = p
                                  /\ K.ie[s][n].type \cap {"send", "receive"} # {}}

ipc_right_reverse(K, s, r) ==
    IF r.msgt = "sonce" \/ ~ip_active(K, r.port) THEN {} ELSE Known(K, s, r.port)

Free(K, s) == {n \in Names : K.ie[s][n].type = {}}

\* The space takes the right under the name n, which is free or already
\* denotes the port: a send right is merged with the one it has (the count
\* stays at its maximum), a receive right ends the port's transit.
ipc_right_copyout(K, s, n, r) ==
    LET e == K.ie[s][n]
        p == r.port
        dest == K.ip[p].destination
        Merged == ip_release([K EXCEPT !.ip[p].srights = @ - 1], p)
        R == [K EXCEPT !.ip[p].receiver = <<s, n>>, !.ip[p].destination = Null,
                       !.ie[s][n].type = @ \cup {"receive"},
                       !.ie[s][n].port = p]
        S == IF "send" \in e.type THEN ip_release(R, p) ELSE R
    IN CASE r.msgt = "sonce" ->
              [K EXCEPT !.ie[s][n] = [type |-> {"sonce"}, urefs |-> 1,
                                      port |-> p, request |-> 0]]
         [] r.msgt = "send" /\ "send" \in e.type ->
              IF e.urefs + 1 = MACH_PORT_UREFS_MAX THEN Merged
              ELSE [Merged EXCEPT !.ie[s][n].urefs = @ + 1]
         [] r.msgt = "send" /\ e.type = {"receive"} ->
              ip_release([K EXCEPT !.ie[s][n].type = {"send", "receive"},
                                   !.ie[s][n].urefs = 1], p)
         [] r.msgt = "send" /\ e.type = {} ->
              [K EXCEPT !.ie[s][n] = [type |-> {"send"}, urefs |-> 1,
                                      port |-> p, request |-> 0]]
         [] r.msgt = "receive" ->
              IF dest = Null THEN S ELSE ipc_port_release(S, dest)

\* Copyout of a right in a message: under the name the space already has for
\* the port, or a new one; a right that cannot be given is destroyed.
ipc_kmsg_copyout_object(K, s, active, r, n) ==
    LET known == ipc_right_reverse(K, s, r)
    IN CASE r = NoRight -> K
         [] r # NoRight /\ (~active \/ ~ip_active(K, r.port)) ->
              ipc_object_destroy(K, r)
         [] r # NoRight /\ active /\ ip_active(K, r.port) /\ known # {} ->
              ipc_right_copyout(K, s, CHOOSE k \in known : TRUE, r)
         [] r # NoRight /\ active /\ ip_active(K, r.port) /\ known = {} ->
              ipc_right_copyout(K, s, n, r)

\* A received message gives up the right it was sent with.
ipc_object_copyout_dest(K, s, q, k) ==
    CASE ~ip_active(K, q) -> ipc_port_release(K, q)
      [] ip_active(K, q) /\ k = "send" -> LoseSend(ip_release(K, q), q)
      [] ip_active(K, q) /\ k = "sonce" ->
           IF K.ip[q].receiver # Null /\ K.ip[q].receiver[1] = s
           THEN ip_release([K EXCEPT !.ip[q].sorights = @ - 1], q)
           ELSE Notify(K, q)

-----------------------------------------------------------------------------
(* Notification requests; the previous request goes back to the caller.    *)

Take(K, q) == IF q = Null THEN K ELSE Spend(K, Right(q, "sonce"))

Return(K, q) == IF q = Null THEN K ELSE Hold(K, Right(q, "sonce"))

ipc_port_pdrequest(K, p, notify) ==
    Return([Take(K, notify) EXCEPT !.ip[p].pdrequest = notify],
           K.ip[p].pdrequest)

\* Mutant: the make-send count must have passed sync.
NoSendersNow_Past(K, p, syn, notify) ==
    K.ip[p].srights = 0 /\ syn < K.ip[p].mscount /\ notify # Null

NoSendersNow(K, p, syn, notify) ==
    K.ip[p].srights = 0 /\ syn <= K.ip[p].mscount /\ notify # Null

ipc_port_nsrequest(K, p, syn, notify) ==
    LET T == Return(Take(K, notify), K.ip[p].nsrequest)
    IN IF NoSendersNow(K, p, syn, notify)
       THEN Notify([T EXCEPT !.ip[p].nsrequest = Null], notify)
       ELSE [T EXCEPT !.ip[p].nsrequest = notify]

FreeSlots(K, p) == {i \in 1..MaxRequests : K.ip[p].dnrequests[i] = Null}

\* A request replaces the entry's earlier one in its slot. A dead name is
\* notified of at once if the caller asked for that.
ipc_right_dnrequest(K, s, n, immediate, notify) ==
    LET C == ipc_right_check(K, s, n)
        e == C.ie[s][n]
        slot == IF e.request # 0 THEN e.request ELSE Min(FreeSlots(C, e.port))
        T == Return(Take(C, notify), Soright(C, s, n))
    IN CASE e.type # {"dead"} /\ notify = Null ->
              Return(ipc_right_dncancel(C, s, n), Soright(C, s, n))
         [] e.type # {"dead"} /\ notify # Null ->
              [T EXCEPT !.ip[e.port].dnrequests[slot] =
                            [name |-> n, soright |-> notify],
                        !.ie[s][n].request = slot]
         [] e.type = {"dead"} ->
              IF immediate /\ notify # Null /\ e.urefs < MACH_PORT_UREFS_MAX
              THEN Notify([Take(C, notify) EXCEPT !.ie[s][n].urefs = @ + 1], notify)
              ELSE C

\* Mutant: ip_receiver_name is not changed.
ipc_right_rename_KeepsReceiver(K, s, o, n) ==
    LET C == IF K.ie[s][o].request # 0 THEN ipc_right_check(K, s, o) ELSE K
        e == C.ie[s][o]
        D == IF e.request = 0 THEN C
             ELSE [C EXCEPT !.ip[e.port].dnrequests[e.request].name = n]
    IN [D EXCEPT !.ie[s][n] = e, !.ie[s][o] = NoEntry]

\* The entry moves to a new name, and with it its request and the port's
\* record of its receiver.
ipc_right_rename(K, s, o, n) ==
    LET C == IF K.ie[s][o].request # 0 THEN ipc_right_check(K, s, o) ELSE K
        e == C.ie[s][o]
        D == IF e.request = 0 THEN C
             ELSE [C EXCEPT !.ip[e.port].dnrequests[e.request].name = n]
        R == IF "receive" \notin e.type THEN D
             ELSE [D EXCEPT !.ip[e.port].receiver = <<s, n>>]
    IN [R EXCEPT !.ie[s][n] = e, !.ie[s][o] = NoEntry]

-----------------------------------------------------------------------------
(* Kernel calls of a task.                                                 *)

NewPort(s, n) ==
    [state |-> "active", references |-> 1, receiver |-> <<s, n>>,
     destination |-> Null, mscount |-> 0, srights |-> 0, sorights |-> 0,
     nsrequest |-> Null, pdrequest |-> Null,
     dnrequests |-> [i \in 1..MaxRequests |-> Null], queue |-> <<>>]

Denotes(s, n) == is_active[s] /\ ie[s][n].type # {}

\* A call by a task, within the bound; one that changes nothing is a stutter.
Call(K) ==
    /\ calls < MaxCalls /\ K # Kernel
    /\ calls' = calls + 1
    /\ Becomes(K)
    /\ UNCHANGED is_active

mach_port_allocate_receive(s, n, p) ==
    /\ is_active[s] /\ n \in Free(Kernel, s)
    /\ ip[p].state = "unused"
    /\ Becomes([Kernel EXCEPT
           !.ip[p] = NewPort(s, n),
           !.ie[s][n] = [NoEntry EXCEPT !.type = {"receive"}, !.port = p]])
    /\ UNCHANGED <<is_active, stray, sync, calls>>

mach_port_allocate_dead(s, n) ==
    /\ is_active[s] /\ n \in Free(Kernel, s)
    /\ Call([Kernel EXCEPT !.ie[s][n] =
                 [NoEntry EXCEPT !.type = {"dead"}, !.urefs = 1]])
    /\ UNCHANGED <<stray, sync>>

mach_port_destroy(s, n) ==
    /\ Denotes(s, n)
    /\ Call(ipc_right_destroy(Kernel, s, n))
    /\ UNCHANGED <<stray, sync>>

mach_port_deallocate(s, n) ==
    /\ Denotes(s, n)
    /\ Call(ipc_right_dealloc(Kernel, s, n))
    /\ UNCHANGED <<stray, sync>>

mach_port_mod_refs(s, n, right, delta) ==
    LET e == ie[s][n]
        strays == right = "receive" /\ delta = -1
                  /\ {"send", "receive"} \subseteq e.type
    IN /\ Denotes(s, n)
       /\ Call(ipc_right_delta(Kernel, s, n, right, delta))
       /\ stray' = IF strays THEN [stray EXCEPT ![e.port] = @ + 1] ELSE stray
       /\ UNCHANGED sync

\* ipc_object_copyin, by mach_port_extract_right or for a message's body.
ipc_object_copyin(s, n, msgt) ==
    /\ Denotes(s, n)
    /\ BagCardinality(naked) < MaxNaked
    /\ msgt = "make_send" /\ "receive" \in ie[s][n].type
           => ip[ie[s][n].port].mscount < MaxMscount
    /\ Call(ipc_right_copyin(Kernel, s, n, msgt))
    /\ UNCHANGED <<stray, sync>>

\* ipc_object_copyout_name: the right, out of a message, gets the name n.
mach_port_insert_right(s, n, r) ==
    LET known == ipc_right_reverse(Kernel, s, r)
    IN /\ is_active[s] /\ BagIn(r, naked) /\ ip_active(Kernel, r.port)
       /\ IF known = {} THEN n \in Free(Kernel, s) ELSE known = {n}
       /\ r.msgt = "send" => ie[s][n].urefs + 1 < MACH_PORT_UREFS_MAX
       /\ Call(ipc_right_copyout(Spend(Kernel, r), s, n, r))
       /\ UNCHANGED <<stray, sync>>

mach_port_rename(s, o, n) ==
    /\ Denotes(s, o) /\ n \in Free(Kernel, s)
    /\ Call(ipc_right_rename(Kernel, s, o, n))
    /\ UNCHANGED <<stray, sync>>

Notifiable(notify) == notify = Null \/ BagIn(Right(notify, "sonce"), naked)

request_port_destroyed(s, n, notify) ==
    /\ Denotes(s, n) /\ "receive" \in ie[s][n].type /\ Notifiable(notify)
    /\ Call(ipc_port_pdrequest(Kernel, ie[s][n].port, notify))
    /\ UNCHANGED <<stray, sync>>

request_no_senders(s, n, syn, notify) ==
    /\ Denotes(s, n) /\ "receive" \in ie[s][n].type /\ Notifiable(notify)
    /\ Call(ipc_port_nsrequest(Kernel, ie[s][n].port, syn, notify))
    /\ sync' = [sync EXCEPT ![ie[s][n].port] = IF notify = Null THEN 0 ELSE syn]
    /\ UNCHANGED stray

request_dead_name(s, n, immediate, notify) ==
    /\ Denotes(s, n) /\ Notifiable(notify)
    /\ ie[s][n].port # Null /\ ie[s][n].request = 0
           => FreeSlots(Kernel, ie[s][n].port) # {}
    /\ Call(ipc_right_dnrequest(Kernel, s, n, immediate, notify))
    /\ UNCHANGED <<stray, sync>>

\* A message to d by the right k, with the right r in its body: the body is
\* copied in, then the message is sent. A receive right must not close a
\* circle of ports in each other's queues.
mach_msg_send(k, d, r) ==
    LET S == Spend(Kernel, Right(d, k))
        B == IF r = NoRight THEN S ELSE Spend(S, r)
        receive == r.msgt = "receive"
        circular == receive /\ ipc_port_check_circularity(B, r.port, d)
        T == IF receive /\ ~circular THEN InTransit(B, r.port, d) ELSE B
    IN /\ BagIn(Right(d, k), naked)
       /\ r # NoRight => BagIn(r, S.naked)
       /\ Call(Owe(T, Job(IF circular THEN "circular" ELSE "send", d,
                          Message(k, r), Null)))
       /\ UNCHANGED <<stray, sync>>

\* A message that was copied in is dropped (an error, a full queue).
ipc_kmsg_destroy(r) ==
    /\ BagIn(r, naked)
    /\ Call(ipc_object_destroy(Spend(Kernel, r), r))
    /\ UNCHANGED <<stray, sync>>

\* A thread of s takes the first message of a port it may receive from.
ipc_mqueue_receive(s, n) ==
    LET q == ie[s][n].port
    IN /\ Denotes(s, n) /\ "receive" \in ie[s][n].type
       /\ ip[q].queue # <<>>
       /\ Becomes(Owe([Kernel EXCEPT !.ip[q].queue = Tail(@)],
                      Job("copyout", q, Head(ip[q].queue), s)))
       /\ UNCHANGED <<is_active, stray, sync, calls>>

\* Bound: it counts for two calls, being followed by one for each entry.
ipc_space_destroy(s) ==
    /\ is_active[s]
    /\ calls + 2 <= MaxCalls
    /\ calls' = calls + 2
    /\ is_active' = [is_active EXCEPT ![s] = FALSE]
    /\ UNCHANGED <<ie, ip, naked, work, stray, sync>>

-----------------------------------------------------------------------------
(* What the threads do with their locks released.                          *)

\* One entry of a dead space at a time.
space_clean(s, n) ==
    /\ ~is_active[s] /\ ie[s][n].type # {}
    /\ Becomes(ipc_right_clean(Kernel, s, n))
    /\ UNCHANGED <<is_active, stray, sync, calls>>

Done(job) == [Kernel EXCEPT !.work = @ (-) One(job)]

Work(job, K) ==
    /\ Becomes(K)
    /\ UNCHANGED <<is_active, stray, sync, calls>>

\* ipc_notify_*, when ikm_alloc gives a message and when it does not.
notify_send(job) ==
    /\ job.op = "notify"
    /\ Work(job, ipc_mqueue_send(Done(job), job.port, job.m))

notify_dropped(job) ==
    /\ job.op = "notify"
    /\ Work(job, ipc_object_destroy(ipc_port_release_sonce(Done(job), job.port),
                                    job.m.body))

message_send(job) ==
    /\ job.op = "send"
    /\ Work(job, ipc_mqueue_send(Done(job), job.port, job.m))

\* A circular message is destroyed; a dead destination is seen first.
message_circular(job) ==
    LET D == Done(job)
    IN /\ job.op = "circular"
       /\ Work(job, ipc_object_destroy(
              IF ip_active(D, job.port)
              THEN ipc_object_destroy(D, Right(job.port, job.m.right))
              ELSE ipc_port_release(D, job.port), job.m.body))

\* ipc_port_destroy after it has found a backup.
port_backup(job) ==
    LET D == Done(job)
        p == job.port
        pd == job.m.body.port
        C == ipc_port_release_sonce(D, pd)
    IN /\ job.op = "backup"
       /\ Work(job,
            IF ipc_port_check_circularity(D, p, pd)
            THEN Owe([C EXCEPT !.ip[p].state = "dead"],
                     Job("reap", p, NoMessage, Null))
            ELSE Owe(InTransit(D, p, pd),
                     Job("notify", pd, Message("sonce", Right(p, "receive")), Null)))

\* ipc_port_destroy after the port is dead: the no-senders request, the
\* queued messages, the dead-name requests, and then its own reference.
port_reap(job) ==
    LET p == job.port
        q == ip[p]
        slots == {i \in 1..MaxRequests : q.dnrequests[i] # Null}
    IN /\ job.op = "reap"
       /\ Work(job,
            CASE q.nsrequest # Null ->
                   Notify([Kernel EXCEPT !.ip[p].nsrequest = Null], q.nsrequest)
              [] q.nsrequest = Null /\ q.queue # <<>> ->
                   ipc_object_destroy(
                       ipc_port_release([Kernel EXCEPT !.ip[p].queue = Tail(@)], p),
                       Head(q.queue).body)
              [] q.nsrequest = Null /\ q.queue = <<>> /\ slots # {} ->
                   Notify([Kernel EXCEPT !.ip[p].dnrequests[Min(slots)] = Null],
                          q.dnrequests[Min(slots)].soright)
              [] q.nsrequest = Null /\ q.queue = <<>> /\ slots = {} ->
                   ipc_port_release(Done(job), p))

port_release(job) ==
    /\ job.op = "release"
    /\ Work(job, ipc_port_release(Done(job), job.port))

\* ipc_kmsg_copyout: the destination, then the body.
message_copyout(job, n) ==
    LET s == job.space
        D == ipc_object_copyout_dest(Done(job), s, job.port, job.m.right)
    IN /\ job.op = "copyout"
       /\ is_active[s] => n \in Free(D, s)
       /\ Work(job, ipc_kmsg_copyout_object(D, s, is_active[s], job.m.body, n))

-----------------------------------------------------------------------------
Unused == [NewPort(Null, Null) EXCEPT
              !.state = "unused", !.references = 0, !.receiver = Null]

Init ==
    /\ is_active = [s \in Spaces |-> TRUE]
    /\ ie = [s \in Spaces |-> [n \in Names |-> NoEntry]]
    /\ ip = [p \in Ports |-> Unused]
    /\ naked = EmptyBag
    /\ work = EmptyBag
    /\ stray = [p \in Ports |-> 0]
    /\ sync = [p \in Ports |-> 0]
    /\ calls = 0

RightTypes == {"send", "sonce", "receive", "dead"}
MsgTypes == {"make_send", "make_sonce", "move_receive",
             "copy_send", "move_send", "move_sonce"}
Deltas == {-1, 1}
Rights == {Right(p, k) : p \in Ports, k \in {"send", "sonce", "receive"}}

Next ==
    \/ \E s \in Spaces, n \in Names :
         \/ \E p \in Ports : mach_port_allocate_receive(s, n, p)
         \/ mach_port_allocate_dead(s, n)
         \/ mach_port_destroy(s, n)
         \/ mach_port_deallocate(s, n)
         \/ \E r \in RightTypes, d \in Deltas : mach_port_mod_refs(s, n, r, d)
         \/ \E m \in MsgTypes : ipc_object_copyin(s, n, m)
         \/ \E r \in Rights : mach_port_insert_right(s, n, r)
         \/ \E o \in Names : mach_port_rename(s, o, n)
         \/ \E q \in Ports \cup {Null} :
              \/ request_port_destroyed(s, n, q)
              \/ \E y \in 0..MaxMscount : request_no_senders(s, n, y, q)
              \/ \E i \in BOOLEAN : request_dead_name(s, n, i, q)
         \/ ipc_mqueue_receive(s, n)
         \/ space_clean(s, n)
    \/ \E k \in {"send", "sonce"}, d \in Ports,
          r \in Rights \cup {NoRight} : mach_msg_send(k, d, r)
    \/ \E r \in Rights : ipc_kmsg_destroy(r)
    \/ \E s \in Spaces : ipc_space_destroy(s)
    \/ \E job \in BagToSet(work) :
         \/ notify_send(job)
         \/ notify_dropped(job)
         \/ message_send(job)
         \/ message_circular(job)
         \/ port_backup(job)
         \/ port_reap(job)
         \/ port_release(job)
         \/ \E n \in Names : message_copyout(job, n)

Spec == Init /\ [][Next]_vars

-----------------------------------------------------------------------------
(* Who holds what.                                                         *)

Entries(p, k) == {<<s, n>> \in Spaces \X Names :
                     ie[s][n].port = p /\ k \in ie[s][n].type}

Jobs(P(_)) == BagCardinality([w \in {w \in DOMAIN work : P(w)} |-> work[w]])

Queued == UNION {{q} \X DOMAIN ip[q].queue : q \in Ports}

\* Rights k to p that are in nobody's space: held naked, in the body of a
\* message or the one a message is sent with.
Loose(p, k) ==
    CopiesIn(Right(p, k), naked)
    + Cardinality({x \in Queued : ip[x[1]].queue[x[2]].body = Right(p, k)})
    + Cardinality({x \in Queued : x[1] = p /\ ip[p].queue[x[2]].right = k})
    + Jobs(LAMBDA w : w.m.body = Right(p, k))
    + Jobs(LAMBDA w : w.port = p /\ w.op # "backup" /\ w.m.right = k)

\* Send-once rights to p kept as notification requests.
Requests(p) ==
    Cardinality({q \in Ports : ip[q].nsrequest = p})
    + Cardinality({q \in Ports : ip[q].pdrequest = p})
    + Cardinality({<<q, i>> \in Ports \X (1..MaxRequests) :
                      ip[q].dnrequests[i] # Null
                      /\ ip[q].dnrequests[i].soright = p})

SendRights(p) == Cardinality(Entries(p, "send")) + Loose(p, "send")

SendOnceRights(p) ==
    Cardinality(Entries(p, "sonce")) + Loose(p, "sonce") + Requests(p)

\* A receive right is in a space, in a message, or with the thread that is
\* about to send it to the backup.
ReceiveRights(p) ==
    Cardinality(Entries(p, "receive")) + Loose(p, "receive")
    + Jobs(LAMBDA w : w.port = p /\ w.op = "backup")

References(p) ==
    Cardinality({x \in Spaces \X Names : ie[x[1]][x[2]].port = p})
    + Loose(p, "send") + Loose(p, "sonce") + Loose(p, "receive") + Requests(p)
    + Cardinality({q \in Ports : ip[q].state = "active" /\ ip[q].destination = p})
    + Jobs(LAMBDA w : w.port = p /\ w.op \in {"backup", "reap", "release"})

Live(p) == ip[p].state = "active"

-----------------------------------------------------------------------------
(* Properties.                                                             *)

\* ip_references is the number of entries, messages, requests, ports in
\* transit and threads that point at the port, and the port is freed exactly
\* when the last of them lets go: no use after free and no leak
\* (ip_release and ip_check_unlock at every exit of ipc_right.c).
ReferencesExact == \A p \in Ports :
    /\ ip[p].references = References(p)
    /\ ip[p].state \in {"active", "dead"} <=> ip[p].references > 0

\* A live port counts its send and send-once rights, wherever they are
\* (`assert(port->ip_srights > 0)'). The send rights that mod_refs turned
\* into dead names while a backup saved the port stay counted.
RightsExact == \A p \in Ports : Live(p) =>
    /\ ip[p].srights = SendRights(p) + stray[p]
    /\ ip[p].sorights = SendOnceRights(p)

\* A live port has one receive right, and the port knows the entry that
\* holds it; a dead port has none (`assert(port->ip_receiver == space)').
\* A space has one name for its send and receive rights to a live port:
\* copyout merges what arrives (ipc_right_reverse).
OneReceiveRight == \A p \in Ports :
    /\ ReceiveRights(p) = IF Live(p) THEN 1 ELSE 0
    /\ Live(p) /\ ip[p].receiver # Null => ip[p].receiver \in Entries(p, "receive")
    /\ Live(p) /\ ip[p].receiver = Null => Entries(p, "receive") = {}
    /\ Live(p) => \A s \in Spaces : is_active[s] =>
        Cardinality({x \in Entries(p, "send") \cup Entries(p, "receive") :
                        x[1] = s}) <= 1

\* The request index of an entry leads to the slot with its name, and no two
\* entries share a slot (`assert(ipr->ipr_name == name)'); slots that no
\* entry leads to come from stray send rights only.
RequestsMatch == \A p \in Ports : Live(p) =>
    LET owners(i) == {x \in Spaces \X Names : ie[x[1]][x[2]].port = p
                                              /\ ie[x[1]][x[2]].request = i}
        used == {i \in 1..MaxRequests : ip[p].dnrequests[i] # Null}
    IN /\ \A i \in 1..MaxRequests : \A x \in owners(i) :
            i \in used /\ ip[p].dnrequests[i].name = x[2] /\ owners(i) = {x}
       /\ Cardinality({i \in used : owners(i) = {}}) <= stray[p]

\* User references stay within what the entry can count, with room for the
\* one that the death of the port adds (`maximum urefs for send is
\* MACH_PORT_UREFS_MAX-1').
UrefsBounded == \A s \in Spaces, n \in Names : LET e == ie[s][n] IN
    e.urefs \in CASE e.type = {"dead"}            -> 1..MACH_PORT_UREFS_MAX
                  [] e.type = {"sonce"}           -> {1}
                  [] "send" \in e.type            -> 1..(MACH_PORT_UREFS_MAX - 1)
                  [] e.type \in {{}, {"receive"}} -> {0}

\* A no-senders request that is still pending has a sender to wait for, or
\* waits for a make-send count not yet reached: the notification is not lost.
NoSendersPending == \A p \in Ports :
    Live(p) /\ ip[p].nsrequest # Null /\ stray[p] = 0 /\ SendRights(p) = 0
        => sync[p] > ip[p].mscount

\* No port is in transit, over any number of queues, to itself: such ports
\* could never be received or destroyed (ipc_port_check_circularity).
NoCircle == \A p \in Ports :
    Live(p) /\ ip[p].destination # Null => Base(Kernel, ip[p].destination) # p
                /\ (Live(Base(Kernel, p)) => \/ ip[Base(Kernel, p)].receiver # Null
                                             \/ ip[Base(Kernel, p)].destination = Null)

\* Once a receive right has been given up and its port lives on, the port
\* counts its send rights: what ipc_right_delta supposes when it leaves
\* ip_srights alone "because the port is destroyed first" (ipc_right.c:1097-1103).
SendRightsCounted == \A p \in Ports :
    Live(p) /\ Jobs(LAMBDA w : w.port = p /\ w.op = "backup") = 0
        => ip[p].srights = SendRights(p)
=============================================================================
