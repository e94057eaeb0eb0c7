------------------------- MODULE IpcMqueueReceivers -------------------------
(***************************************************************************)
(* ipc_mqueue_receive and the operations on ports and port sets keep the   *)
(* invariant of IpcMqueue.                                                 *)
(***************************************************************************)
EXTENDS IpcMqueueSenders

\* A step that leaves senders alone keeps the invariant of slots.
LEMMA SendersKeep ==
  ASSUME SetLaws, IInv, SendersSame(ith, pc, call, ith', pc', call')
  PROVE  SInv(ip_blocked, ith', pc', call', ip_msgcount, ip_qlimit, dead, wasted)
<1>1. /\ SInv(ip_blocked, ith, pc, call, ip_msgcount, ip_qlimit, dead, wasted)
      /\ STypes(ip_msgcount, ip_qlimit)
  BY ZenonT(60) DEF IInv
<1>2. \A x \in Threads : SendsAs(ith, pc, call, ith', pc', call', x)
  BY ZenonT(60) DEF SendersSame
<1>3. \A r \in Ports \ dead : ip_msgcount[r] >= ip_msgcount[r]
  BY <1>1, SMTT(60) DEF STypes
<1>4. dead \subseteq dead /\ wasted \subseteq wasted
  BY ZenonT(60)
<1> QED
  BY <1>1, <1>2, <1>3, <1>4, SSame, ZenonT(60)

\* What is left to show of a step of a receiver.
LEMMA ReceiveConcludes ==
  ASSUME SetLaws, IInv, RestSame, CInv(pc', call'), ip_pset' \in [Ports -> Psets \cup {Null}],
         NEW T, QInv(T, pc', call', ip_pset', dead, base, sent, ip_msgcount), Become(T),
         SendersSame(ith, pc, call, T.ith, pc', call')
  PROVE  IInv'
<1>1. Now' = T /\ ith' = T.ith
  <2>1. T \in States
    BY ZenonT(60) DEF QInv
  <2> QED
    BY <2>1, Becomes, ZenonT(60) DEF Become
<1>2. QTypes(ip_pset', dead, base, sent, ip_msgcount)
  BY ZenonT(60) DEF IInv, QTypes
<1>3. SInv(ip_blocked, ith', pc', call', ip_msgcount, ip_qlimit, dead, wasted)
  BY <1>1, SendersKeep, ZenonT(60)
<1>4. STypes(ip_msgcount, ip_qlimit) /\ ip_blocked \in [Ports -> Seq(Threads)] /\ wasted \subseteq Ports
  BY ZenonT(60) DEF IInv
<1> QED
  BY <1>1, <1>2, <1>3, <1>4, ZenonT(60) DEF IInv, RestSame

\* A receiver takes the first message.
LEMMA TakesIt ==
  ASSUME NEW S \in States, NEW q \in Queues, S.imq_messages[q] # <<>>, NEW t \in Threads
  PROVE  Takes(S, q, t, [S EXCEPT !.imq_messages[q] = Tail(S.imq_messages[q]),
                                  !.ith[t] = [NoWait EXCEPT !.kmsg = Head(S.imq_messages[q])],
                                  !.ip_seqno[Head(S.imq_messages[q]).port] = @ + 1])
<1>1. /\ S.imq_messages \in [Queues -> Seq(Message)] /\ S.ith \in [Threads -> Ith]
      /\ S.ip_seqno \in [Ports -> Nat]
  BY ZenonT(60) DEF States
<1>2. PICK M \in Seq(Message) : M = S.imq_messages[q]
  BY <1>1, ZenonT(60)
<1>3. PICK m : m = Head(M)
  BY ZenonT(60)
<1>4. m \in Message /\ Tail(M) \in Seq(Message)
  BY <1>2, <1>3, SMTT(60)
<1>5. PICK r : r = [NoWait EXCEPT !.kmsg = m]
  BY ZenonT(60)
<1>6. r \in Ith /\ r.kmsg = m
  BY <1>4, <1>5, NoWaitIs, ZenonT(60) DEF NoWait, Ith
<1>7. m.port \in Ports
  BY <1>4, ZenonT(60) DEF Message
<1>8. PICK A, B, D : /\ A = [S.imq_messages EXCEPT ![q] = Tail(M)] /\ B = [S.ith EXCEPT ![t] = r]
                     /\ D = [S.ip_seqno EXCEPT ![m.port] = @ + 1]
  BY ZenonT(60)
<1>9. A \in [Queues -> Seq(Message)] /\ B \in [Threads -> Ith]
      /\ B[t] = r /\ \A x \in Threads \ {t} : B[x] = S.ith[x]
  BY <1>1, <1>4, <1>6, <1>8, ZenonT(60)
<1>10. D \in [Ports -> Nat]
  BY <1>1, <1>7, <1>8, SMTT(60)
<1>11. PICK T : T = [S EXCEPT !.imq_messages = A, !.ith = B, !.ip_seqno = D]
  BY ZenonT(60)
<1>12. T \in States /\ T.imq_messages = A /\ T.ith = B /\ T.ip_seqno = D /\ T.imq_threads = S.imq_threads
  BY <1>9, <1>10, <1>11, ZenonT(60) DEF States
<1>13. Takes(S, q, t, T)
  BY <1>2, <1>3, <1>6, <1>8, <1>9, <1>12, ZenonT(60) DEF Takes
<1>14. T = [S EXCEPT !.imq_messages[q] = Tail(S.imq_messages[q]),
                     !.ith[t] = [NoWait EXCEPT !.kmsg = Head(S.imq_messages[q])],
                     !.ip_seqno[Head(S.imq_messages[q]).port] = @ + 1]
  BY <1>2, <1>3, <1>5, <1>8, <1>11, ZenonT(60) DEF States
<1> QED
  BY <1>13, <1>14, ZenonT(60)

\* A receiver is put at the end of the queue, waiting.
LEMMA WaitsThere ==
  ASSUME NEW S \in States, NEW q \in Queues, NEW t \in Threads, NEW size \in Nat
  PROVE  WaitsOn(S, q, t, [S EXCEPT !.imq_threads[q] = Append(@, t),
                                    !.ith[t] = Wait(@, "RCV_IN_PROGRESS", size)])
<1>1. /\ S.imq_threads \in [Queues -> Seq(Threads)] /\ S.ith \in [Threads -> Ith]
  BY ZenonT(60) DEF States
<1>2. PICK r : r = Wait(S.ith[t], "RCV_IN_PROGRESS", size)
  BY ZenonT(60)
<1>3. r \in Ith /\ r.state = "RCV_IN_PROGRESS"
  <2>1. "RCV_IN_PROGRESS" \in WaitStates /\ S.ith[t] \in Ith
    BY <1>1, ZenonT(60) DEF WaitStates
  <2> QED
    BY <1>2, <2>1, Waiting, ZenonT(60)
<1>4. PICK A, B : A = [S.imq_threads EXCEPT ![q] = Append(@, t)] /\ B = [S.ith EXCEPT ![t] = r]
  BY ZenonT(60)
<1>5. Append(S.imq_threads[q], t) \in Seq(Threads)
  BY <1>1, SMTT(60)
<1>6. A \in [Queues -> Seq(Threads)] /\ B \in [Threads -> Ith]
      /\ B[t] = r /\ \A x \in Threads \ {t} : B[x] = S.ith[x]
  BY <1>1, <1>3, <1>4, <1>5, ZenonT(60)
<1>7. PICK T : T = [S EXCEPT !.imq_threads = A, !.ith = B]
  BY ZenonT(60)
<1>8. T \in States /\ T.imq_messages = S.imq_messages /\ T.ith = B /\ T.ip_seqno = S.ip_seqno /\ T.imq_threads = A
  BY <1>6, <1>7, ZenonT(60) DEF States
<1>9. WaitsOn(S, q, t, T)
  BY <1>3, <1>4, <1>6, <1>8, ZenonT(60) DEF WaitsOn
<1>10. T = [S EXCEPT !.imq_threads[q] = Append(@, t), !.ith[t] = Wait(@, "RCV_IN_PROGRESS", size)]
  BY <1>2, <1>4, <1>7, ZenonT(60) DEF States
<1> QED
  BY <1>9, <1>10, ZenonT(60)

\* A receiver that tries again is no sender.
LEMMA FindsSenders ==
  ASSUME NEW t \in Threads, NEW S, NEW P, NEW C, Finds(t, S, P, C), NEW I2, NEW P2, NEW C2,
         P2[t] # "send", \A x \in Threads \ {t} : P2[x] = pc[x] /\ C2[x] = call[x],
         \A x \in Threads \ {t} : I2[x] = S.ith[x]
  PROVE  SendersSame(ith, pc, call, I2, P2, C2)
<1>1. ASSUME NEW x \in Threads PROVE SendsAs(ith, pc, call, I2, P2, C2, x)
  <2>1. CASE x = t
    BY <2>1, ZenonT(60) DEF SendsAs, Finds
  <2>2. CASE x # t
    <3>1. P2[x] = pc[x] /\ C2[x] = call[x] /\ I2[x] = S.ith[x]
      BY <2>2, ZenonT(60)
    <3>2. pc[x] = "send" => S.ith[x] = ith[x]
      BY <2>2, ZenonT(60) DEF Finds
    <3> QED
      BY <3>1, <3>2, ZenonT(60) DEF SendsAs
  <2> QED
    BY <2>1, <2>2, ZenonT(60)
<1> QED
  BY <1>1, ZenonT(60) DEF SendersSame

\* A thread that goes on to receive is as a thread that returns.
LEMMA FindsAs ==
  ASSUME NEW t \in Threads, NEW S, NEW P, NEW C, Finds(t, S, P, C), NEW T, NEW P2, NEW C2,
         \A x \in Threads \ {t} : P2[x] = pc[x] /\ C2[x] = call[x],
         \A x \in Threads \ {t} : T.ith[x] = S.ith[x]
  PROVE  \A x \in Threads \ {t} : AsWas(S, P, C, T, P2, C2, x)
<1>1. TAKE x \in Threads \ {t}
<1>2. P2[x] = P[x] /\ C2[x] = C[x]
  BY ZenonT(60) DEF Finds
<1>3. T.ith[x] = S.ith[x]
  BY ZenonT(60)
<1> QED
  BY <1>2, <1>3, ZenonT(60) DEF AsWas

\* The receiver returns with nothing.
LEMMA ReceivesNothing ==
  ASSUME SetLaws, IInv, RestSame, NEW t \in Threads, NEW S, NEW P, NEW C, Finds(t, S, P, C),
         Become(Idle(S, t)), Return(t)
  PROVE  IInv'
<1>0. /\ QInv(S, P, C, ip_pset', dead, base, sent, ip_msgcount) /\ S \in States
      /\ CInv(pc, call) /\ ip_pset' \in [Ports -> Psets \cup {Null}]
  BY ZenonT(60) DEF Finds, QInv, QTypes, IInv
<1>1. PICK T : T = Idle(S, t)
  BY ZenonT(60)
<1>2. OneThread(S, t, NoWait, T)
  BY <1>0, <1>1, Idles, ZenonT(60)
<1>3. Goes(pc, call, t, "idle", NoCall, pc', call')
  BY <1>0, Returns, ZenonT(60)
<1>4. /\ CInv(pc', call') /\ pc'[t] # "send" /\ pc'[t] # "receive" /\ pc'[t] # "account"
      /\ \A x \in Threads \ {t} : pc'[x] = pc[x] /\ call'[x] = call[x]
  BY <1>3, ZenonT(60) DEF Goes
<1>5. QInv(T, pc', call', ip_pset', dead, base, sent, ip_msgcount)
  <2>1. \A x \in Threads \ {t} : pc'[x] = P[x] /\ call'[x] = C[x]
    BY <1>4, ZenonT(60) DEF Finds
  <2>2. P[t] # "receive" /\ ~Holds(S, P, t)
    BY ZenonT(60) DEF Finds, Holds
  <2>3. pc'[t] # "receive" /\ pc'[t] # "account"
    BY <1>4, ZenonT(60)
  <2> QED
    BY <1>0, <1>2, <2>1, <2>2, <2>3, QOne, ZenonT(60)
<1>6. SendersSame(ith, pc, call, T.ith, pc', call')
  <2>1. \A x \in Threads \ {t} : T.ith[x] = S.ith[x]
    BY <1>2, ZenonT(60) DEF OneThread
  <2> QED
    BY <1>4, <2>1, FindsSenders, ZenonT(60)
<1>7. Become(T)
  BY <1>1, ZenonT(60)
<1> QED
  BY <1>0, <1>4, <1>5, <1>6, <1>7, ReceiveConcludes, ZenonT(60)

\* The receiver takes the first message.
LEMMA ReceivesFirst ==
  ASSUME SetLaws, IInv, RestSame, NEW t \in Threads, NEW S, NEW P, NEW C, Finds(t, S, P, C),
         NEW q \in Queues, S.imq_messages[q] # <<>>, NEW T, Takes(S, q, t, T), Become(T),
         NEW c, Goes(pc, call, t, "account", c, pc', call')
  PROVE  IInv'
<1>0. /\ QInv(S, P, C, ip_pset', dead, base, sent, ip_msgcount) /\ S \in States
      /\ QTypes(ip_pset', dead, base, sent, ip_msgcount)
      /\ CInv(pc, call) /\ ip_pset' \in [Ports -> Psets \cup {Null}]
  BY ZenonT(60) DEF Finds, QInv, QTypes, IInv
<1>1. /\ CInv(pc', call') /\ pc'[t] = "account" /\ pc'[t] # "send"
      /\ \A x \in Threads \ {t} : pc'[x] = pc[x] /\ call'[x] = call[x]
  BY ZenonT(60) DEF Goes
<1>2. \A x \in Threads \ {t} : T.ith[x] = S.ith[x]
  BY ZenonT(60) DEF Takes
<1>3. QInv(T, pc', call', ip_pset', dead, base, sent, ip_msgcount)
  <2>2. T \in States
    BY ZenonT(60) DEF Takes
  <2>3. \A x \in Threads \ {t} : AsWas(S, P, C, T, pc', call', x)
    BY <1>1, <1>2, FindsAs, ZenonT(60)
  <2>4. P[t] = "idle" /\ pc'[t] = "account"
    BY <1>1, ZenonT(60) DEF Finds
  <2> QED
    BY <1>0, <2>2, <2>3, <2>4, QTake, ZenonT(60)
<1>4. SendersSame(ith, pc, call, T.ith, pc', call')
  BY <1>1, <1>2, FindsSenders, ZenonT(60)
<1> QED
  BY <1>0, <1>1, <1>3, <1>4, ReceiveConcludes, ZenonT(60)

\* The receiver waits.
LEMMA ReceiverWaits ==
  ASSUME SetLaws, IInv, RestSame, NEW t \in Threads, NEW S, NEW P, NEW C, Finds(t, S, P, C),
         NEW q \in Queues, S.imq_messages[q] = <<>>, q \in Ports => ip_pset'[q] = Null,
         NEW T, WaitsOn(S, q, t, T), Become(T),
         NEW c, c.port = q, Goes(pc, call, t, "receive", c, pc', call')
  PROVE  IInv'
<1>0. /\ QInv(S, P, C, ip_pset', dead, base, sent, ip_msgcount) /\ S \in States
      /\ CInv(pc, call) /\ ip_pset' \in [Ports -> Psets \cup {Null}]
  BY ZenonT(60) DEF Finds, QInv, QTypes, IInv
<1>1. /\ CInv(pc', call') /\ pc'[t] = "receive" /\ pc'[t] # "send" /\ call'[t].port = q
      /\ \A x \in Threads \ {t} : pc'[x] = pc[x] /\ call'[x] = call[x]
  BY ZenonT(60) DEF Goes
<1>2. \A x \in Threads \ {t} : T.ith[x] = S.ith[x]
  BY ZenonT(60) DEF WaitsOn
<1>3. QInv(T, pc', call', ip_pset', dead, base, sent, ip_msgcount)
  <2>2. /\ T \in States /\ T.imq_messages = S.imq_messages /\ T.ip_seqno = S.ip_seqno
        /\ T.imq_threads = [S.imq_threads EXCEPT ![q] = Append(@, t)]
        /\ T.ith[t].state = "RCV_IN_PROGRESS"
    BY ZenonT(60) DEF WaitsOn
  <2>3. \A x \in Threads \ {t} : AsWas(S, P, C, T, pc', call', x)
    BY <1>1, <1>2, FindsAs, ZenonT(60)
  <2>4. P[t] = "idle" /\ pc'[t] = "receive" /\ call'[t].port = q
    BY <1>1, ZenonT(60) DEF Finds
  <2> QED
    BY <1>0, <2>2, <2>3, <2>4, QWait, ZenonT(60)
<1>4. SendersSame(ith, pc, call, T.ith, pc', call')
  <2>1. pc'[t] # "send" /\ \A x \in Threads \ {t} : pc'[x] = pc[x] /\ call'[x] = call[x]
    BY <1>1, ZenonT(60)
  <2>2. PICK I2 : I2 = T.ith
    BY ZenonT(60)
  <2>3. \A x \in Threads \ {t} : I2[x] = S.ith[x]
    BY <1>2, <2>2, ZenonT(60)
  <2>4. SendersSame(ith, pc, call, I2, pc', call')
    BY <2>1, <2>3, FindsSenders, ZenonT(60)
  <2> QED
    BY <2>2, <2>4, ZenonT(60)
<1> QED
  BY <1>0, <1>1, <1>3, <1>4, ReceiveConcludes, ZenonT(60)

\* The loop of ipc_mqueue_receive keeps the invariant whichever way it ends.
LEMMA TryReceiveStep ==
  ASSUME SetLaws, IInv, RestSame, NEW t \in Threads, NEW S, NEW P, NEW C, Finds(t, S, P, C),
         NEW c \in CallArgs, NEW q \in Queues, c.port = q, TryReceive(t, c, S),
         c.timeout # "now" /\ q \in Ports => ip_pset'[q] = Null
  PROVE  IInv'
<1>0. S \in States /\ CInv(pc, call)
  BY ZenonT(60) DEF Finds, QInv, IInv
<1>1. CASE Become(Idle(S, t)) /\ Return(t)
  BY <1>1, ReceivesNothing, ZenonT(60)
<1>2. CASE /\ S.imq_messages[q] # <<>>
           /\ Become([S EXCEPT !.imq_messages[q] = Tail(S.imq_messages[q]),
                               !.ith[t] = [NoWait EXCEPT !.kmsg = Head(S.imq_messages[q])],
                               !.ip_seqno[Head(S.imq_messages[q]).port] = @ + 1])
           /\ pc' = [pc EXCEPT ![t] = "account"] /\ call' = [call EXCEPT ![t] = c]
  <2>1. PICK T : T = [S EXCEPT !.imq_messages[q] = Tail(S.imq_messages[q]),
                               !.ith[t] = [NoWait EXCEPT !.kmsg = Head(S.imq_messages[q])],
                               !.ip_seqno[Head(S.imq_messages[q]).port] = @ + 1]
    BY ZenonT(60)
  <2>2. Takes(S, q, t, T)
    BY <1>0, <1>2, <2>1, TakesIt, ZenonT(60)
  <2>3. Become(T)
    BY <1>2, <2>1, ZenonT(60)
  <2>4. Goes(pc, call, t, "account", c, pc', call')
    <3>1. "account" \in Stages /\ "account" # "go" /\ "account" # "receive"
      BY ZenonT(60) DEF Stages
    <3>2. Goes(pc, call, t, "account", c, [pc EXCEPT ![t] = "account"], [call EXCEPT ![t] = c])
      BY <1>0, <3>1, GoesTo, ZenonT(60)
    <3> QED
      BY <1>2, <3>2, ZenonT(60)
  <2>5. S.imq_messages[q] # <<>>
    BY <1>2, ZenonT(60)
  <2> QED
    BY <2>2, <2>3, <2>4, <2>5, ReceivesFirst, ZenonT(60)
<1>3. CASE /\ S.imq_messages[q] = <<>> /\ c.timeout # "now"
           /\ Become([S EXCEPT !.imq_threads[q] = Append(@, t),
                               !.ith[t] = Wait(@, "RCV_IN_PROGRESS", c.size)])
           /\ pc' = [pc EXCEPT ![t] = "receive"] /\ call' = [call EXCEPT ![t] = c]
  <2>1. PICK T : T = [S EXCEPT !.imq_threads[q] = Append(@, t),
                               !.ith[t] = Wait(@, "RCV_IN_PROGRESS", c.size)]
    BY ZenonT(60)
  <2>2. WaitsOn(S, q, t, T)
    <3>1. c.size \in Nat
      BY ZenonT(60) DEF CallArgs
    <3> QED
      BY <1>0, <2>1, <3>1, WaitsThere, ZenonT(60)
  <2>3. Become(T)
    BY <1>3, <2>1, ZenonT(60)
  <2>4. Goes(pc, call, t, "receive", c, pc', call')
    <3>1. "receive" \in Stages /\ "receive" # "go"
      BY ZenonT(60) DEF Stages
    <3>2. Goes(pc, call, t, "receive", c, [pc EXCEPT ![t] = "receive"], [call EXCEPT ![t] = c])
      BY <1>0, <3>1, GoesTo, ZenonT(60)
    <3> QED
      BY <1>3, <3>2, ZenonT(60)
  <2>5. S.imq_messages[q] = <<>> /\ (q \in Ports => ip_pset'[q] = Null)
    BY <1>3, ZenonT(60)
  <2> QED
    BY <2>2, <2>3, <2>4, <2>5, ReceiverWaits, ZenonT(60)
<1>4. \/ Become(Idle(S, t)) /\ Return(t)
      \/ /\ S.imq_messages[q] # <<>>
         /\ Become([S EXCEPT !.imq_messages[q] = Tail(S.imq_messages[q]),
                             !.ith[t] = [NoWait EXCEPT !.kmsg = Head(S.imq_messages[q])],
                             !.ip_seqno[Head(S.imq_messages[q]).port] = @ + 1])
         /\ pc' = [pc EXCEPT ![t] = "account"] /\ call' = [call EXCEPT ![t] = c]
      \/ /\ S.imq_messages[q] = <<>> /\ c.timeout # "now"
         /\ Become([S EXCEPT !.imq_threads[q] = Append(@, t),
                             !.ith[t] = Wait(@, "RCV_IN_PROGRESS", c.size)])
         /\ pc' = [pc EXCEPT ![t] = "receive"] /\ call' = [call EXCEPT ![t] = c]
  BY ZenonT(60) DEF TryReceive
<1> QED
  BY <1>1, <1>2, <1>3, <1>4, ZenonT(60)

\* ipc_pset_remove: the port takes its messages with it.
LEMMA PsetRemove ==
  ASSUME SetLaws, NEW S, NEW P, NEW C, NEW ps, NEW d, NEW bs, NEW sn, NEW mc,
         QTypes(ps, d, bs, sn, mc), QInv(S, P, C, ps, d, bs, sn, mc),
         NEW p \in Ports, p \notin d, ps[p] # Null
  PROVE  LeftSet(S, P, C, [ps EXCEPT ![p] = Null], d, bs, sn, mc, p, ipc_pset_remove(S, ps[p], p))
<1>0. /\ S \in States /\ ThreadInv(S, P, C) /\ QueueInv(S, ps, d, bs, sn) /\ S.imq_threads[p] = <<>>
      /\ ps \in [Ports -> Psets \cup {Null}] /\ bs \in [Ports -> Nat] /\ sn \in [Ports -> Nat]
  BY ZenonT(60) DEF QInv, QTypes
<1>1. PICK ps2 : ps2 = [ps EXCEPT ![p] = Null]
  BY ZenonT(60)
<1>2. ps2[p] = Null /\ \A r \in Ports \ {p} : ps2[r] = ps[r]
  BY <1>0, <1>1, ZenonT(60)
<1>3. QOf(ps, p) = ps[p] /\ QOf(ps2, p) = p
  BY <1>2, ZenonT(60) DEF QOf
<1>4. ps[p] \in Psets /\ ps[p] # p /\ Null \in Psets \cup {Null}
  <2>1. ps[p] \in Psets \cup {Null}
    BY <1>0, ZenonT(60)
  <2> QED
    BY <2>1, IpcAssumption, ZenonT(60)
<1>5. PICK T : T = ipc_mqueue_move(S, p, ps[p], p)
  BY ZenonT(60)
<1>6. Moved(S, ps2, p, P, C, d, bs, sn, T)
  <2>1. QOf(ps, p) # QOf([ps EXCEPT ![p] = Null], p)
    BY <1>1, <1>3, <1>4, ZenonT(60)
  <2>2. Moved(S, [ps EXCEPT ![p] = Null], p, P, C, d, bs, sn,
              ipc_mqueue_move(S, QOf([ps EXCEPT ![p] = Null], p), QOf(ps, p), p))
    BY <1>0, <1>4, <2>1, Move, ZenonT(60)
  <2> QED
    BY <2>2, <1>1, <1>3, <1>5, ZenonT(60)
<1>7. QInv(T, P, C, ps2, d, bs, sn, mc)
  <2>1. ps2[p] # p /\ ps2[p] \in Psets \cup {Null} /\ NoneOnMember(T, ps2, p)
    BY <1>2, IpcAssumption, ZenonT(60) DEF NoneOnMember
  <2> QED
    BY <1>2, <1>6, <2>1, QMove, ZenonT(60)
<1>8. /\ \A t \in Threads : P[t] # "receive" => T.ith[t] = S.ith[t]
      /\ T.ip_seqno[p] = S.ip_seqno[p]
  BY <1>0, <1>3, <1>6, ZenonT(60) DEF Moved
<1>9. LeftSet(S, P, C, ps2, d, bs, sn, mc, p, T)
  BY <1>7, <1>8, ZenonT(60) DEF LeftSet
<1> QED
  BY <1>1, <1>5, <1>9, ZenonT(60) DEF ipc_pset_remove

\* ipc_mqueue_receive, called after ipc_mqueue_copyin.
LEMMA ReceiveStep ==
  ASSUME SetLaws, IInv, NEW t \in Threads, NEW q \in Queues, NEW size \in Sizes, NEW timeout \in Timeouts,
         ipc_mqueue_receive(t, q, size, timeout)
  PROVE  IInv'
<1>0. /\ QTypes(ip_pset, dead, base, sent, ip_msgcount)
      /\ QInv(Now, pc, call, ip_pset, dead, base, sent, ip_msgcount)
      /\ ip_pset \in [Ports -> Psets \cup {Null}] /\ dead \subseteq Queues
  BY ZenonT(60) DEF IInv, QTypes
<1>1. PICK c : c = [NoCall EXCEPT !.port = q, !.size = size, !.timeout = timeout]
  BY ZenonT(60)
<1>2. c \in CallArgs /\ c.port = q
  BY <1>1, IpcAssumption, ZenonT(60) DEF NoCall, CallArgs, Queues
<1>3. pc[t] = "idle" /\ q \notin dead
  BY ZenonT(60) DEF ipc_mqueue_receive, Alive
<1>4. RestSame
  BY ZenonT(60) DEF ipc_mqueue_receive, RestSame
<1>5. CASE (q \in Ports => ip_pset[q] = Null) /\ TryReceive(t, c, Now) /\ ip_pset' = ip_pset
  <2>1. Finds(t, Now, pc, call)
    BY <1>0, <1>3, <1>5, NowFields, ZenonT(60) DEF Finds
  <2>2. c.timeout # "now" /\ q \in Ports => ip_pset'[q] = Null
    BY <1>5, ZenonT(60)
  <2>3. TryReceive(t, c, Now)
    BY <1>5, ZenonT(60)
  <2> QED
    BY <1>2, <1>4, <2>1, <2>2, <2>3, TryReceiveStep, ZenonT(60)
<1>6. CASE /\ q \in Ports /\ ip_pset[q] \in dead
           /\ TryReceive(t, c, ipc_pset_remove(Now, ip_pset[q], q))
           /\ ip_pset' = [ip_pset EXCEPT ![q] = Null]
  <2>1. ip_pset[q] # Null
    BY <1>0, <1>6, IpcAssumption, ZenonT(60) DEF Queues
  <2>2. PICK S : S = ipc_pset_remove(Now, ip_pset[q], q)
    BY ZenonT(60)
  <2>3. LeftSet(Now, pc, call, ip_pset', dead, base, sent, ip_msgcount, q, S)
    <3>1. q \in Ports
      BY <1>6, ZenonT(60)
    <3>2. LeftSet(Now, pc, call, [ip_pset EXCEPT ![q] = Null], dead, base, sent, ip_msgcount, q,
                  ipc_pset_remove(Now, ip_pset[q], q))
      BY <1>0, <1>3, <2>1, <3>1, PsetRemove, ZenonT(60)
    <3> QED
      BY <3>2, <2>2, <1>6, ZenonT(60)
  <2>4. ip_pset' \in [Ports -> Psets \cup {Null}] /\ ip_pset'[q] = Null
    BY <1>0, <1>6, ZenonT(60)
  <2>5. QTypes(ip_pset', dead, base, sent, ip_msgcount)
    BY <1>0, <2>4, ZenonT(60) DEF QTypes
  <2>6. Finds(t, S, pc, call)
    <3>1. \A x \in Threads \ {t} : pc[x] = "send" => S.ith[x] = ith[x]
      BY <2>3, NowFields, ZenonT(60) DEF LeftSet
    <3>2. QInv(S, pc, call, ip_pset', dead, base, sent, ip_msgcount)
      BY <2>3, ZenonT(60) DEF LeftSet
    <3> QED
      BY <1>3, <2>5, <3>1, <3>2, ZenonT(60) DEF Finds
  <2>7. c.timeout # "now" /\ q \in Ports => ip_pset'[q] = Null
    BY <2>4, ZenonT(60)
  <2>8. TryReceive(t, c, S)
    BY <1>6, <2>2, ZenonT(60)
  <2> QED
    BY <1>2, <1>4, <2>6, <2>7, <2>8, TryReceiveStep, ZenonT(60)
<1>7. \/ (q \in Ports => ip_pset[q] = Null) /\ TryReceive(t, c, Now) /\ ip_pset' = ip_pset
      \/ /\ q \in Ports /\ ip_pset[q] \in dead
         /\ TryReceive(t, c, ipc_pset_remove(Now, ip_pset[q], q))
         /\ ip_pset' = [ip_pset EXCEPT ![q] = Null]
  BY <1>1, ZenonT(60) DEF ipc_mqueue_receive
<1> QED
  BY <1>5, <1>6, <1>7, ZenonT(60)

\* A receiver takes itself off the queue.
LEMMA TakesOff ==
  ASSUME NEW S \in States, NEW q \in Queues, NEW u \in Seq(Threads)
  PROVE  TakenOff(S, q, u, [S EXCEPT !.imq_threads[q] = u])
<1>1. PICK A : A = [S.imq_threads EXCEPT ![q] = u]
  BY ZenonT(60)
<1>2. A \in [Queues -> Seq(Threads)]
  <2>1. S.imq_threads \in [Queues -> Seq(Threads)]
    BY ZenonT(60) DEF States
  <2> QED
    BY <1>1, <2>1, ZenonT(60)
<1>3. PICK T : T = [S EXCEPT !.imq_threads = A]
  BY ZenonT(60)
<1>4. T \in States /\ T.imq_messages = S.imq_messages /\ T.ip_seqno = S.ip_seqno /\ T.ith = S.ith
      /\ T.imq_threads = A
  BY <1>2, <1>3, ZenonT(60) DEF States
<1>5. TakenOff(S, q, u, T)
  BY <1>1, <1>4, ZenonT(60) DEF TakenOff
<1>6. T = [S EXCEPT !.imq_threads[q] = u]
  BY <1>1, <1>3, ZenonT(60) DEF States
<1> QED
  BY <1>5, <1>6, ZenonT(60)

\* Thread t, which waited in vain, is taken off its queue and does something else.
LEMMA ReceiverLeaves ==
  ASSUME IInv, NEW t \in Threads, pc[t] = "receive", ith[t].state = "RCV_IN_PROGRESS",
         NEW q \in Queues, call[t].port = q, NEW T, T = Off(Now, q, t),
         NEW P, NEW C, P[t] # "receive", P[t] # "account",
         \A x \in Threads \ {t} : P[x] = pc[x] /\ C[x] = call[x]
  PROVE  QInv(T, P, C, ip_pset, dead, base, sent, ip_msgcount) /\ T.ith = ith
<1>0. QInv(Now, pc, call, ip_pset, dead, base, sent, ip_msgcount) /\ Now \in States /\ ThreadInv(Now, pc, call)
  BY ZenonT(60) DEF IInv, QInv
<1>1. PICK R : R = Now.imq_threads[q]
  BY ZenonT(60)
<1>2. R \in Seq(Threads) /\ IsInjective(R)
  <2>1. Now.imq_threads \in [Queues -> Seq(Threads)]
    BY <1>0, ZenonT(60) DEF States
  <2> QED
    BY <1>0, <1>1, <2>1, ZenonT(60) DEF ThreadInv
<1>3. PICK u : u = ipc_thread_rmqueue(R, t)
  BY ZenonT(60)
<1>4. Removed(R, t, u)
  BY <1>2, <1>3, Rmqueue, ZenonT(60)
<1>5. u \in Seq(Threads)
  BY <1>4, ZenonT(60) DEF Removed
<1>6. T = [Now EXCEPT !.imq_threads[q] = u]
  BY <1>1, <1>3, ZenonT(60) DEF Off
<1>7. TakenOff(Now, q, u, T)
  <2>1. TakenOff(Now, q, u, [Now EXCEPT !.imq_threads[q] = u])
    BY <1>0, <1>5, TakesOff, ZenonT(60)
  <2> QED
    BY <2>1, <1>6, ZenonT(60)
<1>8. /\ T \in States /\ T.imq_messages = Now.imq_messages /\ T.ip_seqno = Now.ip_seqno /\ T.ith = Now.ith
      /\ T.imq_threads = [Now.imq_threads EXCEPT ![q] = u]
  BY <1>7, ZenonT(60) DEF TakenOff
<1>9. ASSUME NEW x \in Threads \ {t} PROVE AsWas(Now, pc, call, T, P, C, x)
  <2>1. P[x] = pc[x] /\ C[x] = call[x] /\ T.ith[x] = Now.ith[x]
    BY <1>8, ZenonT(60)
  <2> QED
    BY <2>1, ZenonT(60) DEF AsWas
<1>10. Removed(Now.imq_threads[q], t, u) /\ WaitsAt(Now, pc, call, t, q)
  BY <1>1, <1>4, NowFields, ZenonT(60) DEF WaitsAt
<1>11. QInv(T, P, C, ip_pset, dead, base, sent, ip_msgcount)
  <2>1. T \in States
    BY <1>8, ZenonT(60)
  <2> QED
    BY <1>0, <1>7, <1>9, <1>10, <2>1, QOff, ZenonT(60)
<1> QED
  BY <1>8, <1>11, NowFields, ZenonT(60)

\* ipc_mqueue_receive, after thread_block.
LEMMA ReceiveResumesStep ==
  ASSUME SetLaws, IInv, NEW t \in Threads, receive_resumes(t)
  PROVE  IInv'
<1>0. /\ QTypes(ip_pset, dead, base, sent, ip_msgcount)
      /\ QInv(Now, pc, call, ip_pset, dead, base, sent, ip_msgcount) /\ Now \in States
      /\ ip_pset \in [Ports -> Psets \cup {Null}] /\ CInv(pc, call)
      /\ call \in [Threads -> CallArgs] /\ pc \in [Threads -> Stages] /\ ThreadInv(Now, pc, call)
  BY ZenonT(60) DEF IInv, QTypes, QInv, CInv
<1>1. pc[t] = "receive"
  BY ZenonT(60) DEF receive_resumes
<1>2. RestSame /\ ip_pset' = ip_pset
  BY ZenonT(60) DEF receive_resumes, RestSame, portvars
<1>3. ith[t].state \in {"RCV_IN_PROGRESS"} \cup Answers
  BY <1>0, <1>1, NowFields, ZenonT(60) DEF ThreadInv
<1>4. ith[t] \in Ith /\ ith[t].result \in Results /\ ith[t].kmsg \in Message \cup {Null}
  <2>1. ith[t] \in Ith
    BY <1>0, NowFields, ZenonT(60) DEF States
  <2> QED
    BY <2>1, ZenonT(60) DEF Ith
<1>5. /\ Woke(t) = "SUCCESS" => ith[t].state = "SUCCESS"
      /\ Woke(t) \in {"TOO_LARGE", "PORT_DIED", "PORT_CHANGED"} => ith[t].state \in Answers \ {"SUCCESS"}
      /\ Woke(t) \in {"TIMED_OUT", "INTERRUPTED", "AWAKENED"} => ith[t].state = "RCV_IN_PROGRESS"
  BY <1>3, <1>4, ZenonT(60) DEF Woke, Results, Answers
<1>6. PICK q \in Queues : q = call[t].port
  BY <1>0, <1>1, ZenonT(60) DEF CInv
<1>7. PICK c \in CallArgs : c = call[t]
  BY <1>0, ZenonT(60)
<1>8. PICK off : off = Off(Now, q, t)
  BY ZenonT(60)
<1>9. PICK P : P = [pc EXCEPT ![t] = "idle"]
  BY ZenonT(60)
<1>10. P[t] = "idle" /\ \A x \in Threads \ {t} : P[x] = pc[x] /\ call[x] = call[x]
  BY <1>0, <1>9, ZenonT(60)
<1>11. ASSUME ith[t].state = "RCV_IN_PROGRESS" PROVE Finds(t, off, P, call)
  <2>1. QInv(off, P, call, ip_pset, dead, base, sent, ip_msgcount) /\ off.ith = ith
    <3>1. P[t] # "receive" /\ P[t] # "account"
      BY <1>10, ZenonT(60)
    <3>2. call[t].port = q
      BY <1>6, ZenonT(60)
    <3> QED
      BY <1>1, <1>8, <1>10, <1>11, <3>1, <3>2, ReceiverLeaves, ZenonT(60)
  <2> QED
    BY <1>0, <1>1, <1>2, <1>10, <2>1, ZenonT(60) DEF Finds
<1>12. CASE /\ Woke(t) = "SUCCESS"
            /\ Become([Now EXCEPT !.ith[t] = [NoWait EXCEPT !.kmsg = ith[t].kmsg]])
            /\ pc' = [pc EXCEPT ![t] = "account"]
            /\ call' = call
  <2>1. PICK r : r = [NoWait EXCEPT !.kmsg = ith[t].kmsg]
    BY ZenonT(60)
  <2>2. r \in Ith /\ r.kmsg = ith[t].kmsg
    BY <1>4, <2>1, NoWaitIs, ZenonT(60) DEF NoWait, Ith
  <2>3. PICK T : T = [Now EXCEPT !.ith[t] = r]
    BY ZenonT(60)
  <2>4. OneThread(Now, t, r, T)
    BY <1>0, <2>2, <2>3, ThreadSet, ZenonT(60)
  <2>5. Become(T)
    BY <1>12, <2>1, <2>3, ZenonT(60)
  <2>6. pc' \in [Threads -> Stages] /\ pc'[t] = "account" /\ \A x \in Threads \ {t} : pc'[x] = pc[x]
    <3>1. "account" \in Stages
      BY ZenonT(60) DEF Stages
    <3> QED
      BY <3>1, <1>0, <1>12, ZenonT(60)
  <2>7. call' = call
    BY <1>12, ZenonT(60)
  <2>8. CInv(pc', call')
    <3>1. \A x \in Threads : pc'[x] = "go" => call'[x].callee \in Threads
      BY <1>0, <2>6, <2>7, ZenonT(60) DEF CInv
    <3>2. \A x \in Threads : pc'[x] = "receive" => call'[x].port \in Queues
      BY <1>0, <2>6, <2>7, ZenonT(60) DEF CInv
    <3> QED
      BY <3>1, <3>2, <1>0, <2>6, <2>7, ZenonT(60) DEF CInv
  <2>9. /\ T \in States /\ T.imq_messages = Now.imq_messages /\ T.imq_threads = Now.imq_threads
        /\ T.ip_seqno = Now.ip_seqno /\ T.ith[t] = r /\ \A x \in Threads \ {t} : T.ith[x] = Now.ith[x]
    BY <2>4, ZenonT(60) DEF OneThread
  <2>10. ASSUME NEW x \in Threads PROVE AsWas(Now, pc, call, T, pc', call', x)
    <3>1. CASE x = t
      <4>1. Now.ith[t].state = "SUCCESS" /\ T.ith[t].kmsg = Now.ith[t].kmsg
        BY <1>5, <1>12, <2>2, <2>9, NowFields, ZenonT(60)
      <4> QED
        BY <3>1, <4>1, <1>1, <2>6, ZenonT(60) DEF AsWas, Holds
    <3>2. CASE x # t
      BY <3>2, <2>6, <2>7, <2>9, ZenonT(60) DEF AsWas
    <3> QED
      BY <3>1, <3>2, ZenonT(60)
  <2>11. QInv(T, pc', call', ip_pset', dead, base, sent, ip_msgcount)
    <3>1. QInv(T, pc', call', ip_pset, dead, base, sent, ip_msgcount)
      <4>1. /\ T \in States /\ T.imq_messages = Now.imq_messages /\ T.imq_threads = Now.imq_threads
            /\ T.ip_seqno = Now.ip_seqno
        BY <2>9, ZenonT(60)
      <4>2. QInv(Now, pc, call, ip_pset, dead, base, sent, ip_msgcount)
        BY <1>0, ZenonT(60)
      <4> QED
        BY <4>1, <4>2, <2>10, QSame, ZenonT(60)
    <3> QED
      BY <3>1, <1>2, ZenonT(60)
  <2>12. SendersSame(ith, pc, call, T.ith, pc', call')
    <3>1. ASSUME NEW x \in Threads PROVE SendsAs(ith, pc, call, T.ith, pc', call', x)
      <4>1. CASE x = t
        BY <4>1, <1>1, <2>6, ZenonT(60) DEF SendsAs
      <4>2. CASE x # t
        BY <4>2, <2>6, <2>7, <2>9, NowFields, ZenonT(60) DEF SendsAs
      <4> QED
        BY <4>1, <4>2, ZenonT(60)
    <3> QED
      BY <3>1, ZenonT(60) DEF SendersSame
  <2>13. ip_pset' \in [Ports -> Psets \cup {Null}]
    BY <1>0, <1>2, ZenonT(60)
  <2> QED
    BY <1>2, <2>5, <2>8, <2>11, <2>12, <2>13, ReceiveConcludes, ZenonT(60)
<1>13. CASE /\ Woke(t) \in {"TOO_LARGE", "PORT_DIED", "PORT_CHANGED"}
            /\ Become(Idle(Now, t)) /\ Return(t)
  <2>1. ith[t].state \in Answers \ {"SUCCESS"}
    BY <1>5, <1>13, ZenonT(60)
  <2>2. Now.ith[t].state # "RCV_IN_PROGRESS" /\ Now.ith[t].state # "SUCCESS"
    BY <2>1, NowFields, ZenonT(60) DEF Answers
  <2>3. QInv(Now, P, call, ip_pset, dead, base, sent, ip_msgcount)
    <3>1. ASSUME NEW x \in Threads PROVE AsWas(Now, pc, call, Now, P, call, x)
      <4>1. CASE x = t
        BY <4>1, <1>1, <1>10, <2>2, ZenonT(60) DEF AsWas, Holds
      <4>2. CASE x # t
        BY <4>2, <1>10, ZenonT(60) DEF AsWas
      <4> QED
        BY <4>1, <4>2, ZenonT(60)
    <3> QED
      BY <1>0, <3>1, QSame, ZenonT(60)
  <2>4. Finds(t, Now, P, call)
    BY <1>0, <1>1, <1>2, <1>10, <2>3, NowFields, ZenonT(60) DEF Finds
  <2> QED
    BY <1>2, <1>13, <2>4, ReceivesNothing, ZenonT(60)
<1>14. CASE Woke(t) = "TIMED_OUT" /\ TryReceive(t, [c EXCEPT !.timeout = "now"], off)
  <2>1. PICK e : e = [c EXCEPT !.timeout = "now"]
    BY ZenonT(60)
  <2>2. e \in CallArgs /\ e.timeout = "now" /\ e.port = c.port
    BY <2>1, ZenonT(60) DEF CallArgs
  <2>3. e.port = q
    BY <2>2, <1>6, <1>7, ZenonT(60)
  <2>4. Finds(t, off, P, call)
    BY <1>5, <1>11, <1>14, ZenonT(60)
  <2>5. TryReceive(t, e, off) /\ (e.timeout # "now" /\ q \in Ports => ip_pset'[q] = Null)
    BY <1>14, <2>1, <2>2, ZenonT(60)
  <2>6. RestSame
    BY <1>2, ZenonT(60)
  <2> QED
    BY <2>2, <2>3, <2>4, <2>5, <2>6, TryReceiveStep, ZenonT(60)
<1>15. CASE Woke(t) = "INTERRUPTED" /\ Become(Idle(off, t)) /\ Return(t)
  <2>1. Finds(t, off, P, call)
    BY <1>5, <1>11, <1>15, ZenonT(60)
  <2> QED
    BY <1>2, <1>15, <2>1, ReceivesNothing, ZenonT(60)
<1>16. CASE /\ Woke(t) = "AWAKENED" /\ Become(off)
            /\ pc' = [pc EXCEPT ![t] = "panic"] /\ call' = call
  <2>1. ith[t].state = "RCV_IN_PROGRESS"
    BY <1>5, <1>16, ZenonT(60)
  <2>2. pc' \in [Threads -> Stages] /\ pc'[t] = "panic" /\ \A x \in Threads \ {t} : pc'[x] = pc[x]
    <3>1. "panic" \in Stages
      BY ZenonT(60) DEF Stages
    <3> QED
      BY <3>1, <1>0, <1>16, ZenonT(60)
  <2>3. call' = call
    BY <1>16, ZenonT(60)
  <2>4. CInv(pc', call')
    <3>1. \A x \in Threads : pc'[x] = "go" => call'[x].callee \in Threads
      BY <1>0, <2>2, <2>3, ZenonT(60) DEF CInv
    <3>2. \A x \in Threads : pc'[x] = "receive" => call'[x].port \in Queues
      BY <1>0, <2>2, <2>3, ZenonT(60) DEF CInv
    <3> QED
      BY <3>1, <3>2, <1>0, <2>2, <2>3, ZenonT(60) DEF CInv
  <2>5. QInv(off, pc', call', ip_pset, dead, base, sent, ip_msgcount) /\ off.ith = ith
    <3>1. pc'[t] # "receive" /\ pc'[t] # "account"
      BY <2>2, ZenonT(60)
    <3>2. call[t].port = q
      BY <1>6, ZenonT(60)
    <3>3. \A x \in Threads \ {t} : pc'[x] = pc[x] /\ call'[x] = call[x]
      BY <2>2, <2>3, ZenonT(60)
    <3> QED
      BY <1>1, <1>8, <2>1, <3>1, <3>2, <3>3, ReceiverLeaves, ZenonT(60)
  <2>6. SendersSame(ith, pc, call, off.ith, pc', call')
    <3>1. ASSUME NEW x \in Threads PROVE SendsAs(ith, pc, call, off.ith, pc', call', x)
      <4>1. CASE x = t
        BY <4>1, <1>1, <2>2, ZenonT(60) DEF SendsAs
      <4>2. CASE x # t
        BY <4>2, <2>2, <2>3, <2>5, ZenonT(60) DEF SendsAs
      <4> QED
        BY <4>1, <4>2, ZenonT(60)
    <3> QED
      BY <3>1, ZenonT(60) DEF SendersSame
  <2>7. /\ ip_pset' \in [Ports -> Psets \cup {Null}]
        /\ QInv(off, pc', call', ip_pset', dead, base, sent, ip_msgcount)
    BY <1>0, <1>2, <2>5, ZenonT(60)
  <2>8. Become(off)
    BY <1>16, ZenonT(60)
  <2> QED
    BY <1>2, <2>4, <2>6, <2>7, <2>8, ReceiveConcludes, ZenonT(60)
<1>17. \/ /\ Woke(t) = "SUCCESS"
          /\ Become([Now EXCEPT !.ith[t] = [NoWait EXCEPT !.kmsg = ith[t].kmsg]])
          /\ pc' = [pc EXCEPT ![t] = "account"]
          /\ call' = call
       \/ /\ Woke(t) \in {"TOO_LARGE", "PORT_DIED", "PORT_CHANGED"}
          /\ Become(Idle(Now, t)) /\ Return(t)
       \/ Woke(t) = "TIMED_OUT" /\ TryReceive(t, [c EXCEPT !.timeout = "now"], off)
       \/ Woke(t) = "INTERRUPTED" /\ Become(Idle(off, t)) /\ Return(t)
       \/ /\ Woke(t) = "AWAKENED" /\ Become(off)
          /\ pc' = [pc EXCEPT ![t] = "panic"] /\ call' = call
  BY <1>6, <1>7, <1>8, ZenonT(60) DEF receive_resumes, Off
<1> QED
  BY <1>12, <1>13, <1>14, <1>15, <1>16, <1>17, ZenonT(60)

\* Threads are told MACH_MSG_SUCCESS and made runnable.
LEMMA Rouses ==
  ASSUME NEW W, ith \in [Threads -> Ith] PROVE Roused(W, ith, Rouse(W))
<1>1. ASSUME NEW x \in Threads
      PROVE  LET r == [thread_go(ith[x]) EXCEPT !.state = "SUCCESS"]
             IN  r \in Ith /\ r.state = "SUCCESS" /\ r.kmsg = ith[x].kmsg
  <2>1. thread_go(ith[x]) \in Ith /\ thread_go(ith[x]).kmsg = ith[x].kmsg
    BY ThreadGo, ZenonT(60)
  <2>2. "SUCCESS" \in WaitStates
    BY ZenonT(60) DEF WaitStates, Answers
  <2> QED
    BY <2>1, <2>2, Answered, ZenonT(60)
<1>2. PICK I2 : I2 = Rouse(W)
  BY ZenonT(60)
<1>3. I2 = [x \in Threads |-> IF x \in W THEN [thread_go(ith[x]) EXCEPT !.state = "SUCCESS"] ELSE ith[x]]
  BY <1>2, ZenonT(60) DEF Rouse
<1>4. \A x \in Threads : x \in W => I2[x] \in Ith /\ I2[x].state = "SUCCESS" /\ I2[x].kmsg = ith[x].kmsg
  BY <1>1, <1>3, ZenonT(60)
<1>5. \A x \in Threads : x \notin W => I2[x] = ith[x] /\ I2[x] \in Ith
  BY <1>3, ZenonT(60)
<1>6. I2 \in [Threads -> Ith]
  <2>1. \A x \in Threads : I2[x] \in Ith
    BY <1>4, <1>5, ZenonT(60)
  <2> QED
    BY <1>3, <2>1, ZenonT(60)
<1>7. Roused(W, ith, I2)
  BY <1>4, <1>5, <1>6, ZenonT(60) DEF Roused
<1> QED
  BY <1>2, <1>7, ZenonT(60)

\* A step that leaves queues and sequence numbers alone.
LEMMA NowIth ==
  ASSUME Now \in States, ith' \in [Threads -> Ith], UNCHANGED <<ip_seqno, imq>>
  PROVE  /\ Now' \in States /\ Now'.imq_messages = Now.imq_messages
         /\ Now'.imq_threads = Now.imq_threads /\ Now'.ip_seqno = Now.ip_seqno
<1>1. /\ imq_messages \in [Queues -> Seq(Message)] /\ imq_threads \in [Queues -> Seq(Threads)]
      /\ ip_seqno \in [Ports -> Nat]
  BY ZenonT(60) DEF Now, States
<1>2. imq_messages' = imq_messages /\ imq_threads' = imq_threads /\ ip_seqno' = ip_seqno
  BY ZenonT(60) DEF imq
<1>3. Now' \in States
  BY <1>1, <1>2, ZenonT(60) DEF Now, States
<1> QED
  BY <1>2, <1>3, NowFields, NowNext, ZenonT(60)

\* Those of a port's senders that are roused, and what is left.
LEMMA NoneDropped ==
  ASSUME NEW R \in Seq(Threads), IsInjective(R) PROVE Dropped(R, {}, R)
BY ZenonT(60) DEF Dropped

\* The first sender is taken off the queue.
LEMMA HeadDropped ==
  ASSUME NEW R \in Seq(Threads), IsInjective(R), R # <<>>
  PROVE  Dropped(R, {Head(R)}, Tail(R))
<1>1. PICK U : U = Tail(R)
  BY ZenonT(60)
<1>2. /\ Len(R) \in Nat /\ Len(R) >= 1 /\ Head(R) = R[1] /\ \A i \in 1..Len(R) : R[i] \in Threads
      /\ U \in Seq(Threads) /\ Len(U) = Len(R) - 1 /\ \A i \in 1..(Len(R) - 1) : U[i] = R[i + 1]
  BY <1>1, SMTT(60)
<1>3. DOMAIN R = 1..Len(R) /\ DOMAIN U = 1..(Len(R) - 1)
  BY <1>2, SMTT(60)
<1>4. \A i, j \in 1..Len(R) : R[i] = R[j] => i = j
  BY <1>3, ZenonT(60) DEF IsInjective
<1>5. IsInjective(U)
  BY <1>2, <1>3, <1>4, SMTT(60) DEF IsInjective
<1>6. ASSUME NEW x \in Threads PROVE x \in Range(U) <=> x \in Range(R) /\ x \notin {Head(R)}
  <2>1. x \in Range(U) <=> \E i \in 1..(Len(R) - 1) : R[i + 1] = x
    BY <1>2, <1>3, ZenonT(60) DEF Range
  <2>2. x \in Range(R) <=> \E i \in 1..Len(R) : R[i] = x
    BY <1>3, ZenonT(60) DEF Range
  <2>3. ASSUME NEW i \in 1..(Len(R) - 1), R[i + 1] = x PROVE x \in Range(R) /\ x # R[1]
    BY <1>2, <1>4, <2>2, <2>3, SMTT(60)
  <2>4. ASSUME NEW i \in 1..Len(R), R[i] = x, x # R[1] PROVE x \in Range(U)
    <3>1. i - 1 \in 1..(Len(R) - 1) /\ R[(i - 1) + 1] = x
      BY <1>2, <2>4, SMTT(60)
    <3> QED
      BY <2>1, <3>1, ZenonT(60)
  <2> QED
    BY <1>2, <2>1, <2>2, <2>3, <2>4, ZenonT(60)
<1>7. Head(R) \in Threads /\ Head(R) \in Range(R)
  BY <1>2, <1>3, SMTT(60) DEF Range
<1>8. Dropped(R, {Head(R)}, U)
  BY <1>2, <1>5, <1>6, <1>7, ZenonT(60) DEF Dropped
<1> QED
  BY <1>1, <1>8, ZenonT(60)

\* After a message is counted out, a sender is let in if the limit leaves a slot; if
\* others wait still, no slot is free.
LEMMA LetsInIs ==
  ASSUME SetLaws, IInv, NEW p \in Ports
  PROVE  \E u : LetsInAt(p, LetsIn(p), u)
<1>0. /\ SInv(ip_blocked, ith, pc, call, ip_msgcount, ip_qlimit, dead, wasted)
      /\ ip_msgcount[p] \in Int /\ ip_qlimit[p] \in Nat
      /\ ip_blocked[p] \in Seq(Threads) /\ IsInjective(ip_blocked[p])
  BY ZenonT(60) DEF IInv, SInv, BInv, STypes
<1>1. PICK n \in Nat : n = Cardinality(LetInAt(ith, pc, call, p))
  BY LetInFinite, ZenonT(60)
<1>2. CASE p \notin dead /\ ip_blocked[p] # <<>> /\ ip_msgcount[p] - 1 < ip_qlimit[p]
  <2>1. LetsIn(p) = {Head(ip_blocked[p])}
    BY <1>2, ZenonT(60) DEF LetsIn, Alive
  <2>2. Cardinality({Head(ip_blocked[p])}) = 1
    BY SingletonSize, ZenonT(60)
  <2>3. {Head(ip_blocked[p])} # {}
    BY ZenonT(60)
  <2>4. Dropped(ip_blocked[p], {Head(ip_blocked[p])}, Tail(ip_blocked[p]))
    BY <1>0, <1>2, HeadDropped, ZenonT(60)
  <2>5. ASSUME p \notin wasted PROVE ip_msgcount[p] - 1 + n + 1 >= ip_qlimit[p]
    <3>1. Full(ith, pc, call, ip_msgcount, ip_qlimit, p)
      BY <1>0, <1>2, <2>5, ZenonT(60) DEF SInv
    <3>2. ip_msgcount[p] + n >= ip_qlimit[p]
      BY <3>1, <1>1, ZenonT(60) DEF Full
    <3> QED
      BY <3>2, <1>0, SMTT(60)
  <2>6. LetsInAt(p, {Head(ip_blocked[p])}, Tail(ip_blocked[p]))
    BY <1>1, <2>2, <2>3, <2>4, <2>5, ZenonT(60) DEF LetsInAt
  <2> QED
    BY <2>1, <2>6, ZenonT(60)
<1>3. CASE ~(p \notin dead /\ ip_blocked[p] # <<>> /\ ip_msgcount[p] - 1 < ip_qlimit[p])
  <2>1. LetsIn(p) = {}
    BY <1>3, ZenonT(60) DEF LetsIn, Alive
  <2>2. Cardinality({}) = 0
    BY EmptySize, ZenonT(60)
  <2>3. Dropped(ip_blocked[p], {}, ip_blocked[p])
    BY <1>0, NoneDropped, ZenonT(60)
  <2>4. ASSUME p \notin dead, ip_blocked[p] # <<>> PROVE ip_msgcount[p] - 1 + n + 0 >= ip_qlimit[p]
    BY <1>0, <1>3, <2>4, SMTT(60)
  <2>5. LetsInAt(p, {}, ip_blocked[p])
    BY <1>1, <2>2, <2>3, <2>4, ZenonT(60) DEF LetsInAt
  <2> QED
    BY <2>1, <2>5, ZenonT(60)
<1> QED
  BY <1>2, <1>3, ZenonT(60)

\* ipc_mqueue_receive counts the message out and lets a sender in.
LEMMA AccountsStep ==
  ASSUME SetLaws, IInv, NEW t \in Threads, NEW p \in Ports, Accounting(t, p),
         Accounts(t, p, LetsIn(p))
  PROVE  IInv'
<1>0. /\ CInv(pc, call) /\ QTypes(ip_pset, dead, base, sent, ip_msgcount) /\ STypes(ip_msgcount, ip_qlimit)
      /\ ip_blocked \in [Ports -> Seq(Threads)] /\ wasted \subseteq Ports
      /\ QInv(Now, pc, call, ip_pset, dead, base, sent, ip_msgcount)
      /\ SInv(ip_blocked, ith, pc, call, ip_msgcount, ip_qlimit, dead, wasted)
  BY ZenonT(60) DEF IInv
<1>1. PICK W : W = LetsIn(p)
  BY ZenonT(60)
<1>2. PICK u : LetsInAt(p, W, u)
  BY <1>1, LetsInIs, ZenonT(60)
<1>3. /\ ip_msgcount' = [ip_msgcount EXCEPT ![p] = IF Alive(p) THEN @ - 1 ELSE @]
      /\ ip_blocked' = [ip_blocked EXCEPT ![p] = IF W = {} THEN @ ELSE Tail(@)]
      /\ ith' = [Rouse(W) EXCEPT ![t] = NoWait]
      /\ Return(t)
      /\ UNCHANGED <<portvars, ip_seqno, imq, calls, sent, base, wasted>>
  BY <1>1, ZenonT(60) DEF Accounts
<1>4. /\ ip_pset' = ip_pset /\ dead' = dead /\ base' = base /\ sent' = sent /\ ip_qlimit' = ip_qlimit
      /\ wasted' = wasted
  BY <1>3, ZenonT(60) DEF portvars
<1>5. Now \in States /\ ith \in [Threads -> Ith]
  BY <1>0, NowFields, ZenonT(60) DEF QInv, States
<1>6. Dropped(ip_blocked[p], W, u)
  BY <1>2, ZenonT(60) DEF LetsInAt
<1>7. BInv(ip_blocked, ith, pc, call)
  BY <1>0, ZenonT(60) DEF SInv
<1>8. \A x \in W : x \in Threads /\ x # t /\ pc[x] = "send" /\ call[x].port = p
  <2>1. \A x \in W : x \in Threads /\ x \in Range(ip_blocked[p])
    BY <1>6, ZenonT(60) DEF Dropped
  <2>a. \A x \in Threads, r \in Ports : x \in Range(ip_blocked[r]) <=>
            pc[x] = "send" /\ call[x].port = r /\ ith[x].state = "SEND_IN_PROGRESS"
    BY <1>7, ZenonT(60) DEF BInv
  <2>2. ASSUME NEW x \in W PROVE x \in Threads /\ pc[x] = "send" /\ call[x].port = p
    <3>1. x \in Threads /\ x \in Range(ip_blocked[p])
      BY <2>1, <2>2, ZenonT(60)
    <3> QED
      BY <3>1, <2>a, ZenonT(60)
  <2>3. "send" # "account"
    BY ZenonT(60)
  <2> QED
    BY <2>2, <2>3, ZenonT(60) DEF Accounting
<1>9. Roused(W, ith, Rouse(W))
  BY <1>5, Rouses, ZenonT(60)
<1>10. /\ ith' \in [Threads -> Ith]
       /\ \A x \in W : ith'[x].state = "SUCCESS"
       /\ \A x \in Threads : x \notin W /\ x # t => ith'[x] = ith[x]
  BY <1>3, <1>8, <1>9, NoWaitIs, ZenonT(60) DEF Roused
<1>11. /\ Now' \in States /\ Now'.imq_messages = Now.imq_messages
       /\ Now'.imq_threads = Now.imq_threads /\ Now'.ip_seqno = Now.ip_seqno
  <2>1. UNCHANGED <<ip_seqno, imq>>
    BY <1>3, ZenonT(60)
  <2> QED
    BY <1>5, <1>10, <2>1, NowIth, ZenonT(60)
<1>12. Goes(pc, call, t, "idle", NoCall, pc', call')
  BY <1>0, <1>3, Returns, ZenonT(60)
<1>13. /\ CInv(pc', call') /\ pc'[t] = "idle"
       /\ \A x \in Threads \ {t} : pc'[x] = pc[x] /\ call'[x] = call[x]
  BY <1>12, ZenonT(60) DEF Goes
<1>14. \A x \in Threads \ {t} : AsWas(Now, pc, call, Now', pc', call', x)
  <2>1. "send" # "receive" /\ "send" # "account"
    BY ZenonT(60)
  <2>2. Now.ith = ith /\ Now'.ith = ith'
    BY NowFields, NowNext, ZenonT(60)
  <2>3. ASSUME NEW x \in Threads \ {t}, x \in W PROVE AsWas(Now, pc, call, Now', pc', call', x)
    BY <1>8, <1>13, <2>1, <2>3, ZenonT(60) DEF AsWas, Holds
  <2>4. ASSUME NEW x \in Threads \ {t}, x \notin W PROVE AsWas(Now, pc, call, Now', pc', call', x)
    BY <1>10, <1>13, <2>2, <2>4, ZenonT(60) DEF AsWas, Holds
  <2> QED
    BY <2>3, <2>4, ZenonT(60)
<1>15. t \in HeldBy(Now, pc, p)
  <2>1. ith[t].kmsg # Null
    BY <1>0, NowFields, ZenonT(60) DEF QInv, ThreadInv, Holds, Accounting
  <2> QED
    BY <2>1, NowFields, ZenonT(60) DEF HeldBy, Holds, Accounting
<1>16. /\ ip_msgcount' \in [Ports -> Int]
       /\ p \notin dead => ip_msgcount'[p] = ip_msgcount[p] - 1
       /\ \A r \in Ports \ {p} : ip_msgcount'[r] = ip_msgcount[r]
  <2>1. ip_msgcount \in [Ports -> Int] /\ ip_msgcount[p] \in Int /\ ip_msgcount[p] - 1 \in Int
    BY <1>0, SMTT(60) DEF STypes
  <2> QED
    BY <2>1, <1>3, ZenonT(60) DEF Alive
<1>17. QInv(Now', pc', call', ip_pset, dead, base, sent, ip_msgcount')
  <2>1. CountsOut(Now, pc, pc', t, p)
    BY <1>13, <1>15, ZenonT(60) DEF CountsOut, Accounting
  <2>2. OneLess(ip_msgcount, ip_msgcount', dead, p)
    BY <1>16, ZenonT(60) DEF OneLess
  <2>3. QTypes(ip_pset, dead, base, sent, ip_msgcount) /\ QInv(Now, pc, call, ip_pset, dead, base, sent, ip_msgcount)
    BY <1>0, ZenonT(60)
  <2> QED
    BY <1>11, <1>14, <2>1, <2>2, <2>3, QDrop, ZenonT(60)
<1>18. /\ ip_blocked' \in [Ports -> Seq(Threads)] /\ ip_blocked'[p] = u
       /\ \A r \in Ports \ {p} : ip_blocked'[r] = ip_blocked[r]
  <2>1. u \in Seq(Threads)
    BY <1>6, ZenonT(60) DEF Dropped
  <2>2. u = (IF W = {} THEN ip_blocked[p] ELSE Tail(ip_blocked[p]))
    BY <1>2, ZenonT(60) DEF LetsInAt
  <2>3. ip_blocked' = [ip_blocked EXCEPT ![p] = u]
    BY <1>3, <2>2, ZenonT(60)
  <2> QED
    BY <1>0, <2>1, <2>3, ZenonT(60)
<1>19. SInv(ip_blocked', ith', pc', call', ip_msgcount', ip_qlimit, dead, wasted)
  <2>1. STypes(ip_msgcount', ip_qlimit)
    BY <1>0, <1>16, ZenonT(60) DEF STypes
  <2>2. \A x \in W : pc'[x] = "send" /\ call'[x].port = call[x].port /\ ith'[x].state = "SUCCESS"
    BY <1>8, <1>10, <1>13, ZenonT(60)
  <2>3. \A x \in Threads : x \notin W => SendsAs(ith, pc, call, ith', pc', call', x)
    <3>1. "idle" # "send" /\ "account" # "send"
      BY ZenonT(60)
    <3>2. SendsAs(ith, pc, call, ith', pc', call', t)
      BY <1>13, <3>1, ZenonT(60) DEF SendsAs, Accounting
    <3>3. ASSUME NEW x \in Threads \ {t}, x \notin W PROVE SendsAs(ith, pc, call, ith', pc', call', x)
      BY <1>10, <1>13, <3>3, ZenonT(60) DEF SendsAs
    <3> QED
      BY <3>2, <3>3, ZenonT(60)
  <2>4. Rousing(ith, pc, call, ith', pc', call', W)
    BY <2>2, <2>3, ZenonT(60) DEF Rousing
  <2>5. Drops(ip_blocked, p, W, ip_blocked')
    BY <1>6, <1>18, ZenonT(60) DEF Drops
  <2>6. p \notin dead /\ ip_blocked'[p] # <<>> /\ p \notin wasted =>
            ip_msgcount'[p] + Cardinality(LetInAt(ith, pc, call, p)) + Cardinality(W) >= ip_qlimit[p]
    BY <1>2, <1>16, <1>18, ZenonT(60) DEF LetsInAt
  <2>7. Slots(ip_blocked', LetInAt(ith, pc, call, p), W, ip_msgcount', ip_qlimit, p, dead, wasted)
    BY <2>6, ZenonT(60) DEF Slots
  <2>8. \A r \in Ports \ {p} : ip_msgcount'[r] = ip_msgcount[r] /\ ip_qlimit[r] = ip_qlimit[r]
    BY <1>16, ZenonT(60)
  <2>9. /\ SInv(ip_blocked, ith, pc, call, ip_msgcount, ip_qlimit, dead, wasted)
        /\ STypes(ip_msgcount, ip_qlimit) /\ dead \subseteq dead
    BY <1>0, ZenonT(60)
  <2> QED
    BY <2>1, <2>4, <2>5, <2>7, <2>8, <2>9, SRouse, ZenonT(60)
<1>20. QTypes(ip_pset, dead, base, sent, ip_msgcount') /\ STypes(ip_msgcount', ip_qlimit)
  BY <1>0, <1>16, ZenonT(60) DEF QTypes, STypes
<1> QED
  BY <1>0, <1>4, <1>13, <1>17, <1>18, <1>19, <1>20, ZenonT(60) DEF IInv

\* A received message is counted out.
LEMMA ReceiveAccountsStep ==
  ASSUME SetLaws, IInv, NEW t \in Threads, receive_accounts(t) PROVE IInv'
<1>1. ith[t].kmsg \in Message
  <2>1. ith[t] \in Ith /\ ThreadInv(Now, pc, call)
    BY NowFields, ZenonT(60) DEF IInv, QInv, States
  <2>2. pc[t] = "account"
    BY ZenonT(60) DEF receive_accounts
  <2>3. ith[t].kmsg # Null
    BY <2>1, <2>2, NowFields, ZenonT(60) DEF ThreadInv, Holds
  <2> QED
    BY <2>1, <2>3, ZenonT(60) DEF Ith
<1>2. PICK p \in Ports : p = ith[t].kmsg.port
  BY <1>1, ZenonT(60) DEF Message
<1>3. Accounting(t, p) /\ Accounts(t, p, LetsIn(p))
  BY <1>2, ZenonT(60) DEF receive_accounts, Accounts, Accounting
<1> QED
  BY <1>3, AccountsStep, ZenonT(60)

\* Those on the queue of blocked senders are in ipc_mqueue_send.
LEMMA BlockedSends ==
  ASSUME NEW B, NEW I, NEW P, NEW C, BInv(B, I, P, C), NEW p \in Ports, NEW W, NEW u, Dropped(B[p], W, u)
  PROVE  AreSenders(P, C, W, p)
<1>1. \A x \in W : x \in Threads /\ x \in Range(B[p])
  BY ZenonT(60) DEF Dropped
<1>2. \A x \in Threads, r \in Ports : x \in Range(B[r]) <=>
          P[x] = "send" /\ C[x].port = r /\ I[x].state = "SEND_IN_PROGRESS"
  BY ZenonT(60) DEF BInv
<1>3. ASSUME NEW x \in W PROVE x \in Threads /\ P[x] = "send" /\ C[x].port = p
  <2>1. x \in Threads /\ x \in Range(B[p])
    BY <1>1, ZenonT(60)
  <2> QED
    BY <2>1, <1>2, ZenonT(60)
<1> QED
  BY <1>3, ZenonT(60) DEF AreSenders

\* Roused senders are no receivers.
LEMMA RousedAsWas ==
  ASSUME NEW S, NEW U, NEW P, NEW C, NEW W, Roused(W, S.ith, U.ith),
         \A x \in W : x \in Threads /\ P[x] = "send"
  PROVE  \A x \in Threads : AsWas(S, P, C, U, P, C, x)
<1>1. "send" # "receive" /\ "send" # "account"
  BY ZenonT(60)
<1>2. ASSUME NEW x \in Threads, x \in W PROVE AsWas(S, P, C, U, P, C, x)
  BY <1>1, <1>2, ZenonT(60) DEF AsWas, Holds
<1>3. ASSUME NEW x \in Threads, x \notin W PROVE AsWas(S, P, C, U, P, C, x)
  BY <1>3, ZenonT(60) DEF AsWas, Roused
<1> QED
  BY <1>2, <1>3, ZenonT(60)

\* The limit of a port that gets more slots rouses as many senders.
LEMMA SetQlimitStep ==
  ASSUME SetLaws, IInv, NEW p \in Ports, NEW qlimit \in QLimits, ipc_port_set_qlimit(p, qlimit)
  PROVE  IInv'
<1>0. /\ CInv(pc, call) /\ QTypes(ip_pset, dead, base, sent, ip_msgcount) /\ STypes(ip_msgcount, ip_qlimit)
      /\ ip_blocked \in [Ports -> Seq(Threads)] /\ wasted \subseteq Ports
      /\ QInv(Now, pc, call, ip_pset, dead, base, sent, ip_msgcount)
      /\ SInv(ip_blocked, ith, pc, call, ip_msgcount, ip_qlimit, dead, wasted)
  BY ZenonT(60) DEF IInv
<1>1. /\ ip_qlimit[p] \in Nat /\ ip_msgcount[p] \in Int /\ qlimit \in Nat
      /\ ip_blocked[p] \in Seq(Threads)
  BY <1>0, IpcAssumption, ZenonT(60) DEF STypes
<1>2. PICK n \in Nat : n = IF qlimit > ip_qlimit[p] THEN qlimit - ip_qlimit[p] ELSE 0
  BY <1>1, SMTT(60)
<1>3. PICK W : W = FirstOf(ip_blocked[p], n)
  BY ZenonT(60)
<1>4. PICK u : u = SubSeq(ip_blocked[p], n + 1, Len(ip_blocked[p]))
  BY ZenonT(60)
<1>5. /\ ip_qlimit' = [ip_qlimit EXCEPT ![p] = qlimit]
      /\ ip_blocked' = [ip_blocked EXCEPT ![p] = u]
      /\ ith' = Rouse(W)
      /\ UNCHANGED <<dead, ip_pset, ip_msgcount, ip_seqno, imq, pc, call, sent, base, wasted>>
  BY <1>2, <1>3, <1>4, ZenonT(60) DEF ipc_port_set_qlimit, FirstOf
<1>6. /\ ip_pset' = ip_pset /\ dead' = dead /\ base' = base /\ sent' = sent /\ ip_msgcount' = ip_msgcount
      /\ wasted' = wasted /\ pc' = pc /\ call' = call
  BY <1>5, ZenonT(60)
<1>7. Now \in States /\ ith \in [Threads -> Ith]
  BY <1>0, NowFields, ZenonT(60) DEF QInv, States
<1>8. /\ BInv(ip_blocked, ith, pc, call) /\ IsInjective(ip_blocked[p])
  BY <1>0, ZenonT(60) DEF SInv, BInv
<1>9. Dropped(ip_blocked[p], W, u) /\ (u # <<>> => Cardinality(W) = n)
  BY <1>1, <1>3, <1>4, <1>8, FirstDropped, ZenonT(60)
<1>10. Roused(W, ith, ith')
  BY <1>5, <1>7, Rouses, ZenonT(60)
<1>11. \A x \in W : x \in Threads /\ pc[x] = "send" /\ call[x].port = p
  <2>1. AreSenders(pc, call, W, p)
    BY <1>8, <1>9, BlockedSends, ZenonT(60)
  <2> QED
    BY <2>1, ZenonT(60) DEF AreSenders
<1>12. /\ Now' \in States /\ Now'.imq_messages = Now.imq_messages
       /\ Now'.imq_threads = Now.imq_threads /\ Now'.ip_seqno = Now.ip_seqno
  <2>1. UNCHANGED <<ip_seqno, imq>>
    BY <1>5, ZenonT(60)
  <2>2. ith' \in [Threads -> Ith]
    BY <1>10, ZenonT(60) DEF Roused
  <2> QED
    BY <1>7, <2>1, <2>2, NowIth, ZenonT(60)
<1>13. \A x \in Threads : AsWas(Now, pc, call, Now', pc, call, x)
  <2>1. Now.ith = ith /\ Now'.ith = ith'
    BY NowFields, NowNext, ZenonT(60)
  <2> QED
    BY <1>10, <1>11, <2>1, RousedAsWas, ZenonT(60)
<1>14. QInv(Now', pc, call, ip_pset, dead, base, sent, ip_msgcount)
  <2>1. QInv(Now, pc, call, ip_pset, dead, base, sent, ip_msgcount)
    BY <1>0, ZenonT(60)
  <2> QED
    BY <1>12, <1>13, <2>1, QSame, ZenonT(60)
<1>15. /\ ip_blocked' \in [Ports -> Seq(Threads)] /\ ip_blocked'[p] = u
       /\ \A r \in Ports \ {p} : ip_blocked'[r] = ip_blocked[r]
  <2>1. u \in Seq(Threads)
    BY <1>9, ZenonT(60) DEF Dropped
  <2> QED
    BY <1>0, <1>5, <2>1, ZenonT(60)
<1>16. /\ ip_qlimit' \in [Ports -> Nat] /\ ip_qlimit'[p] = qlimit
       /\ \A r \in Ports \ {p} : ip_qlimit'[r] = ip_qlimit[r]
  BY <1>0, <1>1, <1>5, ZenonT(60) DEF STypes
<1>17. STypes(ip_msgcount, ip_qlimit')
  BY <1>0, <1>16, ZenonT(60) DEF STypes
<1>18. SInv(ip_blocked', ith', pc, call, ip_msgcount, ip_qlimit', dead, wasted)
  <2>1. Rousing(ith, pc, call, ith', pc, call, W)
    BY <1>10, <1>11, ZenonT(60) DEF Rousing, Roused, SendsAs
  <2>2. Drops(ip_blocked, p, W, ip_blocked')
    BY <1>9, <1>15, ZenonT(60) DEF Drops
  <2>3. ASSUME p \notin dead, u # <<>>, p \notin wasted
        PROVE  ip_msgcount[p] + Cardinality(LetInAt(ith, pc, call, p)) + Cardinality(W) >= qlimit
    <3>1. ip_blocked[p] # <<>>
      BY <1>9, <2>3, ZenonT(60) DEF Dropped
    <3>2. Full(ith, pc, call, ip_msgcount, ip_qlimit, p)
      BY <1>0, <2>3, <3>1, ZenonT(60) DEF SInv
    <3>3. PICK k \in Nat : k = Cardinality(LetInAt(ith, pc, call, p))
      BY LetInFinite, ZenonT(60)
    <3>4. ip_msgcount[p] + k >= ip_qlimit[p]
      BY <3>2, <3>3, ZenonT(60) DEF Full
    <3>5. ip_msgcount[p] + k + n >= qlimit
      BY <3>4, <1>1, <1>2, SMTT(60)
    <3> QED
      BY <3>3, <3>5, <1>9, <2>3, ZenonT(60)
  <2>4. Slots(ip_blocked', LetInAt(ith, pc, call, p), W, ip_msgcount, ip_qlimit', p, dead, wasted)
    BY <2>3, <1>15, <1>16, ZenonT(60) DEF Slots
  <2>5. \A r \in Ports \ {p} : ip_msgcount[r] = ip_msgcount[r] /\ ip_qlimit'[r] = ip_qlimit[r]
    BY <1>16, ZenonT(60)
  <2>6. /\ SInv(ip_blocked, ith, pc, call, ip_msgcount, ip_qlimit, dead, wasted)
        /\ STypes(ip_msgcount, ip_qlimit) /\ dead \subseteq dead
    BY <1>0, ZenonT(60)
  <2> QED
    BY <1>17, <2>1, <2>2, <2>4, <2>5, <2>6, SRouse, ZenonT(60)
<1> QED
  BY <1>0, <1>6, <1>14, <1>15, <1>17, <1>18, ZenonT(60) DEF IInv

\* Receivers may have changed, others have not.
LEMMA StaySenders ==
  ASSUME NEW P, NEW C, NEW S, NEW T, OthersStay(S, P, T)
  PROVE  SendersSame(S.ith, P, C, T.ith, P, C)
<1>1. "receive" # "send"
  BY ZenonT(60)
<1>2. ASSUME NEW x \in Threads PROVE SendsAs(S.ith, P, C, T.ith, P, C, x)
  BY <1>1, ZenonT(60) DEF OthersStay, SendsAs
<1> QED
  BY <1>2, ZenonT(60) DEF SendersSame

\* A port in no set enters one.
LEMMA PsetAdd ==
  ASSUME SetLaws, NEW S, NEW P, NEW C, NEW ps, NEW d, NEW bs, NEW sn, NEW mc,
         QTypes(ps, d, bs, sn, mc), QInv(S, P, C, ps, d, bs, sn, mc),
         NEW p \in Ports, p \notin d, InNoSet(ps, p), NEW s \in Psets
  PROVE  Enters(S, P, C, [ps EXCEPT ![p] = s], d, bs, sn, mc, ipc_pset_add(S, s, p))
<1>0. /\ S \in States /\ ThreadInv(S, P, C) /\ QueueInv(S, ps, d, bs, sn)
      /\ ps \in [Ports -> Psets \cup {Null}] /\ bs \in [Ports -> Nat] /\ sn \in [Ports -> Nat]
  BY ZenonT(60) DEF QInv, QTypes
<1>1. PICK ps2 : ps2 = [ps EXCEPT ![p] = s]
  BY ZenonT(60)
<1>2. ps2[p] = s /\ \A r \in Ports \ {p} : ps2[r] = ps[r]
  BY <1>0, <1>1, ZenonT(60)
<1>3. s # Null /\ s # p /\ s \in Psets \cup {Null} /\ p \in Queues
  BY IpcAssumption, ZenonT(60) DEF Queues
<1>4. QOf(ps, p) = p /\ QOf(ps2, p) = s
  BY <1>2, <1>3, ZenonT(60) DEF QOf, InNoSet
<1>5. PICK T : T = ipc_mqueue_move(S, s, p, p)
  BY ZenonT(60)
<1>6. Moved(S, ps2, p, P, C, d, bs, sn, T)
  <2>1. QOf(ps, p) # QOf([ps EXCEPT ![p] = s], p)
    BY <1>1, <1>3, <1>4, ZenonT(60)
  <2>2. Moved(S, [ps EXCEPT ![p] = s], p, P, C, d, bs, sn,
              ipc_mqueue_move(S, QOf([ps EXCEPT ![p] = s], p), QOf(ps, p), p))
    BY <1>0, <1>3, <2>1, Move, ZenonT(60)
  <2> QED
    BY <2>2, <1>1, <1>4, <1>5, ZenonT(60)
<1>7. QCore(T, P, C, ps2, d, bs, sn, mc) /\ \A r \in Ports \ {p} : NoneOnMember(T, ps2, r)
  <2>1. ps2[p] # p /\ ps2[p] \in Psets \cup {Null}
    BY <1>2, <1>3, ZenonT(60)
  <2>2. \A r \in Ports \ {p} : ps2[r] = ps[r]
    BY <1>2, ZenonT(60)
  <2>3. QCore(T, P, C, ps2, d, bs, sn, mc) /\ NoneOnOthers(T, ps2, p)
    BY <1>6, <2>1, <2>2, QMoveCore, ZenonT(60)
  <2> QED
    BY <2>3, ZenonT(60) DEF NoneOnOthers
<1>8. T \in States /\ OthersStay(S, P, T)
  BY <1>6, ZenonT(60) DEF Moved, OthersStay
<1>9. "PORT_CHANGED" \in WaitStates /\ "PORT_CHANGED" \in Departures
  BY ZenonT(60) DEF WaitStates, Answers, Departures
<1>10. PICK U : U = ipc_mqueue_changed(T, p, "PORT_CHANGED")
  BY ZenonT(60)
<1>11. Changed(T, p, "PORT_CHANGED", U)
  BY <1>3, <1>8, <1>9, <1>10, ChangedBy, ZenonT(60)
<1>12. QCore(U, P, C, ps2, d, bs, sn, mc) /\ OthersStay(T, P, U)
  BY <1>3, <1>7, <1>9, <1>11, QChangedCore, ZenonT(60)
<1>13. ASSUME NEW r \in Ports PROVE NoneOnMember(U, ps2, r)
  <2>1. CASE r = p
    BY <2>1, <1>11, ZenonT(60) DEF Changed, NoneOnMember
  <2>2. CASE r # p
    <3>1. r \in Queues \ {p} /\ NoneOnMember(T, ps2, r)
      BY <2>2, <1>7, ZenonT(60) DEF Queues
    <3> QED
      BY <3>1, <1>11, ZenonT(60) DEF Changed, NoneOnMember
  <2> QED
    BY <2>1, <2>2, ZenonT(60)
<1>14. QInv(U, P, C, ps2, d, bs, sn, mc)
  BY <1>12, <1>13, QParts, ZenonT(60)
<1>15. OthersStay(S, P, U)
  BY <1>8, <1>12, ZenonT(60) DEF OthersStay
<1>16. Enters(S, P, C, ps2, d, bs, sn, mc, U)
  BY <1>14, <1>15, ZenonT(60) DEF Enters
<1> QED
  BY <1>1, <1>5, <1>10, <1>16, ZenonT(60) DEF ipc_pset_add

\* What is left to show of a step on ports and sets that touches no sender.
LEMMA EntersConcludes ==
  ASSUME SetLaws, IInv, RestSame, UNCHANGED <<pc, call>>, ip_pset' \in [Ports -> Psets \cup {Null}],
         NEW T, Enters(Now, pc, call, ip_pset', dead, base, sent, ip_msgcount, T), Become(T)
  PROVE  IInv'
<1>1. CInv(pc', call') /\ pc' = pc /\ call' = call
  BY ZenonT(60) DEF IInv
<1>2. QInv(T, pc', call', ip_pset', dead, base, sent, ip_msgcount)
  BY <1>1, ZenonT(60) DEF Enters
<1>3. SendersSame(ith, pc, call, T.ith, pc', call')
  <2>1. SendersSame(Now.ith, pc, call, T.ith, pc, call)
    BY StaySenders, ZenonT(60) DEF Enters
  <2> QED
    BY <1>1, <2>1, NowFields, ZenonT(60)
<1> QED
  BY <1>1, <1>2, <1>3, ReceiveConcludes, ZenonT(60)

\* A port goes from set to set.
LEMMA PsetMoveStep ==
  ASSUME SetLaws, IInv, NEW p \in Ports, NEW nset \in Psets \cup {Null}, ipc_pset_move(p, nset)
  PROVE  IInv'
<1>0. /\ QTypes(ip_pset, dead, base, sent, ip_msgcount) /\ ip_pset \in [Ports -> Psets \cup {Null}]
      /\ QInv(Now, pc, call, ip_pset, dead, base, sent, ip_msgcount)
  BY ZenonT(60) DEF IInv, QTypes
<1>1. PICK out : out = IF ip_pset[p] = Null THEN Now ELSE ipc_pset_remove(Now, ip_pset[p], p)
  BY ZenonT(60)
<1>2. PICK T : T = IF nset = Null THEN out ELSE ipc_pset_add(out, nset, p)
  BY ZenonT(60)
<1>3. /\ p \notin dead /\ nset # ip_pset[p] /\ Become(T)
      /\ ip_pset' = [ip_pset EXCEPT ![p] = nset]
      /\ UNCHANGED <<dead, ip_qlimit, ip_msgcount, ip_blocked, pc, call, sent, base, wasted>>
  BY <1>1, <1>2, ZenonT(60) DEF ipc_pset_move, Alive
<1>4. RestSame /\ UNCHANGED <<pc, call>>
  BY <1>3, ZenonT(60) DEF RestSame
<1>5. ip_pset' \in [Ports -> Psets \cup {Null}]
  BY <1>0, <1>3, ZenonT(60)
<1>6. PICK ps1 : ps1 = [ip_pset EXCEPT ![p] = Null]
  BY ZenonT(60)
<1>7. /\ QTypes(ps1, dead, base, sent, ip_msgcount) /\ InNoSet(ps1, p)
      /\ [ps1 EXCEPT ![p] = nset] = [ip_pset EXCEPT ![p] = nset]
  <2>1. Null \in Psets \cup {Null}
    BY ZenonT(60)
  <2>2. ps1 \in [Ports -> Psets \cup {Null}] /\ ps1[p] = Null
    BY <1>0, <1>6, <2>1, ZenonT(60)
  <2>3. [ps1 EXCEPT ![p] = nset] = [ip_pset EXCEPT ![p] = nset]
    BY <1>0, <1>6, ZenonT(60)
  <2> QED
    BY <1>0, <2>2, <2>3, ZenonT(60) DEF QTypes, InNoSet
<1>8. Enters(Now, pc, call, ps1, dead, base, sent, ip_msgcount, out)
  <2>1. CASE ip_pset[p] = Null
    <3>1. out = Now
      BY <1>1, <2>1, ZenonT(60)
    <3>2. ps1 = ip_pset
      BY <1>0, <1>6, <2>1, ZenonT(60)
    <3>3. OthersStay(Now, pc, Now)
      BY ZenonT(60) DEF OthersStay
    <3> QED
      BY <1>0, <3>1, <3>2, <3>3, ZenonT(60) DEF Enters
  <2>2. CASE ip_pset[p] # Null
    <3>1. LeftSet(Now, pc, call, ps1, dead, base, sent, ip_msgcount, p, out)
      <4>1. out = ipc_pset_remove(Now, ip_pset[p], p)
        BY <1>1, <2>2, ZenonT(60)
      <4>2. LeftSet(Now, pc, call, [ip_pset EXCEPT ![p] = Null], dead, base, sent, ip_msgcount, p,
                    ipc_pset_remove(Now, ip_pset[p], p))
        BY <1>0, <1>3, <2>2, PsetRemove, ZenonT(60)
      <4> QED
        BY <1>6, <4>1, <4>2, ZenonT(60)
    <3> QED
      BY <3>1, ZenonT(60) DEF LeftSet, Enters, OthersStay
  <2> QED
    BY <2>1, <2>2, ZenonT(60)
<1>9. Enters(Now, pc, call, ip_pset', dead, base, sent, ip_msgcount, T)
  <2>1. CASE nset = Null
    BY <1>2, <1>3, <1>6, <1>8, <2>1, ZenonT(60)
  <2>2. CASE nset # Null
    <3>1. T = ipc_pset_add(out, nset, p) /\ nset \in Psets
      BY <1>2, <2>2, ZenonT(60)
    <3>2. QInv(out, pc, call, ps1, dead, base, sent, ip_msgcount) /\ OthersStay(Now, pc, out)
      BY <1>8, ZenonT(60) DEF Enters
    <3>3. Enters(out, pc, call, [ps1 EXCEPT ![p] = nset], dead, base, sent, ip_msgcount, ipc_pset_add(out, nset, p))
      BY <1>3, <1>7, <3>1, <3>2, PsetAdd, ZenonT(60)
    <3>4. Enters(out, pc, call, ip_pset', dead, base, sent, ip_msgcount, T)
      BY <1>3, <1>7, <3>1, <3>3, ZenonT(60)
    <3> QED
      BY <3>2, <3>4, ZenonT(60) DEF Enters, OthersStay
  <2> QED
    BY <2>1, <2>2, ZenonT(60)
<1> QED
  BY <1>3, <1>4, <1>5, <1>9, EntersConcludes, ZenonT(60)

\* A port set dies.
LEMMA PsetDestroyStep ==
  ASSUME SetLaws, IInv, NEW s \in Psets, ipc_pset_destroy(s) PROVE IInv'
<1>0. /\ CInv(pc, call) /\ QTypes(ip_pset, dead, base, sent, ip_msgcount) /\ STypes(ip_msgcount, ip_qlimit)
      /\ ip_blocked \in [Ports -> Seq(Threads)] /\ wasted \subseteq Ports
      /\ QInv(Now, pc, call, ip_pset, dead, base, sent, ip_msgcount)
      /\ SInv(ip_blocked, ith, pc, call, ip_msgcount, ip_qlimit, dead, wasted)
  BY ZenonT(60) DEF IInv
<1>1. PICK T : T = ipc_mqueue_changed(Now, s, "PORT_DIED")
  BY ZenonT(60)
<1>2. /\ dead' = dead \cup {s} /\ Become(T)
      /\ UNCHANGED <<ip_pset, ip_qlimit, ip_msgcount, ip_blocked, pc, call, sent, base, wasted>>
  BY <1>1, ZenonT(60) DEF ipc_pset_destroy
<1>3. /\ ip_pset' = ip_pset /\ base' = base /\ sent' = sent /\ ip_msgcount' = ip_msgcount
      /\ wasted' = wasted /\ pc' = pc /\ call' = call /\ ip_qlimit' = ip_qlimit /\ ip_blocked' = ip_blocked
  BY <1>2, ZenonT(60)
<1>4. "PORT_DIED" \in WaitStates /\ "PORT_DIED" \in Departures /\ s \in Queues
  BY ZenonT(60) DEF WaitStates, Answers, Departures, Queues
<1>5. Now \in States
  BY <1>0, ZenonT(60) DEF QInv
<1>6. Changed(Now, s, "PORT_DIED", T)
  BY <1>1, <1>4, <1>5, ChangedBy, ZenonT(60)
<1>7. QInv(T, pc, call, ip_pset, dead, base, sent, ip_msgcount) /\ OthersStay(Now, pc, T)
  <2>1. QInv(Now, pc, call, ip_pset, dead, base, sent, ip_msgcount)
    BY <1>0, ZenonT(60)
  <2> QED
    BY <1>4, <1>6, <2>1, QChanged, ZenonT(60)
<1>8. QInv(T, pc, call, ip_pset, dead \cup {s}, base, sent, ip_msgcount)
  BY <1>7, QKillSet, ZenonT(60)
<1>9. Now' = T /\ ith' = T.ith
  <2>1. T \in States
    BY <1>7, ZenonT(60) DEF QInv
  <2> QED
    BY <1>2, <2>1, Becomes, ZenonT(60) DEF Become
<1>10. SendersSame(ith, pc, call, ith', pc, call)
  BY <1>7, <1>9, StaySenders, NowFields, ZenonT(60)
<1>11. SInv(ip_blocked, ith', pc, call, ip_msgcount, ip_qlimit, dead \cup {s}, wasted)
  <2>1. /\ SInv(ip_blocked, ith, pc, call, ip_msgcount, ip_qlimit, dead, wasted)
        /\ STypes(ip_msgcount, ip_qlimit)
    BY <1>0, ZenonT(60)
  <2>2. \A x \in Threads : SendsAs(ith, pc, call, ith', pc, call, x)
    BY <1>10, ZenonT(60) DEF SendersSame
  <2>3. \A r \in Ports \ dead : ip_msgcount[r] >= ip_msgcount[r]
    BY <2>1, SMTT(60) DEF STypes
  <2>4. dead \subseteq (dead \cup {s}) /\ wasted \subseteq wasted
    BY ZenonT(60)
  <2> QED
    BY <2>1, <2>2, <2>3, <2>4, SSame, ZenonT(60)
<1>12. QTypes(ip_pset, dead \cup {s}, base, sent, ip_msgcount)
  BY <1>0, <1>4, ZenonT(60) DEF QTypes
<1> QED
  BY <1>0, <1>2, <1>3, <1>8, <1>9, <1>11, <1>12, ZenonT(60) DEF IInv

\* ip_seqno of p is set to 0 in S.
LEMMA SeqnoReset ==
  ASSUME NEW S \in States, NEW p \in Ports, NEW bs \in [Ports -> Nat]
  PROVE  Resets(S, [S EXCEPT !.ip_seqno[p] = 0], p, bs, [bs EXCEPT ![p] = @ + S.ip_seqno[p]])
<1>1. PICK U : U = [S EXCEPT !.ip_seqno[p] = 0]
  BY ZenonT(60)
<1>2. PICK n : n = [S.ip_seqno EXCEPT ![p] = 0]
  BY ZenonT(60)
<1>3. PICK bs2 : bs2 = [bs EXCEPT ![p] = @ + S.ip_seqno[p]]
  BY ZenonT(60)
<1>4. S.ip_seqno \in [Ports -> Nat]
  BY ZenonT(60) DEF States
<1>5. n \in [Ports -> Nat] /\ n[p] = 0 /\ \A r \in Ports \ {p} : n[r] = S.ip_seqno[r]
  BY <1>2, <1>4, ZenonT(60)
<1>6. U = [S EXCEPT !.ip_seqno = n]
  BY <1>1, <1>2, ZenonT(60)
<1>7. /\ U \in States /\ U.ip_seqno = n
      /\ U.imq_messages = S.imq_messages /\ U.imq_threads = S.imq_threads /\ U.ith = S.ith
  BY <1>5, <1>6, ZenonT(60) DEF States
<1>8. bs2[p] = bs[p] + S.ip_seqno[p] /\ \A r \in Ports \ {p} : bs2[r] = bs[r]
  BY <1>3, ZenonT(60)
<1>9. Resets(S, U, p, bs, bs2)
  BY <1>5, <1>7, <1>8, ZenonT(60) DEF Resets
<1> QED
  BY <1>1, <1>3, <1>9, ZenonT(60)

\* ipc_port_clear_receiver takes the port out of its set, or sends its receivers away,
\* and sets ip_seqno to 0.
LEMMA ClearedIs ==
  ASSUME SetLaws, IInv, NEW p \in Ports, p \notin dead
  PROVE  Clears(p, [ip_pset EXCEPT ![p] = Null], [base EXCEPT ![p] = @ + ip_seqno[p]], Cleared(p))
<1>0. /\ QTypes(ip_pset, dead, base, sent, ip_msgcount) /\ ip_pset \in [Ports -> Psets \cup {Null}]
      /\ base \in [Ports -> Nat]
      /\ QInv(Now, pc, call, ip_pset, dead, base, sent, ip_msgcount)
  BY ZenonT(60) DEF IInv, QTypes
<1>1. PICK S : S = IF ip_pset[p] # Null THEN ipc_pset_remove(Now, ip_pset[p], p)
                   ELSE ipc_mqueue_changed(Now, p, "PORT_DIED")
  BY ZenonT(60)
<1>2. PICK ps2 : ps2 = [ip_pset EXCEPT ![p] = Null]
  BY ZenonT(60)
<1>3. QTypes(ps2, dead, base, sent, ip_msgcount) /\ InNoSet(ps2, p)
  <2>1. Null \in Psets \cup {Null}
    BY ZenonT(60)
  <2>2. ps2 \in [Ports -> Psets \cup {Null}] /\ ps2[p] = Null
    BY <1>0, <1>2, <2>1, ZenonT(60)
  <2> QED
    BY <1>0, <2>2, ZenonT(60) DEF QTypes, InNoSet
<1>4. /\ QInv(S, pc, call, ps2, dead, base, sent, ip_msgcount) /\ OthersStay(Now, pc, S)
      /\ S.ip_seqno[p] = ip_seqno[p]
  <2>1. CASE ip_pset[p] = Null
    <3>1. S = ipc_mqueue_changed(Now, p, "PORT_DIED")
      BY <1>1, <2>1, ZenonT(60)
    <3>2. ps2 = ip_pset
      BY <1>0, <1>2, <2>1, ZenonT(60)
    <3>3. "PORT_DIED" \in WaitStates /\ "PORT_DIED" \in Departures /\ p \in Queues
      BY ZenonT(60) DEF WaitStates, Answers, Departures, Queues
    <3>4. Now \in States
      BY <1>0, ZenonT(60) DEF QInv
    <3>5. Changed(Now, p, "PORT_DIED", S)
      BY <3>1, <3>3, <3>4, ChangedBy, ZenonT(60)
    <3>6. QInv(S, pc, call, ip_pset, dead, base, sent, ip_msgcount) /\ OthersStay(Now, pc, S)
      <4>1. QInv(Now, pc, call, ip_pset, dead, base, sent, ip_msgcount)
        BY <1>0, ZenonT(60)
      <4> QED
        BY <3>3, <3>5, <4>1, QChanged, ZenonT(60)
    <3> QED
      BY <3>2, <3>5, <3>6, NowFields, ZenonT(60) DEF Changed
  <2>2. CASE ip_pset[p] # Null
    <3>1. S = ipc_pset_remove(Now, ip_pset[p], p)
      BY <1>1, <2>2, ZenonT(60)
    <3>2. LeftSet(Now, pc, call, [ip_pset EXCEPT ![p] = Null], dead, base, sent, ip_msgcount, p,
                  ipc_pset_remove(Now, ip_pset[p], p))
      BY <1>0, <2>2, PsetRemove, ZenonT(60)
    <3>3. LeftSet(Now, pc, call, ps2, dead, base, sent, ip_msgcount, p, S)
      BY <1>2, <3>1, <3>2, ZenonT(60)
    <3> QED
      BY <3>3, NowFields, ZenonT(60) DEF LeftSet, OthersStay
  <2> QED
    BY <2>1, <2>2, ZenonT(60)
<1>5. S \in States
  BY <1>4, ZenonT(60) DEF QInv
<1>6. PICK U : U = [S EXCEPT !.ip_seqno[p] = 0]
  BY ZenonT(60)
<1>7. PICK bs2 : bs2 = [base EXCEPT ![p] = @ + ip_seqno[p]]
  BY ZenonT(60)
<1>8. Resets(S, U, p, base, bs2)
  <2>1. Resets(S, [S EXCEPT !.ip_seqno[p] = 0], p, base, [base EXCEPT ![p] = @ + S.ip_seqno[p]])
    BY <1>0, <1>5, SeqnoReset, ZenonT(60)
  <2> QED
    BY <1>4, <1>6, <1>7, <2>1, ZenonT(60)
<1>9. QInv(U, pc, call, ps2, dead, bs2, sent, ip_msgcount)
  <2>1. QInv(S, pc, call, ps2, dead, base, sent, ip_msgcount) /\ QTypes(ps2, dead, base, sent, ip_msgcount)
    BY <1>3, <1>4, ZenonT(60)
  <2> QED
    BY <1>8, <2>1, QReset, ZenonT(60)
<1>10. OthersStay(Now, pc, U)
  BY <1>4, <1>8, ZenonT(60) DEF OthersStay, Resets
<1>11. QTypes(ps2, dead, bs2, sent, ip_msgcount)
  <2>1. base[p] + ip_seqno[p] \in Nat
    <3>1. ip_seqno \in [Ports -> Nat]
      BY <1>0, NowFields, ZenonT(60) DEF QInv, States
    <3> QED
      BY <1>0, <3>1, SMTT(60)
  <2>2. bs2 \in [Ports -> Nat]
    BY <1>0, <1>7, <2>1, ZenonT(60)
  <2> QED
    BY <1>3, <2>2, ZenonT(60) DEF QTypes
<1>12. Clears(p, ps2, bs2, U)
  BY <1>3, <1>9, <1>10, <1>11, ZenonT(60) DEF Clears
<1>13. Cleared(p) = U
  BY <1>1, <1>6, ZenonT(60) DEF Cleared
<1> QED
  BY <1>2, <1>7, <1>12, <1>13, ZenonT(60)

\* The receive right of a port goes away.
LEMMA ClearReceiverStep ==
  ASSUME SetLaws, IInv, NEW p \in Ports, ipc_port_clear_receiver(p) PROVE IInv'
<1>0. /\ CInv(pc, call) /\ STypes(ip_msgcount, ip_qlimit)
      /\ ip_blocked \in [Ports -> Seq(Threads)] /\ wasted \subseteq Ports
  BY ZenonT(60) DEF IInv
<1>1. PICK T : T = Cleared(p)
  BY ZenonT(60)
<1>2. /\ p \notin dead /\ Become(T)
      /\ ip_pset' = [ip_pset EXCEPT ![p] = Null] /\ base' = [base EXCEPT ![p] = @ + ip_seqno[p]]
      /\ UNCHANGED <<dead, ip_qlimit, ip_msgcount, ip_blocked, pc, call, sent, wasted>>
  BY <1>1, ZenonT(60) DEF ipc_port_clear_receiver, Alive
<1>3. Clears(p, ip_pset', base', T)
  BY <1>1, <1>2, ClearedIs, ZenonT(60)
<1>4. /\ QInv(T, pc, call, ip_pset', dead, base', sent, ip_msgcount) /\ OthersStay(Now, pc, T)
      /\ QTypes(ip_pset', dead, base', sent, ip_msgcount)
  BY <1>3, ZenonT(60) DEF Clears
<1>5. Now' = T /\ ith' = T.ith
  <2>1. T \in States
    BY <1>4, ZenonT(60) DEF QInv
  <2> QED
    BY <1>2, <2>1, Becomes, ZenonT(60) DEF Become
<1>6. SendersSame(ith, pc, call, ith', pc, call)
  BY <1>4, <1>5, StaySenders, NowFields, ZenonT(60)
<1>7. /\ dead' = dead /\ ip_qlimit' = ip_qlimit /\ ip_msgcount' = ip_msgcount /\ ip_blocked' = ip_blocked
      /\ pc' = pc /\ call' = call /\ sent' = sent /\ wasted' = wasted
  BY <1>2, ZenonT(60)
<1>8. SInv(ip_blocked, ith', pc, call, ip_msgcount, ip_qlimit, dead, wasted)
  <2>1. SendersSame(ith, pc, call, ith', pc', call')
    BY <1>6, <1>7, ZenonT(60)
  <2>2. SInv(ip_blocked, ith', pc', call', ip_msgcount, ip_qlimit, dead, wasted)
    BY <2>1, SendersKeep, ZenonT(60)
  <2> QED
    BY <1>7, <2>2, ZenonT(60)
<1> QED
  BY <1>0, <1>4, <1>5, <1>7, <1>8, ZenonT(60) DEF IInv

\* The numbers of dead ports do not matter.
LEMMA QDeadBase ==
  ASSUME NEW S, NEW P, NEW C, NEW ps, NEW d, NEW bs, NEW bs2, NEW sn, NEW mc,
         QInv(S, P, C, ps, d, bs2, sn, mc), \A r \in Ports \ d : bs2[r] = bs[r]
  PROVE  QInv(S, P, C, ps, d, bs, sn, mc)
<1>1. QueueInv(S, ps, d, bs, sn)
  BY ZenonT(60) DEF QInv, QueueInv, Numbered
<1>2. \A r \in Ports \ d : Counted(S, P, bs, sn, mc, r)
  BY ZenonT(60) DEF QInv, Counted
<1> QED
  BY <1>1, <1>2, ZenonT(60) DEF QInv

\* ipc_port_destroy empties the queue and rouses all senders.
LEMMA DestroyedBy ==
  ASSUME ith \in [Threads -> Ith], NEW S \in States, NEW p \in Ports, NEW W
  PROVE  Destroyed(S, p, W, [S EXCEPT !.imq_messages[p] = <<>>,
                               !.ith = [t \in Threads |-> IF t \in W THEN Rouse(W)[t] ELSE S.ith[t]]])
<1>1. PICK I : I = [t \in Threads |-> IF t \in W THEN Rouse(W)[t] ELSE S.ith[t]]
  BY ZenonT(60)
<1>2. PICK M : M = [S.imq_messages EXCEPT ![p] = <<>>]
  BY ZenonT(60)
<1>3. PICK V : V = [S EXCEPT !.imq_messages[p] = <<>>,
                             !.ith = [t \in Threads |-> IF t \in W THEN Rouse(W)[t] ELSE S.ith[t]]]
  BY ZenonT(60)
<1>4. V = [S EXCEPT !.imq_messages = M, !.ith = I]
  BY <1>1, <1>2, <1>3, ZenonT(60)
<1>5. /\ S.imq_messages \in [Queues -> Seq(Message)] /\ S.imq_threads \in [Queues -> Seq(Threads)]
      /\ S.ith \in [Threads -> Ith] /\ S.ip_seqno \in [Ports -> Nat]
  BY ZenonT(60) DEF States
<1>6. Roused(W, ith, Rouse(W))
  BY Rouses, ZenonT(60)
<1>7. ASSUME NEW x \in Threads
      PROVE  /\ I[x] \in Ith
             /\ x \in W => I[x].state = "SUCCESS"
             /\ x \notin W => I[x] = S.ith[x]
  <2>1. I[x] = IF x \in W THEN Rouse(W)[x] ELSE S.ith[x]
    BY <1>1, ZenonT(60)
  <2>2. S.ith[x] \in Ith /\ Rouse(W)[x] \in Ith /\ (x \in W => Rouse(W)[x].state = "SUCCESS")
    BY <1>5, <1>6, ZenonT(60) DEF Roused
  <2> QED
    BY <2>1, <2>2, ZenonT(60)
<1>8. I \in [Threads -> Ith]
  BY <1>1, <1>7, ZenonT(60)
<1>9. M \in [Queues -> Seq(Message)]
  <2>1. <<>> \in Seq(Message)
    BY SMTT(60)
  <2> QED
    BY <1>2, <1>5, <2>1, ZenonT(60)
<1>10. /\ V \in States /\ V.imq_messages = M /\ V.ith = I
       /\ V.imq_threads = S.imq_threads /\ V.ip_seqno = S.ip_seqno
  BY <1>4, <1>8, <1>9, ZenonT(60) DEF States
<1>11. Destroyed(S, p, W, V)
  BY <1>2, <1>7, <1>10, ZenonT(60) DEF Destroyed
<1> QED
  BY <1>3, <1>11, ZenonT(60)

\* A port dies.
LEMMA PortDestroyStep ==
  ASSUME SetLaws, IInv, NEW p \in Ports, ipc_port_destroy(p) PROVE IInv'
<1>0. /\ CInv(pc, call) /\ STypes(ip_msgcount, ip_qlimit) /\ base \in [Ports -> Nat]
      /\ ip_blocked \in [Ports -> Seq(Threads)] /\ wasted \subseteq Ports
      /\ SInv(ip_blocked, ith, pc, call, ip_msgcount, ip_qlimit, dead, wasted)
      /\ QInv(Now, pc, call, ip_pset, dead, base, sent, ip_msgcount)
      /\ QTypes(ip_pset, dead, base, sent, ip_msgcount)
  BY ZenonT(60) DEF IInv, QTypes
<1>1. PICK S : S = Cleared(p)
  BY ZenonT(60)
<1>2. PICK W : W = Range(ip_blocked[p])
  BY ZenonT(60)
<1>3. PICK V : V = [S EXCEPT !.imq_messages[p] = <<>>,
                             !.ith = [t \in Threads |-> IF t \in W THEN Rouse(W)[t] ELSE S.ith[t]]]
  BY ZenonT(60)
<1>4. /\ p \notin dead /\ Become(V) /\ dead' = dead \cup {p}
      /\ ip_pset' = [ip_pset EXCEPT ![p] = Null] /\ ip_blocked' = [ip_blocked EXCEPT ![p] = <<>>]
      /\ UNCHANGED <<ip_qlimit, ip_msgcount, pc, call, sent, base, wasted>>
  BY <1>1, <1>2, <1>3, ZenonT(60) DEF ipc_port_destroy, Alive
<1>5. /\ ip_qlimit' = ip_qlimit /\ ip_msgcount' = ip_msgcount
      /\ pc' = pc /\ call' = call /\ sent' = sent /\ base' = base /\ wasted' = wasted
  BY <1>4, ZenonT(60)
<1>6. PICK bs2 : bs2 = [base EXCEPT ![p] = @ + ip_seqno[p]]
  BY ZenonT(60)
<1>7. Clears(p, ip_pset', bs2, S)
  BY <1>1, <1>4, <1>6, ClearedIs, ZenonT(60)
<1>8. /\ QInv(S, pc, call, ip_pset', dead, bs2, sent, ip_msgcount) /\ OthersStay(Now, pc, S)
      /\ QTypes(ip_pset', dead, bs2, sent, ip_msgcount) /\ ip_pset'[p] = Null
  BY <1>7, ZenonT(60) DEF Clears, InNoSet
<1>9. S \in States /\ ith \in [Threads -> Ith]
  BY <1>0, <1>8, NowFields, ZenonT(60) DEF QInv, States
<1>10. Destroyed(S, p, W, V)
  BY <1>3, <1>9, DestroyedBy, ZenonT(60)
<1>11. /\ V \in States
       /\ V.imq_messages = [S.imq_messages EXCEPT ![p] = <<>>] /\ V.imq_threads = S.imq_threads
       /\ V.ip_seqno = S.ip_seqno
       /\ \A x \in Threads : x \in W => V.ith[x].state = "SUCCESS"
       /\ \A x \in Threads : x \notin W => V.ith[x] = S.ith[x]
  BY <1>10, ZenonT(60) DEF Destroyed
<1>12. Dropped(ip_blocked[p], W, <<>>)
  <2>1. ip_blocked[p] \in Seq(Threads)
    BY <1>0, ZenonT(60)
  <2> QED
    BY <1>2, <2>1, AllDropped, ZenonT(60)
<1>13. \A x \in W : x \in Threads /\ pc[x] = "send" /\ call[x].port = p
  <2>1. BInv(ip_blocked, ith, pc, call)
    BY <1>0, ZenonT(60) DEF SInv
  <2>2. AreSenders(pc, call, W, p)
    BY <2>1, <1>12, BlockedSends, ZenonT(60)
  <2> QED
    BY <2>2, ZenonT(60) DEF AreSenders
<1>14. \A x \in Threads : AsWas(S, pc, call, V, pc, call, x)
  <2>1. "send" # "receive" /\ "send" # "account"
    BY ZenonT(60)
  <2>2. ASSUME NEW x \in Threads, x \in W PROVE AsWas(S, pc, call, V, pc, call, x)
    BY <1>13, <2>1, <2>2, ZenonT(60) DEF AsWas, Holds
  <2>3. ASSUME NEW x \in Threads, x \notin W PROVE AsWas(S, pc, call, V, pc, call, x)
    BY <1>11, <2>3, ZenonT(60) DEF AsWas
  <2> QED
    BY <2>2, <2>3, ZenonT(60)
<1>15. QInv(V, pc, call, ip_pset', dead \cup {p}, bs2, sent, ip_msgcount)
  <2>1. Kills(S, V, ip_pset', p)
    BY <1>8, <1>11, ZenonT(60) DEF Kills
  <2>2. QInv(S, pc, call, ip_pset', dead, bs2, sent, ip_msgcount) /\ QTypes(ip_pset', dead, bs2, sent, ip_msgcount)
    BY <1>8, ZenonT(60)
  <2> QED
    BY <1>14, <2>1, <2>2, QKill, ZenonT(60)
<1>16. QInv(V, pc, call, ip_pset', dead \cup {p}, base, sent, ip_msgcount)
  <2>1. \A r \in Ports \ (dead \cup {p}) : bs2[r] = base[r]
    BY <1>0, <1>6, ZenonT(60)
  <2> QED
    BY <1>15, <2>1, QDeadBase, ZenonT(60)
<1>17. Now' = V /\ ith' = V.ith
  BY <1>4, <1>11, Becomes, ZenonT(60) DEF Become
<1>18. /\ ip_blocked' \in [Ports -> Seq(Threads)] /\ ip_blocked'[p] = <<>>
       /\ \A r \in Ports \ {p} : ip_blocked'[r] = ip_blocked[r]
  <2>1. <<>> \in Seq(Threads)
    BY SMTT(60)
  <2> QED
    BY <1>0, <1>4, <2>1, ZenonT(60)
<1>19. SInv(ip_blocked', ith', pc, call, ip_msgcount, ip_qlimit, dead \cup {p}, wasted)
  <2>1. Rousing(ith, pc, call, ith', pc, call, W)
    <3>1. \A x \in W : pc[x] = "send" /\ call[x].port = call[x].port /\ ith'[x].state = "SUCCESS"
      BY <1>11, <1>13, <1>17, ZenonT(60)
    <3>2. ASSUME NEW x \in Threads, x \notin W PROVE SendsAs(ith, pc, call, ith', pc, call, x)
      <4>1. SendersSame(ith, pc, call, S.ith, pc, call)
        BY <1>8, StaySenders, NowFields, ZenonT(60)
      <4>2. SendsAs(ith, pc, call, S.ith, pc, call, x)
        BY <4>1, ZenonT(60) DEF SendersSame
      <4>3. ith'[x] = S.ith[x]
        BY <1>11, <1>17, <3>2, ZenonT(60)
      <4> QED
        BY <4>2, <4>3, ZenonT(60) DEF SendsAs
    <3> QED
      BY <3>1, <3>2, ZenonT(60) DEF Rousing
  <2>2. Drops(ip_blocked, p, W, ip_blocked')
    BY <1>12, <1>18, ZenonT(60) DEF Drops
  <2>3. Slots(ip_blocked', LetInAt(ith, pc, call, p), W, ip_msgcount, ip_qlimit, p, dead \cup {p}, wasted)
    BY <1>18, ZenonT(60) DEF Slots
  <2>4. \A r \in Ports \ {p} : ip_msgcount[r] = ip_msgcount[r] /\ ip_qlimit[r] = ip_qlimit[r]
    BY ZenonT(60)
  <2>5. /\ SInv(ip_blocked, ith, pc, call, ip_msgcount, ip_qlimit, dead, wasted)
        /\ STypes(ip_msgcount, ip_qlimit) /\ dead \subseteq (dead \cup {p})
    BY <1>0, ZenonT(60)
  <2> QED
    BY <2>1, <2>2, <2>3, <2>4, <2>5, SRouse, ZenonT(60)
<1>20. QTypes(ip_pset', dead \cup {p}, base, sent, ip_msgcount)
  <2>1. p \in Queues
    BY ZenonT(60) DEF Queues
  <2> QED
    BY <1>0, <1>8, <2>1, ZenonT(60) DEF QTypes
<1> QED
  BY <1>0, <1>4, <1>5, <1>16, <1>17, <1>18, <1>19, <1>20, ZenonT(60) DEF IInv
=============================================================================
