-------------------------- MODULE IpcMqueueSenders --------------------------
(***************************************************************************)
(* What keeps SInv, the half of the invariant of IpcMqueue that speaks of  *)
(* blocked senders; ipc_mqueue_send, senders that run again, and timeouts  *)
(* keep the whole invariant.                                               *)
(***************************************************************************)
EXTENDS IpcMqueueQueues

\* Finitely many senders are let in.
LEMMA LetInFinite ==
  ASSUME SetLaws, NEW I, NEW P, NEW C, NEW p
  PROVE  IsFiniteSet(LetInAt(I, P, C, p)) /\ Cardinality(LetInAt(I, P, C, p)) \in Nat
<1>1. LetInAt(I, P, C, p) \subseteq Threads
  BY ZenonT(60) DEF LetInAt
<1>2. IsFiniteSet(Threads)
  BY IpcAssumption, ZenonT(60)
<1>3. IsFiniteSet(LetInAt(I, P, C, p))
  BY <1>1, <1>2, SubsetSize, ZenonT(60)
<1> QED
  BY <1>3, CardinalityType, ZenonT(60)

\* Steps that leave senders alone, and count no message out, keep their invariant.
LEMMA SSame ==
  ASSUME SetLaws, NEW B, NEW I, NEW P, NEW C, NEW I2, NEW P2, NEW C2, NEW mc, NEW mc2, NEW ql, NEW d, NEW d2, NEW w, NEW w2,
         SInv(B, I, P, C, mc, ql, d, w), STypes(mc, ql), STypes(mc2, ql),
         \A x \in Threads : SendsAs(I, P, C, I2, P2, C2, x),
         \A p \in Ports \ d : mc2[p] >= mc[p], d \subseteq d2, w \subseteq w2
  PROVE  SInv(B, I2, P2, C2, mc2, ql, d2, w2)
<1>1. BInv(B, I2, P2, C2)
  <2>1. ASSUME NEW t \in Threads, NEW p \in Ports
        PROVE  t \in Range(B[p]) <=> P2[t] = "send" /\ C2[t].port = p /\ I2[t].state = "SEND_IN_PROGRESS"
    <3>1. t \in Range(B[p]) <=> P[t] = "send" /\ C[t].port = p /\ I[t].state = "SEND_IN_PROGRESS"
      BY ZenonT(60) DEF SInv, BInv
    <3> QED
      BY <3>1, ZenonT(60) DEF SendsAs
  <2>2. ASSUME NEW t \in Threads, P2[t] = "send"
        PROVE  C2[t].port \in Ports /\ I2[t].state \in {"SEND_IN_PROGRESS", "SUCCESS"}
    <3>1. P[t] = "send" /\ C2[t].port = C[t].port /\ I2[t].state = I[t].state
      BY <2>2, ZenonT(60) DEF SendsAs
    <3>2. C[t].port \in Ports /\ I[t].state \in {"SEND_IN_PROGRESS", "SUCCESS"}
      BY <3>1, ZenonT(60) DEF SInv, BInv
    <3> QED
      BY <3>1, <3>2, ZenonT(60)
  <2>3. \A p \in Ports : B[p] \in Seq(Threads) /\ IsInjective(B[p])
    BY ZenonT(60) DEF SInv, BInv
  <2> QED
    BY <2>1, <2>2, <2>3, ZenonT(60) DEF BInv
<1>2. ASSUME NEW p \in Ports \ d2, B[p] # <<>>, p \notin w2 PROVE Full(I2, P2, C2, mc2, ql, p)
  <2>1. p \notin d /\ p \notin w
    BY <1>2, ZenonT(60)
  <2>2. Full(I, P, C, mc, ql, p)
    BY <1>2, <2>1, ZenonT(60) DEF SInv
  <2>3. LetInAt(I2, P2, C2, p) = LetInAt(I, P, C, p)
    <3>1. ASSUME NEW x \in Threads PROVE x \in LetInAt(I2, P2, C2, p) <=> x \in LetInAt(I, P, C, p)
      BY ZenonT(60) DEF LetInAt, SendsAs
    <3> QED
      BY <3>1, ZenonT(60) DEF LetInAt
  <2>4. PICK n \in Nat : n = Cardinality(LetInAt(I, P, C, p))
    BY LetInFinite, ZenonT(60)
  <2>5. mc[p] \in Int /\ mc2[p] \in Int /\ ql[p] \in Nat /\ mc2[p] >= mc[p]
    BY <2>1, ZenonT(60) DEF STypes
  <2>6. mc[p] + n >= ql[p]
    BY <2>2, <2>4, ZenonT(60) DEF Full
  <2>7. mc2[p] + n >= ql[p]
    BY <2>5, <2>6, SMTT(60)
  <2> QED
    BY <2>3, <2>4, <2>7, ZenonT(60) DEF Full
<1> QED
  BY <1>1, <1>2, ZenonT(60) DEF SInv

\* ipc_thread_enqueue puts a sender at the end.
LEMMA Joins ==
  ASSUME NEW R \in Seq(Threads), IsInjective(R), NEW t \in Threads, t \notin Range(R)
  PROVE  Joined(R, t, Append(R, t))
<1>2. PICK A : A = Append(R, t)
  BY ZenonT(60)
<1>3. /\ DOMAIN A = 1..(Len(R) + 1) /\ DOMAIN R = 1..Len(R) /\ Len(R) \in Nat /\ A \in Seq(Threads)
      /\ A[Len(R) + 1] = t /\ \A i \in 1..Len(R) : A[i] = R[i]
  BY <1>2, SMTT(60)
<1>4. ASSUME NEW x PROVE x \in Range(A) <=> x \in Range(R) \/ x = t
  BY <1>3, SMTT(60) DEF Range
<1>5. \A i \in 1..Len(R) : R[i] # t
  BY <1>3, ZenonT(60) DEF Range
<1>6. ASSUME NEW i \in DOMAIN A, NEW j \in DOMAIN A, A[i] = A[j] PROVE i = j
  <2>1. CASE i \in 1..Len(R) /\ j \in 1..Len(R)
    BY <2>1, <1>3, <1>6, ZenonT(60) DEF IsInjective
  <2>2. CASE i = Len(R) + 1 \/ j = Len(R) + 1
    BY <2>2, <1>3, <1>5, <1>6, SMTT(60)
  <2> QED
    BY <2>1, <2>2, <1>3, SMTT(60)
<1>7. IsInjective(A)
  BY <1>6, ZenonT(60) DEF IsInjective
<1> QED
  BY <1>2, <1>3, <1>4, <1>7, ZenonT(60) DEF Joined

\* Thread t, not blocked, blocks at p, which is full.
LEMMA SBlock ==
  ASSUME SetLaws, NEW B, NEW I, NEW P, NEW C, NEW I2, NEW P2, NEW C2, NEW mc, NEW ql, NEW d, NEW w, NEW w2,
         SInv(B, I, P, C, mc, ql, d, w), STypes(mc, ql),
         NEW t \in Threads, NEW p \in Ports,
         BlocksFrom(I, P, C, t, p), BlocksAt(I2, P2, C2, t, p),
         OthersSendAs(I, P, C, I2, P2, C2, t), Crowded(mc, ql, p), w \subseteq w2,
         NEW B2, Joined(B[p], t, B2[p]), OthersKept(B, B2, p)
  PROVE  SInv(B2, I2, P2, C2, mc, ql, d, w2)
<1>y. /\ \A x \in Threads \ {t} : SendsAs(I, P, C, I2, P2, C2, x)
      /\ mc[p] >= ql[p] /\ \A r \in Ports \ {p} : B2[r] = B[r]
  BY ZenonT(60) DEF OthersSendAs, Crowded, OthersKept
<1> USE <1>y
<1>z. /\ ~(P[t] = "send" /\ I[t].state = "SEND_IN_PROGRESS") /\ (P[t] = "send" => C[t].port = p)
      /\ P2[t] = "send" /\ C2[t].port = p /\ I2[t].state = "SEND_IN_PROGRESS"
  BY ZenonT(60) DEF BlocksFrom, BlocksAt
<1> USE <1>z
<1>0. BInv(B, I, P, C)
  BY ZenonT(60) DEF SInv
<1>a. /\ \A x \in Threads, r \in Ports : x \in Range(B[r]) <=>
            P[x] = "send" /\ C[x].port = r /\ I[x].state = "SEND_IN_PROGRESS"
      /\ \A x \in Threads : P[x] = "send" =>
            C[x].port \in Ports /\ I[x].state \in {"SEND_IN_PROGRESS", "SUCCESS"}
      /\ \A r \in Ports : B[r] \in Seq(Threads) /\ IsInjective(B[r])
  BY <1>0, ZenonT(60) DEF BInv
<1>b. /\ B2[p] \in Seq(Threads) /\ IsInjective(B2[p])
      /\ \A x \in Threads : x \in Range(B2[p]) <=> x \in Range(B[p]) \/ x = t
  BY ZenonT(60) DEF Joined
<1>c. \A x \in Threads \ {t} : /\ P2[x] = "send" <=> P[x] = "send"
                               /\ P2[x] = "send" => C2[x].port = C[x].port /\ I2[x].state = I[x].state
  BY ZenonT(60) DEF SendsAs
<1>1. BInv(B2, I2, P2, C2)
  <2>1. ASSUME NEW x \in Threads, NEW r \in Ports
        PROVE  x \in Range(B2[r]) <=> P2[x] = "send" /\ C2[x].port = r /\ I2[x].state = "SEND_IN_PROGRESS"
    <3>0. x \in Range(B[r]) <=> P[x] = "send" /\ C[x].port = r /\ I[x].state = "SEND_IN_PROGRESS"
      BY <1>a, ZenonT(60)
    <3>1. CASE x = t /\ r = p
      BY <3>1, <1>b, ZenonT(60)
    <3>2. CASE x = t /\ r # p
      BY <3>0, <3>2, ZenonT(60)
    <3>3. CASE x # t
      <4>1. x \in Range(B2[r]) <=> x \in Range(B[r])
        BY <3>3, <1>b, ZenonT(60)
      <4> QED
        BY <3>0, <3>3, <4>1, <1>c, ZenonT(60)
    <3> QED
      BY <3>1, <3>2, <3>3, ZenonT(60)
  <2>2. ASSUME NEW x \in Threads, P2[x] = "send"
        PROVE  C2[x].port \in Ports /\ I2[x].state \in {"SEND_IN_PROGRESS", "SUCCESS"}
    <3>1. CASE x = t
      BY <3>1, ZenonT(60)
    <3>2. CASE x # t
      <4>1. P[x] = "send" /\ C2[x].port = C[x].port /\ I2[x].state = I[x].state
        BY <2>2, <3>2, <1>c, ZenonT(60)
      <4> QED
        BY <4>1, <1>a, ZenonT(60)
    <3> QED
      BY <3>1, <3>2, ZenonT(60)
  <2>3. \A r \in Ports : B2[r] \in Seq(Threads) /\ IsInjective(B2[r])
    BY <1>a, <1>b, ZenonT(60)
  <2> QED
    BY <2>1, <2>2, <2>3, ZenonT(60) DEF BInv
<1>2. ASSUME NEW r \in Ports \ d, B2[r] # <<>>, r \notin w2 PROVE Full(I2, P2, C2, mc, ql, r)
  <2>1. CASE r = p
    <3>1. PICK n \in Nat : n = Cardinality(LetInAt(I2, P2, C2, p))
      BY LetInFinite, ZenonT(60)
    <3>2. mc[p] + n >= ql[p]
      BY SMTT(60) DEF STypes
    <3> QED
      BY <2>1, <3>1, <3>2, ZenonT(60) DEF Full
  <2>2. CASE r # p
    <3>1. B[r] # <<>> /\ r \notin w
      BY <2>2, <1>2, ZenonT(60)
    <3>2. Full(I, P, C, mc, ql, r)
      BY <3>1, ZenonT(60) DEF SInv
    <3>3. LetInAt(I2, P2, C2, r) = LetInAt(I, P, C, r)
      <4>1. ASSUME NEW x \in Threads PROVE x \in LetInAt(I2, P2, C2, r) <=> x \in LetInAt(I, P, C, r)
        <5>1. CASE x = t
          BY <5>1, <2>2, ZenonT(60) DEF LetInAt
        <5>2. CASE x # t
          BY <5>2, <1>c, ZenonT(60) DEF LetInAt
        <5> QED
          BY <5>1, <5>2, ZenonT(60)
      <4> QED
        BY <4>1, ZenonT(60) DEF LetInAt
    <3> QED
      BY <3>2, <3>3, ZenonT(60) DEF Full
  <2> QED
    BY <2>1, <2>2, ZenonT(60)
<1> QED
  BY <1>1, <1>2, ZenonT(60) DEF SInv

\* Thread t, which was blocked at p, leaves.
LEMMA SUnblock ==
  ASSUME SetLaws, NEW B, NEW I, NEW P, NEW C, NEW I2, NEW P2, NEW C2, NEW mc, NEW mc2, NEW ql, NEW d, NEW w, NEW w2,
         SInv(B, I, P, C, mc, ql, d, w), STypes(mc, ql), STypes(mc2, ql),
         NEW t \in Threads, NEW p \in Ports,
         P[t] = "send", C[t].port = p, I[t].state = "SEND_IN_PROGRESS", P2[t] # "send",
         \A x \in Threads \ {t} : SendsAs(I, P, C, I2, P2, C2, x),
         \A r \in Ports : mc2[r] >= mc[r], w \subseteq w2,
         NEW B2, Removed(B[p], t, B2[p]), \A r \in Ports \ {p} : B2[r] = B[r]
  PROVE  SInv(B2, I2, P2, C2, mc2, ql, d, w2)
<1>0. BInv(B, I, P, C)
  BY ZenonT(60) DEF SInv
<1>a. /\ \A x \in Threads, r \in Ports : x \in Range(B[r]) <=>
            P[x] = "send" /\ C[x].port = r /\ I[x].state = "SEND_IN_PROGRESS"
      /\ \A x \in Threads : P[x] = "send" =>
            C[x].port \in Ports /\ I[x].state \in {"SEND_IN_PROGRESS", "SUCCESS"}
      /\ \A r \in Ports : B[r] \in Seq(Threads) /\ IsInjective(B[r])
  BY <1>0, ZenonT(60) DEF BInv
<1>b. /\ B2[p] \in Seq(Threads) /\ IsInjective(B2[p])
      /\ \A x \in Threads : x \in Range(B2[p]) <=> x \in Range(B[p]) /\ x # t
      /\ B[p] = <<>> => B2[p] = <<>>
  BY ZenonT(60) DEF Removed
<1>c. \A x \in Threads \ {t} : /\ P2[x] = "send" <=> P[x] = "send"
                               /\ P2[x] = "send" => C2[x].port = C[x].port /\ I2[x].state = I[x].state
  BY ZenonT(60) DEF SendsAs
<1>1. BInv(B2, I2, P2, C2)
  <2>1. ASSUME NEW x \in Threads, NEW r \in Ports
        PROVE  x \in Range(B2[r]) <=> P2[x] = "send" /\ C2[x].port = r /\ I2[x].state = "SEND_IN_PROGRESS"
    <3>0. x \in Range(B[r]) <=> P[x] = "send" /\ C[x].port = r /\ I[x].state = "SEND_IN_PROGRESS"
      BY <1>a, ZenonT(60)
    <3>1. CASE x = t /\ r = p
      BY <3>1, <1>b, ZenonT(60)
    <3>2. CASE x = t /\ r # p
      BY <3>0, <3>2, ZenonT(60)
    <3>3. CASE x # t
      <4>1. x \in Range(B2[r]) <=> x \in Range(B[r])
        BY <3>3, <1>b, ZenonT(60)
      <4> QED
        BY <3>0, <3>3, <4>1, <1>c, ZenonT(60)
    <3> QED
      BY <3>1, <3>2, <3>3, ZenonT(60)
  <2>2. ASSUME NEW x \in Threads, P2[x] = "send"
        PROVE  C2[x].port \in Ports /\ I2[x].state \in {"SEND_IN_PROGRESS", "SUCCESS"}
    <3>1. P[x] = "send" /\ C2[x].port = C[x].port /\ I2[x].state = I[x].state
      BY <2>2, <1>c, ZenonT(60)
    <3> QED
      BY <3>1, <1>a, ZenonT(60)
  <2>3. \A r \in Ports : B2[r] \in Seq(Threads) /\ IsInjective(B2[r])
    BY <1>a, <1>b, ZenonT(60)
  <2> QED
    BY <2>1, <2>2, <2>3, ZenonT(60) DEF BInv
<1>2. ASSUME NEW r \in Ports \ d, B2[r] # <<>>, r \notin w2 PROVE Full(I2, P2, C2, mc2, ql, r)
  <2>1. B[r] # <<>> /\ r \notin w
    BY <1>2, <1>b, ZenonT(60)
  <2>2. Full(I, P, C, mc, ql, r)
    BY <2>1, ZenonT(60) DEF SInv
  <2>3. LetInAt(I2, P2, C2, r) = LetInAt(I, P, C, r)
    <3>1. ASSUME NEW x \in Threads PROVE x \in LetInAt(I2, P2, C2, r) <=> x \in LetInAt(I, P, C, r)
      <4>1. CASE x = t
        BY <4>1, ZenonT(60) DEF LetInAt
      <4>2. CASE x # t
        BY <4>2, <1>c, ZenonT(60) DEF LetInAt
      <4> QED
        BY <4>1, <4>2, ZenonT(60)
    <3> QED
      BY <3>1, ZenonT(60) DEF LetInAt
  <2>4. PICK n \in Nat : n = Cardinality(LetInAt(I, P, C, r))
    BY LetInFinite, ZenonT(60)
  <2>5. mc[r] \in Int /\ mc2[r] \in Int /\ ql[r] \in Nat /\ mc2[r] >= mc[r]
    BY ZenonT(60) DEF STypes
  <2>6. mc[r] + n >= ql[r]
    BY <2>2, <2>4, ZenonT(60) DEF Full
  <2>7. mc2[r] + n >= ql[r]
    BY <2>5, <2>6, SMTT(60)
  <2> QED
    BY <2>3, <2>4, <2>7, ZenonT(60) DEF Full
<1> QED
  BY <1>1, <1>2, ZenonT(60) DEF SInv

\* Thread t, which was let in at p, leaves: its slot is taken by the message it sent, or
\* there is none, or it is wasted.
LEMMA SGoes ==
  ASSUME SetLaws, NEW B, NEW I, NEW P, NEW C, NEW I2, NEW P2, NEW C2, NEW mc, NEW mc2, NEW ql, NEW d, NEW w, NEW w2,
         SInv(B, I, P, C, mc, ql, d, w), STypes(mc, ql), STypes(mc2, ql),
         NEW t \in Threads, NEW p \in Ports,
         P[t] = "send", C[t].port = p, I[t].state = "SUCCESS", P2[t] # "send",
         \A x \in Threads \ {t} : SendsAs(I, P, C, I2, P2, C2, x),
         \A r \in Ports : mc2[r] >= mc[r], w \subseteq w2,
         p \in d \/ p \in w2 \/ mc2[p] >= mc[p] + 1 \/ mc2[p] >= ql[p]
  PROVE  SInv(B, I2, P2, C2, mc2, ql, d, w2)
<1>a. /\ \A x \in Threads, r \in Ports : x \in Range(B[r]) <=>
            P[x] = "send" /\ C[x].port = r /\ I[x].state = "SEND_IN_PROGRESS"
      /\ \A x \in Threads : P[x] = "send" =>
            C[x].port \in Ports /\ I[x].state \in {"SEND_IN_PROGRESS", "SUCCESS"}
      /\ \A r \in Ports : B[r] \in Seq(Threads) /\ IsInjective(B[r])
  BY ZenonT(60) DEF SInv, BInv
<1>c. \A x \in Threads \ {t} : /\ P2[x] = "send" <=> P[x] = "send"
                               /\ P2[x] = "send" => C2[x].port = C[x].port /\ I2[x].state = I[x].state
  BY ZenonT(60) DEF SendsAs
<1>1. BInv(B, I2, P2, C2)
  <2>1. ASSUME NEW x \in Threads, NEW r \in Ports
        PROVE  x \in Range(B[r]) <=> P2[x] = "send" /\ C2[x].port = r /\ I2[x].state = "SEND_IN_PROGRESS"
    <3>0. x \in Range(B[r]) <=> P[x] = "send" /\ C[x].port = r /\ I[x].state = "SEND_IN_PROGRESS"
      BY <1>a, ZenonT(60)
    <3>1. CASE x = t
      BY <3>0, <3>1, ZenonT(60)
    <3>2. CASE x # t
      BY <3>0, <3>2, <1>c, ZenonT(60)
    <3> QED
      BY <3>1, <3>2, ZenonT(60)
  <2>2. ASSUME NEW x \in Threads, P2[x] = "send"
        PROVE  C2[x].port \in Ports /\ I2[x].state \in {"SEND_IN_PROGRESS", "SUCCESS"}
    <3>1. P[x] = "send" /\ C2[x].port = C[x].port /\ I2[x].state = I[x].state
      BY <2>2, <1>c, ZenonT(60)
    <3> QED
      BY <3>1, <1>a, ZenonT(60)
  <2> QED
    BY <2>1, <2>2, <1>a, ZenonT(60) DEF BInv
<1>2. ASSUME NEW r \in Ports \ d, B[r] # <<>>, r \notin w2 PROVE Full(I2, P2, C2, mc2, ql, r)
  <2>1. r \notin w
    BY <1>2, ZenonT(60)
  <2>2. Full(I, P, C, mc, ql, r)
    BY <1>2, <2>1, ZenonT(60) DEF SInv
  <2>3. \A x \in Threads \ {t} : x \in LetInAt(I2, P2, C2, r) <=> x \in LetInAt(I, P, C, r)
    BY <1>c, ZenonT(60) DEF LetInAt
  <2>4. t \notin LetInAt(I2, P2, C2, r) /\ (t \in LetInAt(I, P, C, r) <=> r = p)
    BY ZenonT(60) DEF LetInAt
  <2>5. PICK L : L = LetInAt(I, P, C, r)
    BY ZenonT(60)
  <2>6. LetInAt(I2, P2, C2, r) = L \ {t}
    BY <2>3, <2>4, <2>5, ZenonT(60) DEF LetInAt
  <2>7. IsFiniteSet(L) /\ Cardinality(L) \in Nat
    BY <2>5, LetInFinite, ZenonT(60)
  <2>8. mc[r] \in Int /\ mc2[r] \in Int /\ ql[r] \in Nat /\ mc2[r] >= mc[r]
    BY ZenonT(60) DEF STypes
  <2>9. mc[r] + Cardinality(L) >= ql[r]
    BY <2>2, <2>5, ZenonT(60) DEF Full
  <2>10. CASE r # p
    <3>1. t \notin L
      BY <2>10, <2>4, <2>5, ZenonT(60)
    <3>2. L \ {t} = L
      BY <3>1, ZenonT(60)
    <3>3. mc2[r] + Cardinality(L) >= ql[r]
      BY <2>7, <2>8, <2>9, SMTT(60)
    <3> QED
      BY <3>2, <3>3, <2>6, ZenonT(60) DEF Full
  <2>11. CASE r = p
    <3>1. Cardinality(L \ {t}) = Cardinality(L) - 1 /\ Cardinality(L \ {t}) \in Nat
      <4>1. t \in L
        BY <2>11, <2>4, <2>5, ZenonT(60)
      <4>2. Cardinality(L \ {t}) = Cardinality(L) - 1 /\ IsFiniteSet(L \ {t})
        BY <4>1, <2>7, RemoveElement, ZenonT(60)
      <4> QED
        BY <4>2, CardinalityType, ZenonT(60)
    <3>2. mc2[r] >= mc[r] + 1 \/ mc2[r] >= ql[r]
      BY <2>11, <1>2, ZenonT(60)
    <3>3. mc2[r] + Cardinality(L \ {t}) >= ql[r]
      BY <3>1, <3>2, <2>7, <2>8, <2>9, SMTT(60)
    <3> QED
      BY <3>3, <2>6, ZenonT(60) DEF Full
  <2> QED
    BY <2>10, <2>11, ZenonT(60)
<1> QED
  BY <1>1, <1>2, ZenonT(60) DEF SInv

\* A one-to-one image of a finite set is as large.
LEMMA SameSize ==
  ASSUME SetLaws, NEW S, IsFiniteSet(S), NEW f, \A x, y \in S : f[x] = f[y] => x = y
  PROVE  AsMany(S, {f[x] : x \in S})
<1>0. PICK T : T = {f[x] : x \in S}
  BY ZenonT(60)
<1>1. PICK g : g = [x \in S |-> f[x]]
  BY ZenonT(60)
<1>2. g \in [S -> T]
  BY <1>0, <1>1, ZenonT(60)
<1>3. IsInjective(g)
  BY <1>1, ZenonT(60) DEF IsInjective
<1>4. \A t \in T : \E s \in S : g[s] = t
  BY <1>0, <1>1, ZenonT(60)
<1>5. g \in Bijection(S, T)
  BY <1>2, <1>3, <1>4, ZenonT(60) DEF Bijection, Injection, Surjection
<1>6. ExistsBijection(S, T)
  BY <1>5, ZenonT(60) DEF ExistsBijection
<1>7. IsFiniteSet(T) /\ Cardinality(T) = Cardinality(S)
  BY <1>6, BijectionSize, ZenonT(60)
<1> QED
  BY <1>0, <1>7, ZenonT(60) DEF AsMany

\* Rousing senders: those in W are told to try again, and if others are left behind,
\* the slots are taken.  This is receive, ipc_port_set_qlimit and ipc_port_destroy.
LEMMA SRouse ==
  ASSUME SetLaws, NEW B, NEW I, NEW P, NEW C, NEW I2, NEW P2, NEW C2, NEW mc, NEW mc2, NEW ql, NEW ql2,
         NEW d, NEW d2, NEW w, SInv(B, I, P, C, mc, ql, d, w), STypes(mc, ql), STypes(mc2, ql2),
         NEW p \in Ports, NEW W, NEW B2, Drops(B, p, W, B2), Rousing(I, P, C, I2, P2, C2, W),
         \A r \in Ports \ {p} : mc2[r] = mc[r] /\ ql2[r] = ql[r], d \subseteq d2,
         Slots(B2, LetInAt(I, P, C, p), W, mc2, ql2, p, d2, w)
  PROVE  SInv(B2, I2, P2, C2, mc2, ql2, d2, w)
<1>z. /\ Dropped(B[p], W, B2[p]) /\ \A r \in Ports \ {p} : B2[r] = B[r]
      /\ \A x \in W : P2[x] = "send" /\ C2[x].port = C[x].port /\ I2[x].state = "SUCCESS"
      /\ \A x \in Threads : x \notin W => SendsAs(I, P, C, I2, P2, C2, x)
      /\ p \notin d2 /\ B2[p] # <<>> /\ p \notin w =>
            mc2[p] + Cardinality(LetInAt(I, P, C, p)) + Cardinality(W) >= ql2[p]
  BY ZenonT(60) DEF Drops, Rousing, Slots
<1> USE <1>z
<1>0. BInv(B, I, P, C)
  BY ZenonT(60) DEF SInv
<1>a. /\ \A x \in Threads, r \in Ports : x \in Range(B[r]) <=>
            P[x] = "send" /\ C[x].port = r /\ I[x].state = "SEND_IN_PROGRESS"
      /\ \A x \in Threads : P[x] = "send" =>
            C[x].port \in Ports /\ I[x].state \in {"SEND_IN_PROGRESS", "SUCCESS"}
      /\ \A r \in Ports : B[r] \in Seq(Threads) /\ IsInjective(B[r])
  BY <1>0, ZenonT(60) DEF BInv
<1>b. /\ B2[p] \in Seq(Threads) /\ IsInjective(B2[p])
      /\ \A x \in Threads : x \in Range(B2[p]) <=> x \in Range(B[p]) /\ x \notin W
      /\ \A x \in W : x \in Threads /\ x \in Range(B[p])
      /\ B[p] = <<>> => B2[p] = <<>>
  BY ZenonT(60) DEF Dropped
<1>c. \A x \in Threads : x \notin W =>
         /\ P2[x] = "send" <=> P[x] = "send"
         /\ P2[x] = "send" => C2[x].port = C[x].port /\ I2[x].state = I[x].state
  BY ZenonT(60) DEF SendsAs
<1>d. \A x \in W : /\ P[x] = "send" /\ C[x].port = p /\ I[x].state = "SEND_IN_PROGRESS"
                   /\ P2[x] = "send" /\ C2[x].port = p /\ I2[x].state = "SUCCESS"
  <2>1. TAKE x \in W
  <2>2. x \in Threads /\ x \in Range(B[p])
    BY <1>b, ZenonT(60)
  <2>3. P[x] = "send" /\ C[x].port = p /\ I[x].state = "SEND_IN_PROGRESS"
    BY <2>2, <1>a, ZenonT(60)
  <2>4. P2[x] = "send" /\ C2[x].port = C[x].port /\ I2[x].state = "SUCCESS"
    BY ZenonT(60)
  <2> QED
    BY <2>3, <2>4, ZenonT(60)
<1>1. BInv(B2, I2, P2, C2)
  <2>1. ASSUME NEW x \in Threads, NEW r \in Ports
        PROVE  x \in Range(B2[r]) <=> P2[x] = "send" /\ C2[x].port = r /\ I2[x].state = "SEND_IN_PROGRESS"
    <3>0. x \in Range(B[r]) <=> P[x] = "send" /\ C[x].port = r /\ I[x].state = "SEND_IN_PROGRESS"
      BY <1>a, ZenonT(60)
    <3>1. CASE x \in W
      <4>1. I2[x].state # "SEND_IN_PROGRESS" /\ C[x].port = p
        BY <3>1, <1>d, ZenonT(60)
      <4>2. x \notin Range(B2[r])
        BY <3>0, <3>1, <4>1, <1>b, ZenonT(60)
      <4> QED
        BY <4>1, <4>2, ZenonT(60)
    <3>2. CASE x \notin W
      <4>1. x \in Range(B2[r]) <=> x \in Range(B[r])
        BY <3>2, <1>b, ZenonT(60)
      <4> QED
        BY <3>0, <3>2, <4>1, <1>c, ZenonT(60)
    <3> QED
      BY <3>1, <3>2, ZenonT(60)
  <2>2. ASSUME NEW x \in Threads, P2[x] = "send"
        PROVE  C2[x].port \in Ports /\ I2[x].state \in {"SEND_IN_PROGRESS", "SUCCESS"}
    <3>1. CASE x \in W
      BY <3>1, <1>d, ZenonT(60)
    <3>2. CASE x \notin W
      <4>1. P[x] = "send" /\ C2[x].port = C[x].port /\ I2[x].state = I[x].state
        BY <2>2, <3>2, <1>c, ZenonT(60)
      <4> QED
        BY <4>1, <1>a, ZenonT(60)
    <3> QED
      BY <3>1, <3>2, ZenonT(60)
  <2>3. \A r \in Ports : B2[r] \in Seq(Threads) /\ IsInjective(B2[r])
    BY <1>a, <1>b, ZenonT(60)
  <2> QED
    BY <2>1, <2>2, <2>3, ZenonT(60) DEF BInv
<1>2. ASSUME NEW r \in Ports \ d2, B2[r] # <<>>, r \notin w PROVE Full(I2, P2, C2, mc2, ql2, r)
  <2>1. CASE r = p
    <3>1. PICK L : L = LetInAt(I, P, C, p)
      BY ZenonT(60)
    <3>2. IsFiniteSet(L) /\ Cardinality(L) \in Nat
      BY <3>1, LetInFinite, ZenonT(60)
    <3>3. W \subseteq Threads /\ IsFiniteSet(Threads)
      BY <1>b, IpcAssumption, ZenonT(60)
    <3>4. IsFiniteSet(W)
      BY <3>3, SubsetSize, ZenonT(60)
    <3>5. LetInAt(I2, P2, C2, p) = L \cup W
      <4>1. ASSUME NEW x \in Threads PROVE x \in LetInAt(I2, P2, C2, p) <=> x \in L \/ x \in W
        <5>1. CASE x \in W
          BY <5>1, <1>d, ZenonT(60) DEF LetInAt
        <5>2. CASE x \notin W
          BY <5>2, <3>1, <1>c, ZenonT(60) DEF LetInAt
        <5> QED
          BY <5>1, <5>2, ZenonT(60)
      <4>2. L \subseteq Threads /\ LetInAt(I2, P2, C2, p) \subseteq Threads
        BY <3>1, ZenonT(60) DEF LetInAt
      <4> QED
        BY <4>1, <4>2, <3>3, ZenonT(60)
    <3>6. L \cap W = {}
      BY <3>1, <1>d, ZenonT(60) DEF LetInAt
    <3>7. Cardinality(L \cup W) = Cardinality(L) + Cardinality(W)
      <4>1. Cardinality(L \cup W) = Cardinality(L) + Cardinality(W) - Cardinality(L \cap W)
        BY <3>2, <3>4, UnionSize, ZenonT(60)
      <4>2. Cardinality(L \cap W) = 0
        BY <3>6, EmptySize, ZenonT(60)
      <4>3. Cardinality(W) \in Nat
        BY <3>4, CardinalityType, ZenonT(60)
      <4> QED
        BY <4>1, <4>2, <4>3, <3>2, SMTT(60)
    <3>8. mc2[p] + Cardinality(L) + Cardinality(W) >= ql2[p]
      BY <2>1, <1>2, <3>1, ZenonT(60)
    <3>9. mc2[p] \in Int /\ ql2[p] \in Nat /\ Cardinality(W) \in Nat
      BY <3>4, CardinalityType, ZenonT(60) DEF STypes
    <3>10. mc2[p] + Cardinality(L \cup W) >= ql2[p]
      BY <3>2, <3>7, <3>8, <3>9, SMTT(60)
    <3> QED
      BY <2>1, <3>5, <3>10, ZenonT(60) DEF Full
  <2>2. CASE r # p
    <3>1. B[r] # <<>> /\ r \notin d /\ mc2[r] = mc[r] /\ ql2[r] = ql[r]
      BY <2>2, <1>2, ZenonT(60)
    <3>2. Full(I, P, C, mc, ql, r)
      BY <3>1, <1>2, ZenonT(60) DEF SInv
    <3>3. LetInAt(I2, P2, C2, r) = LetInAt(I, P, C, r)
      <4>1. ASSUME NEW x \in Threads PROVE x \in LetInAt(I2, P2, C2, r) <=> x \in LetInAt(I, P, C, r)
        <5>1. CASE x \in W
          BY <5>1, <2>2, <1>d, ZenonT(60) DEF LetInAt
        <5>2. CASE x \notin W
          BY <5>2, <1>c, ZenonT(60) DEF LetInAt
        <5> QED
          BY <5>1, <5>2, ZenonT(60)
      <4> QED
        BY <4>1, ZenonT(60) DEF LetInAt
    <3> QED
      BY <3>1, <3>2, <3>3, ZenonT(60) DEF Full
  <2> QED
    BY <2>1, <2>2, ZenonT(60)
<1> QED
  BY <1>1, <1>2, ZenonT(60) DEF SInv

\* ipc_port_set_qlimit dequeues the first n senders, or all.
LEMMA FirstDropped ==
  ASSUME SetLaws, NEW R \in Seq(Threads), IsInjective(R), NEW n \in Nat
  PROVE  /\ Dropped(R, FirstOf(R, n), SubSeq(R, n + 1, Len(R)))
         /\ SubSeq(R, n + 1, Len(R)) # <<>> => Cardinality(FirstOf(R, n)) = n
<1>1. Len(R) \in Nat /\ \A i \in 1..Len(R) : R[i] \in Threads /\ R[i] \in Range(R)
  BY SMTT(60) DEF Range
<1>2. PICK W : W = FirstOf(R, n)
  BY ZenonT(60)
<1>3. \A x \in W : x \in Threads /\ x \in Range(R)
  BY <1>1, <1>2, ZenonT(60) DEF FirstOf
<1>4. PICK A : A = SubSeq(R, n + 1, Len(R))
  BY ZenonT(60)
<1>5. A \in Seq(Threads)
  BY <1>1, <1>4, SMTT(60)
<1>6. R = <<>> => A = <<>>
  BY <1>4, <1>1, SMTT(60)
<1>7. CASE n = 0
  <2>1. A = R
    BY <1>4, <1>7, <1>1, SMTT(60)
  <2>2. W = {}
    BY <1>2, <1>7, SMTT(60) DEF FirstOf
  <2>3. Cardinality(W) = n
    BY <2>2, <1>7, EmptySize, ZenonT(60)
  <2>4. Dropped(R, W, A)
    BY <2>1, <2>2, ZenonT(60) DEF Dropped
  <2> QED
    BY <2>3, <2>4, <1>2, <1>4, ZenonT(60)
<1>8. CASE n \in 1..Len(R)
  <2>1. Rest(R, n, A)
    BY <1>4, <1>8, RestOf, ZenonT(60)
  <2>2. W = {R[i] : i \in 1..n}
    BY <1>2, <1>8, <1>1, SMTT(60) DEF FirstOf
  <2>3. \A x \in Threads : x \in Range(A) <=> x \in Range(R) /\ x \notin W
    BY <2>1, <2>2, ZenonT(60) DEF Rest
  <2>4. Dropped(R, W, A)
    BY <2>1, <2>3, <1>3, <1>5, <1>6, ZenonT(60) DEF Dropped, Rest
  <2>5. Cardinality(W) = n
    <3>1. \A i, j \in 1..n : R[i] = R[j] => i = j
      BY <1>8, <1>1, SMTT(60) DEF IsInjective
    <3>2. IsFiniteSet(1..n) /\ Cardinality(1..n) = n
      BY <1>8, IntervalSize, SMTT(60)
    <3>3. AsMany(1..n, W)
      <4>1. PICK D : D = 1..n
        BY ZenonT(60)
      <4>2. IsFiniteSet(D) /\ \A x, y \in D : R[x] = R[y] => x = y
        BY <3>1, <3>2, <4>1, ZenonT(60)
      <4>3. AsMany(D, {R[x] : x \in D})
        BY <4>2, SameSize, ZenonT(60)
      <4> QED
        BY <4>1, <4>3, <2>2, ZenonT(60)
    <3> QED
      BY <3>2, <3>3, ZenonT(60) DEF AsMany
  <2> QED
    BY <2>4, <2>5, <1>2, <1>4, ZenonT(60)
<1>9. CASE n > Len(R)
  <2>1. A = <<>>
    BY <1>4, <1>9, <1>1, SMTT(60)
  <2>2. W = {R[i] : i \in 1..Len(R)}
    BY <1>2, <1>9, <1>1, SMTT(60) DEF FirstOf
  <2>3. ASSUME NEW x \in Range(R) PROVE x \in W
    BY <2>2, <2>3, SMTT(60) DEF Range
  <2>4. \A x : x \notin Range(A)
    BY <2>1, EmptyRange, ZenonT(60)
  <2>5. IsInjective(A)
    BY <2>1, EmptyRange, ZenonT(60)
  <2>6. Dropped(R, W, A)
    BY <2>3, <2>4, <2>5, <1>3, <1>5, <1>6, ZenonT(60) DEF Dropped
  <2> QED
    BY <2>1, <2>6, <1>2, <1>4, ZenonT(60)
<1> QED
  BY <1>7, <1>8, <1>9, <1>1, SMTT(60)

\* ipc_port_destroy dequeues all senders.
LEMMA AllDropped ==
  ASSUME NEW R \in Seq(Threads) PROVE Dropped(R, Range(R), <<>>)
<1>1. \A x \in Range(R) : x \in Threads
  BY SMTT(60) DEF Range
<1>2. <<>> \in Seq(Threads)
  BY SMTT(60)
<1> QED
  BY <1>1, <1>2, EmptyRange, ZenonT(60) DEF Dropped

\* The state of queues and threads as a record.
LEMMA NowFields ==
  /\ Now.imq_messages = imq_messages /\ Now.imq_threads = imq_threads
  /\ Now.ith = ith /\ Now.ip_seqno = ip_seqno
BY ZenonT(60) DEF Now

\* The same after a step.
LEMMA NowNext ==
  /\ Now'.imq_messages = imq_messages' /\ Now'.imq_threads = imq_threads'
  /\ Now'.ith = ith' /\ Now'.ip_seqno = ip_seqno'
BY ZenonT(60) DEF Now

\* A step that makes the state T.
LEMMA Becomes ==
  ASSUME NEW T \in States, Become(T) PROVE Now' = T
<1>1. T = [imq_messages |-> T.imq_messages, imq_threads |-> T.imq_threads, ith |-> T.ith,
           ip_seqno |-> T.ip_seqno]
  BY ZenonT(60) DEF States
<1> QED
  BY <1>1, ZenonT(60) DEF Become, Now

\* Only one thread record is set.
LEMMA ThreadSet ==
  ASSUME NEW S \in States, NEW t \in Threads, NEW r \in Ith
  PROVE  OneThread(S, t, r, [S EXCEPT !.ith[t] = r])
<1>1. PICK T : T = [S EXCEPT !.ith[t] = r]
  BY ZenonT(60)
<1>2. PICK I : I = [S.ith EXCEPT ![t] = r]
  BY ZenonT(60)
<1>3. S.ith \in [Threads -> Ith]
  BY ZenonT(60) DEF States
<1>4. I \in [Threads -> Ith] /\ I[t] = r /\ \A x \in Threads \ {t} : I[x] = S.ith[x]
  BY <1>2, <1>3, ZenonT(60)
<1>5. T = [S EXCEPT !.ith = I]
  BY <1>1, <1>2, ZenonT(60)
<1>6. /\ T \in States /\ T.ith = I
      /\ T.imq_messages = S.imq_messages /\ T.imq_threads = S.imq_threads /\ T.ip_seqno = S.ip_seqno
  BY <1>4, <1>5, ZenonT(60) DEF States
<1>7. OneThread(S, t, r, T)
  BY <1>2, <1>4, <1>6, ZenonT(60) DEF OneThread
<1> QED
  BY <1>1, <1>7, ZenonT(60)

\* A thread in no call has a thread record.
LEMMA NoWaitIs == NoWait \in Ith
BY IpcAssumption, ZenonT(60) DEF NoWait, Ith, WaitStates, Results

\* A thread returns from its call.
LEMMA Idles ==
  ASSUME NEW S \in States, NEW t \in Threads
  PROVE  OneThread(S, t, NoWait, Idle(S, t))
BY NoWaitIs, ThreadSet, ZenonT(60) DEF Idle

\* A thread asserts a wait.
LEMMA Waiting ==
  ASSUME NEW r \in Ith, NEW st \in WaitStates, NEW size \in Nat
  PROVE  Wait(r, st, size) \in Ith /\ Wait(r, st, size).state = st
<1>1. PICK b \in BOOLEAN : b = TRUE
  BY ZenonT(60)
<1>2. Wait(r, st, size) = [r EXCEPT !.state = st, !.msize = size, !.wait = b]
  BY <1>1, ZenonT(60) DEF Wait
<1>3. PICK u : u = [r EXCEPT !.state = st, !.msize = size, !.wait = b]
  BY ZenonT(60)
<1>4. u \in Ith /\ u.state = st
  BY <1>3, ZenonT(60) DEF Ith
<1> QED
  BY <1>2, <1>3, <1>4, ZenonT(60)

\* A step that changes only ith', for one thread.
LEMMA NowThread ==
  ASSUME Now \in States, NEW t \in Threads, NEW r \in Ith, ith' = [ith EXCEPT ![t] = r],
         UNCHANGED <<ip_seqno, imq>>
  PROVE  OneThread(Now, t, r, Now')
<1>1. PICK T : T = [Now EXCEPT !.ith[t] = r]
  BY ZenonT(60)
<1>2. OneThread(Now, t, r, T)
  BY <1>1, ThreadSet, ZenonT(60)
<1>3. T \in States /\ T.ith = ith' /\ T.imq_messages = imq_messages' /\ T.imq_threads = imq_threads'
      /\ T.ip_seqno = ip_seqno'
  BY <1>2, NowFields, ZenonT(60) DEF OneThread, imq
<1>4. Now' = T
  BY <1>3, Becomes, ZenonT(60) DEF Become
<1> QED
  BY <1>2, <1>4, ZenonT(60)

\* One thread goes to another stage of its call.
LEMMA GoesTo ==
  ASSUME NEW P, NEW C, CInv(P, C), NEW t \in Threads, NEW v \in Stages, NEW c \in CallArgs,
         v = "go" => c.callee \in Threads, v = "receive" => c.port \in Queues
  PROVE  Goes(P, C, t, v, c, [P EXCEPT ![t] = v], [C EXCEPT ![t] = c])
<1>1. PICK P2, C2 : P2 = [P EXCEPT ![t] = v] /\ C2 = [C EXCEPT ![t] = c]
  BY ZenonT(60)
<1>2. P \in [Threads -> Stages] /\ C \in [Threads -> CallArgs]
  BY ZenonT(60) DEF CInv
<1>3. /\ P2 \in [Threads -> Stages] /\ P2[t] = v /\ \A x \in Threads \ {t} : P2[x] = P[x]
      /\ C2 \in [Threads -> CallArgs] /\ C2[t] = c /\ \A x \in Threads \ {t} : C2[x] = C[x]
  BY <1>1, <1>2, ZenonT(60)
<1>4. \A x \in Threads : P2[x] = "go" => C2[x].callee \in Threads
  BY <1>3, ZenonT(60) DEF CInv
<1>5. \A x \in Threads : P2[x] = "receive" => C2[x].port \in Queues
  BY <1>3, ZenonT(60) DEF CInv
<1>6. Goes(P, C, t, v, c, P2, C2)
  BY <1>3, <1>4, <1>5, ZenonT(60) DEF Goes, CInv
<1> QED
  BY <1>1, <1>6, ZenonT(60)

\* The arguments of no call.
LEMMA NoCallIs == NoCall \in CallArgs
BY ZenonT(60) DEF NoCall, CallArgs

\* A thread returns to its caller.
LEMMA Returns ==
  ASSUME CInv(pc, call), NEW t \in Threads, Return(t)
  PROVE  Goes(pc, call, t, "idle", NoCall, pc', call')
<1>1. "idle" \in Stages /\ "idle" # "go" /\ "idle" # "receive"
  BY ZenonT(60) DEF Stages
<1> QED
  BY <1>1, NoCallIs, GoesTo, ZenonT(60) DEF Return

\* Thread t, which neither waits for a message nor holds one, does something else.
LEMMA QOne ==
  ASSUME NEW S, NEW P, NEW C, NEW T, NEW P2, NEW C2, NEW ps, NEW d, NEW bs, NEW sn, NEW mc,
         QInv(S, P, C, ps, d, bs, sn, mc), NEW t \in Threads, NEW r, OneThread(S, t, r, T),
         \A x \in Threads \ {t} : P2[x] = P[x] /\ C2[x] = C[x],
         P[t] = "receive" => S.ith[t].state # "RCV_IN_PROGRESS", ~Holds(S, P, t),
         P2[t] # "receive", P2[t] # "account"
  PROVE  QInv(T, P2, C2, ps, d, bs, sn, mc)
<1>1. ASSUME NEW x \in Threads PROVE AsWas(S, P, C, T, P2, C2, x)
  <2>1. CASE x = t
    <3>1. ~Holds(T, P2, t)
      BY ZenonT(60) DEF Holds
    <3> QED
      BY <2>1, <3>1, ZenonT(60) DEF AsWas
  <2>2. CASE x # t
    <3>1. T.ith[x] = S.ith[x] /\ P2[x] = P[x] /\ C2[x] = C[x]
      BY <2>2, ZenonT(60) DEF OneThread
    <3> QED
      BY <3>1, ZenonT(60) DEF AsWas
  <2> QED
    BY <2>1, <2>2, ZenonT(60)
<1>2. /\ T \in States /\ T.imq_messages = S.imq_messages /\ T.imq_threads = S.imq_threads
      /\ T.ip_seqno = S.ip_seqno
  BY ZenonT(60) DEF OneThread
<1> QED
  BY <1>1, <1>2, QSame, ZenonT(60)

\* The sender, and the senders that wait once it is off the queue.
LEMMA SenderBlocked ==
  ASSUME IInv, NEW t \in Threads, NEW p \in Ports, NEW blocked, NEW timeout, Sender(t, p, blocked, timeout)
  PROVE  blocked \in Seq(Threads)
<1>1. ip_blocked[p] \in Seq(Threads) /\ IsInjective(ip_blocked[p])
  BY ZenonT(60) DEF IInv, SInv, BInv
<1>2. Removed(ip_blocked[p], t, ipc_thread_rmqueue(ip_blocked[p], t))
  BY <1>1, Rmqueue, ZenonT(60)
<1> QED
  BY <1>1, <1>2, ZenonT(60) DEF Sender, Removed

\* A sender leaves the loop of ipc_mqueue_send.
LEMMA SenderLeaves ==
  ASSUME SetLaws, IInv, NEW t \in Threads, NEW p \in Ports, NEW blocked, NEW timeout, Sender(t, p, blocked, timeout),
         NEW B2, B2[p] = blocked, \A r \in Ports \ {p} : B2[r] = ip_blocked[r],
         B2 \in [Ports -> Seq(Threads)], NEW I2, NEW P2, NEW C2, P2[t] # "send",
         \A x \in Threads \ {t} : SendsAs(ith, pc, call, I2, P2, C2, x),
         NEW mc2, STypes(mc2, ip_qlimit), \A r \in Ports : mc2[r] >= ip_msgcount[r],
         NEW w2, wasted \subseteq w2,
         pc[t] = "send" /\ ith[t].state = "SUCCESS" =>
            \/ p \in dead \/ p \in w2
            \/ mc2[p] >= ip_msgcount[p] + 1 \/ mc2[p] >= ip_qlimit[p]
  PROVE  SInv(B2, I2, P2, C2, mc2, ip_qlimit, dead, w2)
<1>0. /\ SInv(ip_blocked, ith, pc, call, ip_msgcount, ip_qlimit, dead, wasted)
      /\ STypes(ip_msgcount, ip_qlimit) /\ ip_blocked \in [Ports -> Seq(Threads)]
  BY ZenonT(60) DEF IInv
<1>1. CASE pc[t] = "idle" /\ blocked = ip_blocked[p]
  <2>1. B2 = ip_blocked
    BY <1>0, <1>1, SMTT(60)
  <2>2. \A x \in Threads : SendsAs(ith, pc, call, I2, P2, C2, x)
    <3>1. SendsAs(ith, pc, call, I2, P2, C2, t)
      BY <1>1, ZenonT(60) DEF SendsAs
    <3> QED
      BY <3>1, ZenonT(60)
  <2>3. SInv(ip_blocked, I2, P2, C2, mc2, ip_qlimit, dead, w2)
    BY <1>0, <2>2, SSame, ZenonT(60)
  <2> QED
    BY <1>0, <2>1, <2>3, ZenonT(60)
<1>2. CASE pc[t] = "send" /\ call[t].port = p /\ ith[t].state = "SUCCESS" /\ blocked = ip_blocked[p]
  <2>1. B2 = ip_blocked
    BY <1>0, <1>2, SMTT(60)
  <2>2. p \in dead \/ p \in w2 \/ mc2[p] >= ip_msgcount[p] + 1 \/ mc2[p] >= ip_qlimit[p]
    BY <1>2, ZenonT(60)
  <2>3. SInv(ip_blocked, I2, P2, C2, mc2, ip_qlimit, dead, w2)
    BY <1>0, <1>2, <2>2, SGoes, ZenonT(60)
  <2> QED
    BY <1>0, <2>1, <2>3, ZenonT(60)
<1>3. CASE /\ pc[t] = "send" /\ call[t].port = p /\ ith[t].state = "SEND_IN_PROGRESS"
           /\ blocked = ipc_thread_rmqueue(ip_blocked[p], t)
  <2>1. ip_blocked[p] \in Seq(Threads) /\ IsInjective(ip_blocked[p])
    BY <1>0, ZenonT(60) DEF SInv, BInv
  <2>2. Removed(ip_blocked[p], t, blocked)
    BY <1>3, <2>1, Rmqueue, ZenonT(60)
  <2>3. Removed(ip_blocked[p], t, B2[p])
    BY <2>2, ZenonT(60)
  <2>4. pc[t] = "send" /\ call[t].port = p /\ ith[t].state = "SEND_IN_PROGRESS"
    BY <1>3, ZenonT(60)
  <2> QED
    BY <1>0, <2>3, <2>4, SUnblock, ZenonT(60)
<1> QED
  BY <1>1, <1>2, <1>3, ZenonT(60) DEF Sender

\* t neither waits for a message nor holds one.
LEMMA SenderHolds ==
  ASSUME NEW t \in Threads, NEW p, NEW blocked, NEW timeout, Sender(t, p, blocked, timeout)
  PROVE  ~Holds(Now, pc, t) /\ pc[t] # "receive"
<1>1. pc[t] = "idle" \/ pc[t] = "send"
  BY ZenonT(60) DEF Sender
<1> QED
  BY <1>1, ZenonT(60) DEF Holds

\* ipc_mqueue_send returns without having sent: the port died, the message is circular,
\* or the time is out.
LEMMA SendFailsStep ==
  ASSUME SetLaws, IInv, NEW t \in Threads, NEW p \in Ports, NEW blocked, NEW timeout, Sender(t, p, blocked, timeout),
         SendFails(t, p, blocked), wasted \subseteq wasted', wasted' \subseteq Ports,
         pc[t] = "send" /\ ith[t].state = "SUCCESS" =>
            p \in dead \/ p \in wasted' \/ ip_msgcount[p] >= ip_qlimit[p]
  PROVE  IInv'
<1>0. /\ CInv(pc, call) /\ QTypes(ip_pset, dead, base, sent, ip_msgcount)
      /\ STypes(ip_msgcount, ip_qlimit)
      /\ QInv(Now, pc, call, ip_pset, dead, base, sent, ip_msgcount) /\ Now \in States
  BY ZenonT(60) DEF IInv, QInv
<1>1. /\ ip_msgcount' = ip_msgcount /\ sent' = sent /\ dead' = dead /\ ip_pset' = ip_pset
      /\ ip_qlimit' = ip_qlimit /\ base' = base
      /\ Return(t) /\ UNCHANGED <<ip_seqno, imq>> /\ ip_blocked' = [ip_blocked EXCEPT ![p] = blocked]
  BY ZenonT(60) DEF SendFails, portvars
<1>2. ith' = [ith EXCEPT ![t] = NoWait]
  <2>1. OneThread(Now, t, NoWait, Idle(Now, t))
    BY <1>0, Idles, ZenonT(60)
  <2> QED
    BY <2>1, NowFields, ZenonT(60) DEF SendFails, OneThread
<1>3. OneThread(Now, t, NoWait, Now')
  BY <1>0, <1>1, <1>2, NoWaitIs, NowThread, ZenonT(60)
<1>4. Goes(pc, call, t, "idle", NoCall, pc', call')
  BY <1>0, <1>1, Returns, ZenonT(60)
<1>5. CInv(pc', call') /\ pc'[t] = "idle" /\ \A x \in Threads \ {t} : pc'[x] = pc[x] /\ call'[x] = call[x]
  BY <1>4, ZenonT(60) DEF Goes
<1>6. ~Holds(Now, pc, t) /\ pc[t] # "receive"
  BY SenderHolds, ZenonT(60)
<1>7. QInv(Now', pc', call', ip_pset, dead, base, sent, ip_msgcount)
  BY <1>0, <1>3, <1>5, <1>6, QOne, ZenonT(60)
<1>8. ASSUME NEW x \in Threads \ {t} PROVE SendsAs(ith, pc, call, ith', pc', call', x)
  <2>1. ith'[x] = ith[x]
    BY <1>3, NowFields, NowNext, ZenonT(60) DEF OneThread
  <2> QED
    BY <2>1, <1>5, ZenonT(60) DEF SendsAs
<1>9. \A r \in Ports : ip_msgcount[r] >= ip_msgcount[r]
  BY <1>0, SMTT(60) DEF STypes
<1>a. blocked \in Seq(Threads) /\ ip_blocked \in [Ports -> Seq(Threads)]
  BY SenderBlocked, ZenonT(60) DEF IInv
<1>b. /\ ip_blocked' \in [Ports -> Seq(Threads)]
      /\ ip_blocked'[p] = blocked /\ \A r \in Ports \ {p} : ip_blocked'[r] = ip_blocked[r]
  BY <1>a, <1>1, ZenonT(60)
<1>10. SInv(ip_blocked', ith', pc', call', ip_msgcount, ip_qlimit, dead, wasted')
  <2>1. pc'[t] # "send"
    BY <1>5, ZenonT(60)
  <2>2. pc[t] = "send" /\ ith[t].state = "SUCCESS" =>
          \/ p \in dead \/ p \in wasted'
          \/ ip_msgcount[p] >= ip_msgcount[p] + 1 \/ ip_msgcount[p] >= ip_qlimit[p]
    BY ZenonT(60)
  <2> QED
    BY <1>0, <1>b, <1>8, <1>9, <2>1, <2>2, SenderLeaves, ZenonT(60)
<1> QED
  BY <1>0, <1>b, <1>1, <1>5, <1>7, <1>10, ZenonT(60) DEF IInv

\* ipc_mqueue_send counts the message and delivers it.
LEMMA SendNowSends ==
  ASSUME NEW t \in Threads, NEW c \in CallArgs, NEW p \in Ports, c.port = p, SendNow(t, c),
         NEW m, m = [port |-> p, id |-> sent[p], size |-> c.size]
  PROVE  Sends(t, c, p, Receiver(Idle(Now, t), QOf(ip_pset, p), m),
               Deliver(Idle(Now, t), QOf(ip_pset, p), m, FALSE))
BY ZenonT(60) DEF SendNow, Sends, QueueOf, QOf

\* The message is delivered.
LEMMA SendNowStep ==
  ASSUME SetLaws, IInv, NEW t \in Threads, NEW c \in CallArgs, NEW p \in Ports, p \notin dead,
         NEW blocked, NEW timeout, Sender(t, p, blocked, timeout), Sending(t, c, p, blocked),
         wasted \subseteq wasted', wasted' \subseteq Ports
  PROVE  IInv'
<1>0. /\ CInv(pc, call) /\ QTypes(ip_pset, dead, base, sent, ip_msgcount)
      /\ STypes(ip_msgcount, ip_qlimit)
      /\ QInv(Now, pc, call, ip_pset, dead, base, sent, ip_msgcount) /\ Now \in States
  BY ZenonT(60) DEF IInv, QInv
<1>a. /\ dead' = dead /\ ip_pset' = ip_pset /\ ip_qlimit' = ip_qlimit /\ base' = base
  BY ZenonT(60) DEF Sending, portvars
<1>b. /\ ip_msgcount \in [Ports -> Int] /\ sent \in [Ports -> Nat] /\ pc \in [Threads -> Stages]
      /\ call \in [Threads -> CallArgs] /\ ip_pset \in [Ports -> Psets \cup {Null}]
      /\ ip_qlimit \in [Ports -> Nat]
  BY <1>0, ZenonT(60) DEF QTypes, CInv, STypes
<1>1. PICK m : m = [port |-> p, id |-> sent[p], size |-> c.size]
  BY ZenonT(60)
<1>2. m \in Message /\ m.port = p /\ m.id = sent[p]
  BY <1>1, <1>b, ZenonT(60) DEF Message, CallArgs
<1>3. PICK q : q = QOf(ip_pset, p)
  BY ZenonT(60)
<1>4. q \in Queues
  <2>1. ip_pset[p] \in Psets \cup {Null}
    BY <1>b, ZenonT(60)
  <2> QED
    BY <1>3, <2>1, ZenonT(60) DEF QOf, Queues
<1>5. PICK S : S = Idle(Now, t)
  BY ZenonT(60)
<1>6. OneThread(Now, t, NoWait, S)
  BY <1>0, <1>5, Idles, ZenonT(60)
<1>7. PICK R : R = Receiver(S, q, m)
  BY ZenonT(60)
<1>8. PICK b \in BOOLEAN : b = FALSE
  BY ZenonT(60)
<1>9. PICK T : T = Deliver(S, q, m, b)
  BY ZenonT(60)
<1>10. Sends(t, c, p, R, T)
  <2>1. Sends(t, c, p, Receiver(Idle(Now, t), QOf(ip_pset, p), m),
              Deliver(Idle(Now, t), QOf(ip_pset, p), m, FALSE))
    BY <1>1, SendNowSends, ZenonT(60) DEF Sending
  <2> QED
    BY <2>1, <1>3, <1>5, <1>7, <1>8, <1>9, ZenonT(60)
<1>11. pc'[t] \in {"idle", "go"} /\ \A x \in Threads \ {t} : pc'[x] = pc[x] /\ call'[x] = call[x]
  BY <1>10, <1>b, ZenonT(60) DEF Sends, Return
<1>12. QInv(S, pc', call', ip_pset, dead, base, sent, ip_msgcount)
  <2>1. ~Holds(Now, pc, t) /\ pc[t] # "receive"
    BY SenderHolds, ZenonT(60)
  <2>2. pc'[t] # "receive" /\ pc'[t] # "account"
    BY <1>11, ZenonT(60)
  <2> QED
    BY <1>0, <1>6, <1>11, <2>1, <2>2, QOne, ZenonT(60)
<1>13. Delivered(S, q, m, pc', call', T)
  <2>1. S \in States /\ ThreadInv(S, pc', call')
    BY <1>12, ZenonT(60) DEF QInv
  <2> QED
    BY <2>1, <1>2, <1>4, <1>9, DeliverThreads, ZenonT(60)
<1>14. /\ ip_msgcount'[p] = ip_msgcount[p] + 1 /\ sent'[p] = sent[p] + 1
       /\ \A r \in Ports \ {p} : sent'[r] = sent[r] /\ ip_msgcount'[r] = ip_msgcount[r]
       /\ ip_msgcount' \in [Ports -> Int] /\ sent' \in [Ports -> Nat]
  BY <1>10, <1>b, SMTT(60) DEF Sends
<1>15. QInv(T, pc', call', ip_pset, dead, base, sent', ip_msgcount')
  <2>1. Delivered(S, QOf(ip_pset, p), m, pc', call', T)
    BY <1>3, <1>13, ZenonT(60)
  <2> QED
    <3>1. QTypes(ip_pset, dead, base, sent, ip_msgcount)
      BY <1>0, ZenonT(60)
    <3>2. OneMore(sent, sent', p) /\ OneMore(ip_msgcount, ip_msgcount', p)
      BY <1>14, ZenonT(60) DEF OneMore
    <3>3. m \in Message /\ NextOf(m, p, sent)
      BY <1>2, ZenonT(60) DEF NextOf
    <3> QED
      BY <3>1, <3>2, <3>3, <1>12, <2>1, QDeliver, ZenonT(60)
<1>16. Now' = T
  <2>1. T \in States
    BY <1>15, ZenonT(60) DEF QInv
  <2>2. Become(T)
    BY <1>10, ZenonT(60) DEF Sends
  <2> QED
    BY <2>1, <2>2, Becomes, ZenonT(60)
<1>17. CInv(pc', call')
  <2>1. CASE R = Null
    <3>1. Goes(pc, call, t, "idle", NoCall, pc', call')
      BY <2>1, <1>0, <1>10, Returns, ZenonT(60) DEF Sends
    <3> QED
      BY <3>1, ZenonT(60) DEF Goes
  <2>2. CASE R # Null
    <3>1. R \in Threads
      BY <2>2, <1>7, <1>13, ZenonT(60) DEF Delivered
    <3>2. PICK e : e = [c EXCEPT !.callee = R]
      BY ZenonT(60)
    <3>3. e \in CallArgs /\ e.callee \in Threads
      BY <3>1, <3>2, ZenonT(60) DEF CallArgs
    <3>4. "go" \in Stages /\ "go" # "receive"
      BY ZenonT(60) DEF Stages
    <3>5. Goes(pc, call, t, "go", e, [pc EXCEPT ![t] = "go"], [call EXCEPT ![t] = e])
      BY <1>0, <3>3, <3>4, GoesTo, ZenonT(60)
    <3>6. CInv([pc EXCEPT ![t] = "go"], [call EXCEPT ![t] = e])
      BY <3>5, ZenonT(60) DEF Goes
    <3> QED
      BY <2>2, <3>2, <3>6, <1>10, ZenonT(60) DEF Sends
  <2> QED
    BY <2>1, <2>2, ZenonT(60)
<1>18. ASSUME NEW x \in Threads \ {t} PROVE SendsAs(ith, pc, call, ith', pc', call', x)
  <2>1. pc'[x] = "send" => ith'[x] = ith[x]
    <3>1. pc'[x] = "send" => T.ith[x] = S.ith[x]
      BY <1>13, ZenonT(60) DEF Delivered
    <3>2. S.ith[x] = Now.ith[x]
      BY <1>6, ZenonT(60) DEF OneThread
    <3>3. T.ith = ith' /\ Now.ith = ith
      BY <1>16, NowFields, NowNext, ZenonT(60)
    <3> QED
      BY <3>1, <3>2, <3>3, ZenonT(60)
  <2> QED
    BY <2>1, <1>11, ZenonT(60) DEF SendsAs
<1>19. STypes(ip_msgcount', ip_qlimit)
  BY <1>14, <1>b, ZenonT(60) DEF STypes
<1>20. /\ \A r \in Ports : ip_msgcount'[r] >= ip_msgcount[r]
       /\ ip_msgcount'[p] >= ip_msgcount[p] + 1
  BY <1>14, <1>b, SMTT(60)
<1>21. blocked \in Seq(Threads) /\ ip_blocked \in [Ports -> Seq(Threads)]
  BY SenderBlocked, ZenonT(60) DEF IInv
<1>22. /\ ip_blocked' \in [Ports -> Seq(Threads)]
       /\ ip_blocked'[p] = blocked /\ \A r \in Ports \ {p} : ip_blocked'[r] = ip_blocked[r]
  BY <1>21, ZenonT(60) DEF Sending
<1>23. SInv(ip_blocked', ith', pc', call', ip_msgcount', ip_qlimit, dead, wasted')
  <2>1. pc'[t] # "send"
    BY <1>11, ZenonT(60)
  <2>2. pc[t] = "send" /\ ith[t].state = "SUCCESS" =>
          \/ p \in dead \/ p \in wasted'
          \/ ip_msgcount'[p] >= ip_msgcount[p] + 1 \/ ip_msgcount'[p] >= ip_qlimit[p]
    BY <1>20, ZenonT(60)
  <2> QED
    BY <1>18, <1>19, <1>20, <1>22, <2>1, <2>2, SenderLeaves, ZenonT(60)
<1>24. QTypes(ip_pset, dead, base, sent', ip_msgcount')
  BY <1>0, <1>14, ZenonT(60) DEF QTypes
<1> QED
  BY <1>a, <1>15, <1>16, <1>17, <1>19, <1>22, <1>23, <1>24, ZenonT(60) DEF IInv

\* The sender blocks.
LEMMA BlockStep ==
  ASSUME SetLaws, IInv, NEW t \in Threads, NEW c \in CallArgs, NEW p \in Ports, ip_msgcount[p] >= ip_qlimit[p],
         MayBlock(t, p), Blocking(t, c, p), wasted \subseteq wasted', wasted' \subseteq Ports
  PROVE  IInv'
<1>0. /\ CInv(pc, call) /\ QTypes(ip_pset, dead, base, sent, ip_msgcount)
      /\ STypes(ip_msgcount, ip_qlimit) /\ ip_blocked \in [Ports -> Seq(Threads)]
      /\ QInv(Now, pc, call, ip_pset, dead, base, sent, ip_msgcount) /\ Now \in States
      /\ SInv(ip_blocked, ith, pc, call, ip_msgcount, ip_qlimit, dead, wasted)
  BY ZenonT(60) DEF IInv, QInv
<1>a. /\ dead' = dead /\ ip_pset' = ip_pset /\ ip_qlimit' = ip_qlimit /\ base' = base
      /\ ip_msgcount' = ip_msgcount /\ sent' = sent
  BY ZenonT(60) DEF Blocking, portvars
<1>1. PICK r : r = Wait(ith[t], "SEND_IN_PROGRESS", ith[t].msize)
  BY ZenonT(60)
<1>2. r \in Ith /\ r.state = "SEND_IN_PROGRESS"
  <2>1. ith[t] \in Ith
    BY <1>0, NowFields, ZenonT(60) DEF States
  <2>2. ith[t].msize \in Nat
    BY <2>1, ZenonT(60) DEF Ith
  <2>3. "SEND_IN_PROGRESS" \in WaitStates
    BY ZenonT(60) DEF WaitStates
  <2> QED
    BY <1>1, <2>1, <2>2, <2>3, Waiting, ZenonT(60)
<1>3. ith' = [ith EXCEPT ![t] = r]
  BY <1>1, ZenonT(60) DEF Blocking
<1>4. OneThread(Now, t, r, Now')
  BY <1>0, <1>2, <1>3, NowThread, ZenonT(60) DEF Blocking
<1>5. Goes(pc, call, t, "send", c, pc', call')
  <2>1. "send" \in Stages /\ "send" # "go" /\ "send" # "receive"
    BY ZenonT(60) DEF Stages
  <2> QED
    BY <1>0, <2>1, GoesTo, ZenonT(60) DEF Blocking
<1>6. /\ CInv(pc', call') /\ pc'[t] = "send" /\ call'[t].port = p
      /\ \A x \in Threads \ {t} : pc'[x] = pc[x] /\ call'[x] = call[x]
  BY <1>5, ZenonT(60) DEF Goes, Blocking
<1>7. QInv(Now', pc', call', ip_pset, dead, base, sent, ip_msgcount)
  <2>1. ~Holds(Now, pc, t) /\ pc[t] # "receive"
    BY ZenonT(60) DEF Holds, MayBlock
  <2>2. pc'[t] # "receive" /\ pc'[t] # "account"
    BY <1>6, ZenonT(60)
  <2>3. /\ QInv(Now, pc, call, ip_pset, dead, base, sent, ip_msgcount)
        /\ \A x \in Threads \ {t} : pc'[x] = pc[x] /\ call'[x] = call[x]
    BY <1>0, <1>6, ZenonT(60)
  <2> QED
    BY <1>4, <2>1, <2>2, <2>3, QOne, ZenonT(60)
<1>8. ASSUME NEW x \in Threads \ {t} PROVE SendsAs(ith, pc, call, ith', pc', call', x)
  <2>1. ith'[x] = ith[x]
    BY <1>4, NowFields, NowNext, ZenonT(60) DEF OneThread
  <2> QED
    BY <2>1, <1>6, ZenonT(60) DEF SendsAs
<1>9. ith'[t].state = "SEND_IN_PROGRESS"
  BY <1>2, <1>4, NowNext, ZenonT(60) DEF OneThread
<1>10. ip_blocked[p] \in Seq(Threads) /\ IsInjective(ip_blocked[p]) /\ t \notin Range(ip_blocked[p])
  BY <1>0, ZenonT(60) DEF SInv, BInv, MayBlock
<1>11. Joined(ip_blocked[p], t, Append(ip_blocked[p], t))
  BY <1>10, Joins, ZenonT(60)
<1>12. /\ ip_blocked' \in [Ports -> Seq(Threads)]
       /\ ip_blocked'[p] = Append(ip_blocked[p], t) /\ \A x \in Ports \ {p} : ip_blocked'[x] = ip_blocked[x]
  <2>1. Append(ip_blocked[p], t) \in Seq(Threads)
    BY <1>11, ZenonT(60) DEF Joined
  <2> QED
    BY <1>0, <2>1, ZenonT(60) DEF Blocking
<1>13. SInv(ip_blocked', ith', pc', call', ip_msgcount, ip_qlimit, dead, wasted')
  <2>1. BlocksFrom(ith, pc, call, t, p)
    BY ZenonT(60) DEF BlocksFrom, MayBlock
  <2>2. Joined(ip_blocked[p], t, ip_blocked'[p]) /\ OthersKept(ip_blocked, ip_blocked', p)
    BY <1>11, <1>12, ZenonT(60) DEF OthersKept
  <2>3. BlocksAt(ith', pc', call', t, p)
    BY <1>6, <1>9, ZenonT(60) DEF BlocksAt
  <2>4. /\ SInv(ip_blocked, ith, pc, call, ip_msgcount, ip_qlimit, dead, wasted)
        /\ STypes(ip_msgcount, ip_qlimit)
    BY <1>0, ZenonT(60)
  <2>5. OthersSendAs(ith, pc, call, ith', pc', call', t)
    BY <1>8, ZenonT(60) DEF OthersSendAs
  <2>6. Crowded(ip_msgcount, ip_qlimit, p)
    BY ZenonT(60) DEF Crowded
  <2> QED
    BY <2>1, <2>2, <2>3, <2>4, <2>5, <2>6, SBlock, ZenonT(60)
<1> QED
  BY <1>0, <1>a, <1>6, <1>7, <1>12, <1>13, ZenonT(60) DEF IInv

\* A sender blocks only if it is not on the queue already.
LEMMA SenderBlocks ==
  ASSUME NEW t, NEW p, NEW blocked, NEW timeout, Sender(t, p, blocked, timeout), timeout # "now"
  PROVE  Unblocked(t, p, blocked)
BY ZenonT(60) DEF Sender, Unblocked, MayBlock

\* The loop of ipc_mqueue_send keeps the invariant whichever way it ends.
LEMMA TrySendStep ==
  ASSUME SetLaws, IInv, NEW t \in Threads, NEW c \in CallArgs, NEW p \in Ports, c.port = p,
         NEW blocked, Sender(t, p, blocked, c.timeout), TrySend(t, c, blocked),
         UNCHANGED <<portvars, base>>, wasted \subseteq wasted', wasted' \subseteq Ports, Marks(t, p, c)
  PROVE  IInv'
<1>0. pc \in [Threads -> Stages] /\ ip_msgcount[p] \in Int /\ ip_qlimit[p] \in Nat
  BY ZenonT(60) DEF IInv, CInv, STypes
<1>1. CASE /\ ~Alive(p) \/ (MaySend(p, c.kind) /\ c.kind = "circular")
           /\ SendFails(t, p, blocked)
  <2>1. pc'[t] = "idle"
    BY <1>0, <1>1, ZenonT(60) DEF SendFails, Return
  <2>2. pc[t] = "send" /\ ith[t].state = "SUCCESS" =>
            p \in dead \/ p \in wasted' \/ ip_msgcount[p] >= ip_qlimit[p]
    BY <1>1, <2>1, ZenonT(60) DEF Marks, Alive
  <2> QED
    BY <1>1, <2>2, SendFailsStep, ZenonT(60)
<1>2. CASE Alive(p) /\ Sending(t, c, p, blocked)
  <2>1. p \notin dead /\ Sending(t, c, p, blocked)
    BY <1>2, ZenonT(60) DEF Alive
  <2> QED
    BY <2>1, SendNowStep, ZenonT(60)
<1>3. CASE ~MaySend(p, c.kind) /\ SendFails(t, p, blocked)
  <2>1. ip_msgcount[p] >= ip_qlimit[p]
    BY <1>0, <1>3, SMTT(60) DEF MaySend
  <2>2. pc[t] = "send" /\ ith[t].state = "SUCCESS" =>
            p \in dead \/ p \in wasted' \/ ip_msgcount[p] >= ip_qlimit[p]
    BY <2>1, ZenonT(60)
  <2> QED
    BY <1>3, <2>2, SendFailsStep, ZenonT(60)
<1>4. CASE /\ ~MaySend(p, c.kind) /\ c.timeout # "now"
           /\ ip_blocked' = [ip_blocked EXCEPT ![p] = Append(blocked, t)]
           /\ ith' = [ith EXCEPT ![t] = Wait(@, "SEND_IN_PROGRESS", @.msize)]
           /\ pc' = [pc EXCEPT ![t] = "send"] /\ call' = [call EXCEPT ![t] = c]
           /\ UNCHANGED <<ip_msgcount, ip_seqno, imq, sent>>
  <2>1. ip_msgcount[p] >= ip_qlimit[p]
    BY <1>0, <1>4, SMTT(60) DEF MaySend
  <2>2. blocked = ip_blocked[p] /\ MayBlock(t, p)
    <3>1. c.timeout # "now"
      BY <1>4, ZenonT(60)
    <3>2. Unblocked(t, p, blocked)
      BY <3>1, SenderBlocks, ZenonT(60)
    <3> QED
      BY <3>2, ZenonT(60) DEF Unblocked
  <2>3. Blocking(t, c, p)
    BY <1>4, <2>2, ZenonT(60) DEF Blocking
  <2> QED
    BY <2>1, <2>2, <2>3, BlockStep, ZenonT(60)
<1>5. \/ /\ ~Alive(p) \/ (MaySend(p, c.kind) /\ c.kind = "circular")
         /\ SendFails(t, p, blocked)
      \/ Alive(p) /\ Sending(t, c, p, blocked)
      \/ ~MaySend(p, c.kind) /\ SendFails(t, p, blocked)
      \/ /\ ~MaySend(p, c.kind) /\ c.timeout # "now"
         /\ ip_blocked' = [ip_blocked EXCEPT ![p] = Append(blocked, t)]
         /\ ith' = [ith EXCEPT ![t] = Wait(@, "SEND_IN_PROGRESS", @.msize)]
         /\ pc' = [pc EXCEPT ![t] = "send"] /\ call' = [call EXCEPT ![t] = c]
         /\ UNCHANGED <<ip_msgcount, ip_seqno, imq, sent>>
  BY ZenonT(60) DEF TrySend, SendFails, Sending
<1> QED
  BY <1>1, <1>2, <1>3, <1>4, <1>5, ZenonT(60)

\* ipc_mqueue_send, called.
LEMMA SendStep ==
  ASSUME SetLaws, IInv, NEW t \in Threads, NEW p \in Ports, NEW size \in Sizes, NEW kind \in Kinds,
         NEW timeout \in Timeouts, ipc_mqueue_send(t, p, size, kind, timeout)
  PROVE  IInv'
<1>1. PICK c : c = [NoCall EXCEPT !.port = p, !.size = size, !.kind = kind, !.timeout = timeout]
  BY ZenonT(60)
<1>2. c \in CallArgs /\ c.port = p
  BY <1>1, IpcAssumption, ZenonT(60) DEF NoCall, CallArgs, Queues
<1>3. pc[t] = "idle" /\ TrySend(t, c, ip_blocked[p]) /\ UNCHANGED <<portvars, base>> /\ wasted' = wasted
  BY <1>1, ZenonT(60) DEF ipc_mqueue_send
<1>4. Sender(t, p, ip_blocked[p], c.timeout)
  BY <1>3, ZenonT(60) DEF Sender
<1>5. wasted \subseteq wasted' /\ wasted' \subseteq Ports
  BY <1>3, ZenonT(60) DEF IInv
<1>6. Marks(t, p, c)
  BY <1>3, ZenonT(60) DEF Marks
<1> QED
  BY <1>2, <1>3, <1>4, <1>5, <1>6, TrySendStep, ZenonT(60)

\* ipc_mqueue_send, after thread_block.
LEMMA SendResumesStep ==
  ASSUME SetLaws, IInv, NEW t \in Threads, send_resumes(t)
  PROVE  IInv'
<1>0. /\ SInv(ip_blocked, ith, pc, call, ip_msgcount, ip_qlimit, dead, wasted) /\ Now \in States
      /\ call \in [Threads -> CallArgs] /\ wasted \subseteq Ports /\ pc \in [Threads -> Stages]
  BY ZenonT(60) DEF IInv, QInv, CInv
<1>1. pc[t] = "send"
  BY ZenonT(60) DEF send_resumes
<1>2. call[t].port \in Ports /\ ith[t].state \in {"SEND_IN_PROGRESS", "SUCCESS"}
  BY <1>0, <1>1, ZenonT(60) DEF SInv, BInv
<1>3. PICK p \in Ports : p = call[t].port
  BY <1>2, ZenonT(60)
<1>4. PICK c \in CallArgs : c = call[t]
  BY <1>0, ZenonT(60)
<1>5. ith[t].result \in Results
  <2>1. ith[t] \in Ith
    BY <1>0, NowFields, ZenonT(60) DEF States
  <2> QED
    BY <2>1, ZenonT(60) DEF Ith
<1>6. /\ Woke(t) = "SUCCESS" => ith[t].state = "SUCCESS"
      /\ Woke(t) \in {"TIMED_OUT", "INTERRUPTED", "AWAKENED"} => ith[t].state = "SEND_IN_PROGRESS"
  BY <1>2, <1>5, ZenonT(60) DEF Woke, Results
<1>7. UNCHANGED <<portvars, base>>
  BY ZenonT(60) DEF send_resumes
<1>8. wasted' = IF LetIn(t, p) /\ Alive(p) /\ c.kind = "circular" /\ pc'[t] = "idle"
                THEN wasted \cup {p} ELSE wasted
  BY <1>3, <1>4, ZenonT(60) DEF send_resumes
<1>9. wasted \subseteq wasted' /\ wasted' \subseteq Ports
  BY <1>0, <1>8, ZenonT(60)
<1>10. Marks(t, p, c)
  BY <1>1, <1>3, <1>8, ZenonT(60) DEF Marks, LetIn, Alive
<1>11. CASE Woke(t) = "SUCCESS" /\ TrySend(t, c, ip_blocked[p])
  <2>1. Sender(t, p, ip_blocked[p], c.timeout)
    BY <1>1, <1>3, <1>6, <1>11, ZenonT(60) DEF Sender
  <2>2. c.port = p
    BY <1>3, <1>4, ZenonT(60)
  <2> QED
    BY <1>7, <1>9, <1>10, <1>11, <2>1, <2>2, TrySendStep, ZenonT(60)
<1>12. CASE Woke(t) = "TIMED_OUT" /\ TrySend(t, [c EXCEPT !.timeout = "now"], ipc_thread_rmqueue(ip_blocked[p], t))
  <2>1. PICK e : e = [c EXCEPT !.timeout = "now"]
    BY ZenonT(60)
  <2>2. e \in CallArgs /\ e.timeout = "now" /\ e.port = c.port /\ e.kind = c.kind
    BY <2>1, ZenonT(60) DEF CallArgs
  <2>3. e.port = p
    BY <2>2, <1>3, <1>4, ZenonT(60)
  <2>4. Marks(t, p, e)
    BY <2>2, <1>10, ZenonT(60) DEF Marks
  <2>5. ith[t].state = "SEND_IN_PROGRESS"
    BY <1>6, <1>12, ZenonT(60)
  <2>6. Sender(t, p, ipc_thread_rmqueue(ip_blocked[p], t), e.timeout)
    BY <1>1, <1>3, <2>2, <2>5, ZenonT(60) DEF Sender
  <2>7. TrySend(t, e, ipc_thread_rmqueue(ip_blocked[p], t))
    BY <1>12, <2>1, ZenonT(60)
  <2> QED
    BY <1>7, <1>9, <2>2, <2>3, <2>4, <2>6, <2>7, TrySendStep, ZenonT(60)
<1>13. CASE Woke(t) = "INTERRUPTED" /\ SendFails(t, p, ipc_thread_rmqueue(ip_blocked[p], t))
  <2>1. ith[t].state = "SEND_IN_PROGRESS"
    BY <1>6, <1>13, ZenonT(60)
  <2>2. Sender(t, p, ipc_thread_rmqueue(ip_blocked[p], t), "now")
    BY <1>1, <1>3, <2>1, ZenonT(60) DEF Sender
  <2>3. pc[t] = "send" /\ ith[t].state = "SUCCESS" =>
            p \in dead \/ p \in wasted' \/ ip_msgcount[p] >= ip_qlimit[p]
    BY <2>1, ZenonT(60)
  <2> QED
    BY <1>9, <1>13, <2>2, <2>3, SendFailsStep, ZenonT(60)
<1>14. CASE /\ Woke(t) = "AWAKENED"
            /\ ip_blocked' = [ip_blocked EXCEPT ![p] = ipc_thread_rmqueue(ip_blocked[p], t)]
            /\ pc' = [pc EXCEPT ![t] = "panic"]
            /\ UNCHANGED <<ip_msgcount, ip_seqno, imq, ith, call, sent>>
  <2>0. /\ CInv(pc, call) /\ QTypes(ip_pset, dead, base, sent, ip_msgcount)
        /\ STypes(ip_msgcount, ip_qlimit)
        /\ QInv(Now, pc, call, ip_pset, dead, base, sent, ip_msgcount)
    BY ZenonT(60) DEF IInv
  <2>a. /\ dead' = dead /\ ip_pset' = ip_pset /\ ip_qlimit' = ip_qlimit /\ base' = base
        /\ ip_msgcount' = ip_msgcount /\ sent' = sent /\ ith' = ith /\ call' = call
        /\ ip_seqno' = ip_seqno /\ imq_messages' = imq_messages /\ imq_threads' = imq_threads
    BY <1>7, <1>14, ZenonT(60) DEF portvars, imq
  <2>b. Now' = Now
    BY <2>a, ZenonT(60) DEF Now
  <2>1. ith[t].state = "SEND_IN_PROGRESS"
    BY <1>6, <1>14, ZenonT(60)
  <2>2. PICK blocked : blocked = ipc_thread_rmqueue(ip_blocked[p], t)
    BY ZenonT(60)
  <2>3. Sender(t, p, blocked, "now")
    BY <1>1, <1>3, <2>1, <2>2, ZenonT(60) DEF Sender
  <2>4. pc'[t] = "panic" /\ \A x \in Threads \ {t} : pc'[x] = pc[x]
    BY <1>0, <1>14, ZenonT(60)
  <2>5. CInv(pc', call')
    <3>1. pc' \in [Threads -> Stages]
      <4>1. "panic" \in Stages
        BY ZenonT(60) DEF Stages
      <4> QED
        BY <4>1, <1>0, <1>14, ZenonT(60)
    <3>2. \A x \in Threads : pc'[x] = "go" => call'[x].callee \in Threads
      BY <2>0, <2>a, <2>4, ZenonT(60) DEF CInv
    <3>3. \A x \in Threads : pc'[x] = "receive" => call'[x].port \in Queues
      BY <2>0, <2>a, <2>4, ZenonT(60) DEF CInv
    <3> QED
      BY <3>1, <3>2, <3>3, <1>0, <2>a, ZenonT(60) DEF CInv
  <2>6. QInv(Now', pc', call', ip_pset, dead, base, sent, ip_msgcount)
    <3>1. ASSUME NEW x \in Threads PROVE AsWas(Now, pc, call, Now', pc', call', x)
      <4>1. CASE x = t
        BY <4>1, <2>4, <1>1, ZenonT(60) DEF AsWas, Holds
      <4>2. CASE x # t
        BY <4>2, <2>4, <2>a, <2>b, ZenonT(60) DEF AsWas
      <4> QED
        BY <4>1, <4>2, ZenonT(60)
    <3>2. /\ Now' \in States /\ Now'.imq_messages = Now.imq_messages
          /\ Now'.imq_threads = Now.imq_threads /\ Now'.ip_seqno = Now.ip_seqno
      BY <1>0, <2>b, ZenonT(60)
    <3> QED
      BY <2>0, <3>1, <3>2, QSame, ZenonT(60)
  <2>7. blocked \in Seq(Threads) /\ ip_blocked \in [Ports -> Seq(Threads)]
    BY <2>3, SenderBlocked, ZenonT(60) DEF IInv
  <2>8. /\ ip_blocked' \in [Ports -> Seq(Threads)]
        /\ ip_blocked'[p] = blocked /\ \A r \in Ports \ {p} : ip_blocked'[r] = ip_blocked[r]
    BY <1>14, <2>2, <2>7, ZenonT(60)
  <2>9. SInv(ip_blocked', ith', pc', call', ip_msgcount, ip_qlimit, dead, wasted')
    <3>1. pc'[t] # "send"
      BY <2>4, ZenonT(60)
    <3>2. pc[t] = "send" /\ ith[t].state = "SUCCESS" =>
            \/ p \in dead \/ p \in wasted'
            \/ ip_msgcount[p] >= ip_msgcount[p] + 1 \/ ip_msgcount[p] >= ip_qlimit[p]
      BY <2>1, ZenonT(60)
    <3>3. \A x \in Threads \ {t} : SendsAs(ith, pc, call, ith', pc', call', x)
      BY <2>4, <2>a, ZenonT(60) DEF SendsAs
    <3>4. \A r \in Ports : ip_msgcount[r] >= ip_msgcount[r]
      BY <2>0, SMTT(60) DEF STypes
    <3>5. wasted \subseteq wasted'
      BY <1>9, ZenonT(60)
    <3> QED
      BY <2>0, <2>3, <2>8, <3>1, <3>2, <3>3, <3>4, <3>5, SenderLeaves, ZenonT(60)
  <2> QED
    BY <1>9, <2>0, <2>a, <2>5, <2>6, <2>8, <2>9, ZenonT(60) DEF IInv
<1>15. \/ Woke(t) = "SUCCESS" /\ TrySend(t, c, ip_blocked[p])
       \/ Woke(t) = "TIMED_OUT" /\ TrySend(t, [c EXCEPT !.timeout = "now"], ipc_thread_rmqueue(ip_blocked[p], t))
       \/ Woke(t) = "INTERRUPTED" /\ SendFails(t, p, ipc_thread_rmqueue(ip_blocked[p], t))
       \/ /\ Woke(t) = "AWAKENED"
          /\ ip_blocked' = [ip_blocked EXCEPT ![p] = ipc_thread_rmqueue(ip_blocked[p], t)]
          /\ pc' = [pc EXCEPT ![t] = "panic"]
          /\ UNCHANGED <<ip_msgcount, ip_seqno, imq, ith, call, sent>>
  BY <1>3, <1>4, <1>7, ZenonT(60) DEF send_resumes, SendFails
<1> QED
  BY <1>11, <1>12, <1>13, <1>14, <1>15, ZenonT(60)

\* thread_go of the receiver, after the queue was unlocked: whatever the receiver has
\* done meanwhile, only its wait can end.
LEMMA SendGoesStep ==
  ASSUME SetLaws, IInv, NEW t \in Threads, send_goes(t)
  PROVE  IInv'
<1>0. /\ CInv(pc, call) /\ QTypes(ip_pset, dead, base, sent, ip_msgcount)
      /\ STypes(ip_msgcount, ip_qlimit) /\ ip_blocked \in [Ports -> Seq(Threads)] /\ wasted \subseteq Ports
      /\ QInv(Now, pc, call, ip_pset, dead, base, sent, ip_msgcount) /\ Now \in States
      /\ SInv(ip_blocked, ith, pc, call, ip_msgcount, ip_qlimit, dead, wasted)
  BY ZenonT(60) DEF IInv, QInv
<1>a. /\ dead' = dead /\ ip_pset' = ip_pset /\ ip_qlimit' = ip_qlimit /\ base' = base
      /\ ip_msgcount' = ip_msgcount /\ sent' = sent /\ ip_blocked' = ip_blocked /\ wasted' = wasted
  BY ZenonT(60) DEF send_goes, portvars
<1>1. pc[t] = "go" /\ Return(t) /\ UNCHANGED <<ip_seqno, imq>>
  BY ZenonT(60) DEF send_goes
<1>2. PICK u \in Threads : u = call[t].callee
  BY <1>0, <1>1, ZenonT(60) DEF CInv
<1>3. ith[u] \in Ith
  BY <1>0, NowFields, ZenonT(60) DEF States
<1>4. PICK r : r = thread_go(ith[u])
  BY ZenonT(60)
<1>5. r \in Ith /\ r.state = ith[u].state /\ r.kmsg = ith[u].kmsg
  BY <1>3, <1>4, ThreadGo, ZenonT(60)
<1>6. ith' = [ith EXCEPT ![u] = r]
  BY <1>2, <1>4, ZenonT(60) DEF send_goes
<1>7. OneThread(Now, u, r, Now')
  BY <1>0, <1>1, <1>5, <1>6, NowThread, ZenonT(60)
<1>8. \A x \in Threads : ith'[x].state = ith[x].state /\ ith'[x].kmsg = ith[x].kmsg
  <2>1. ith'[u] = r /\ \A x \in Threads \ {u} : ith'[x] = ith[x]
    BY <1>7, NowFields, NowNext, ZenonT(60) DEF OneThread
  <2> QED
    BY <2>1, <1>5, ZenonT(60)
<1>9. Goes(pc, call, t, "idle", NoCall, pc', call')
  BY <1>0, <1>1, Returns, ZenonT(60)
<1>10. CInv(pc', call') /\ pc'[t] = "idle" /\ \A x \in Threads \ {t} : pc'[x] = pc[x] /\ call'[x] = call[x]
  BY <1>9, ZenonT(60) DEF Goes
<1>11. QInv(Now', pc', call', ip_pset, dead, base, sent, ip_msgcount)
  <2>1. ASSUME NEW x \in Threads PROVE AsWas(Now, pc, call, Now', pc', call', x)
    <3>1. CASE x = t
      BY <3>1, <1>1, <1>10, ZenonT(60) DEF AsWas, Holds
    <3>2. CASE x # t
      BY <3>2, <1>8, <1>10, NowFields, NowNext, ZenonT(60) DEF AsWas
    <3> QED
      BY <3>1, <3>2, ZenonT(60)
  <2>2. /\ Now' \in States /\ Now'.imq_messages = Now.imq_messages
        /\ Now'.imq_threads = Now.imq_threads /\ Now'.ip_seqno = Now.ip_seqno
    BY <1>7, ZenonT(60) DEF OneThread
  <2> QED
    BY <1>0, <2>1, <2>2, QSame, ZenonT(60)
<1>12. SInv(ip_blocked, ith', pc', call', ip_msgcount, ip_qlimit, dead, wasted)
  <2>1. ASSUME NEW x \in Threads PROVE SendsAs(ith, pc, call, ith', pc', call', x)
    <3>1. CASE x = t
      BY <3>1, <1>1, <1>10, ZenonT(60) DEF SendsAs
    <3>2. CASE x # t
      BY <3>2, <1>8, <1>10, ZenonT(60) DEF SendsAs
    <3> QED
      BY <3>1, <3>2, ZenonT(60)
  <2>2. \A r2 \in Ports \ dead : ip_msgcount[r2] >= ip_msgcount[r2]
    BY <1>0, SMTT(60) DEF STypes
  <2>3. dead \subseteq dead /\ wasted \subseteq wasted
    BY ZenonT(60)
  <2> QED
    BY <1>0, <2>1, <2>2, <2>3, SSame, ZenonT(60)
<1> QED
  BY <1>0, <1>a, <1>10, <1>11, <1>12, ZenonT(60) DEF IInv

\* A timeout or thread_abort ends a wait and leaves the thread on its queue.
LEMMA ClearWaitStep ==
  ASSUME SetLaws, IInv, NEW t \in Threads, NEW result \in {"TIMED_OUT", "INTERRUPTED"}, clear_wait(t, result)
  PROVE  IInv'
<1>0. /\ CInv(pc, call) /\ QTypes(ip_pset, dead, base, sent, ip_msgcount)
      /\ STypes(ip_msgcount, ip_qlimit) /\ ip_blocked \in [Ports -> Seq(Threads)] /\ wasted \subseteq Ports
      /\ QInv(Now, pc, call, ip_pset, dead, base, sent, ip_msgcount) /\ Now \in States
      /\ SInv(ip_blocked, ith, pc, call, ip_msgcount, ip_qlimit, dead, wasted)
  BY ZenonT(60) DEF IInv, QInv
<1>a. /\ dead' = dead /\ ip_pset' = ip_pset /\ ip_qlimit' = ip_qlimit /\ base' = base
      /\ ip_msgcount' = ip_msgcount /\ sent' = sent /\ ip_blocked' = ip_blocked /\ wasted' = wasted
      /\ pc' = pc /\ call' = call /\ UNCHANGED <<ip_seqno, imq>>
  BY ZenonT(60) DEF clear_wait, portvars, threadvars
<1>1. ith \in [Threads -> Ith] /\ ith[t] \in Ith
  BY <1>0, NowFields, ZenonT(60) DEF States
<1>2. PICK b \in BOOLEAN : b = FALSE
  BY ZenonT(60)
<1>3. PICK r : r = [ith[t] EXCEPT !.wait = b, !.result = result]
  BY ZenonT(60)
<1>4. r \in Ith /\ r.state = ith[t].state /\ r.kmsg = ith[t].kmsg
  <2>1. result \in Results
    BY ZenonT(60) DEF Results
  <2> QED
    BY <2>1, <1>1, <1>3, ZenonT(60) DEF Ith
<1>5. ith' = [ith EXCEPT ![t] = r]
  <2>1. ith' = [ith EXCEPT ![t].wait = b, ![t].result = result]
    BY <1>2, ZenonT(60) DEF clear_wait
  <2> QED
    BY <1>1, <1>3, <2>1, ZenonT(60)
<1>6. OneThread(Now, t, r, Now')
  BY <1>0, <1>a, <1>4, <1>5, NowThread, ZenonT(60)
<1>7. \A x \in Threads : ith'[x].state = ith[x].state /\ ith'[x].kmsg = ith[x].kmsg
  <2>1. ith'[t] = r /\ \A x \in Threads \ {t} : ith'[x] = ith[x]
    BY <1>6, NowFields, NowNext, ZenonT(60) DEF OneThread
  <2> QED
    BY <2>1, <1>4, ZenonT(60)
<1>8. QInv(Now', pc', call', ip_pset, dead, base, sent, ip_msgcount)
  <2>1. ASSUME NEW x \in Threads PROVE AsWas(Now, pc, call, Now', pc', call', x)
    BY <1>a, <1>7, NowFields, NowNext, ZenonT(60) DEF AsWas
  <2>2. /\ Now' \in States /\ Now'.imq_messages = Now.imq_messages
        /\ Now'.imq_threads = Now.imq_threads /\ Now'.ip_seqno = Now.ip_seqno
    BY <1>6, ZenonT(60) DEF OneThread
  <2> QED
    BY <1>0, <2>1, <2>2, QSame, ZenonT(60)
<1>9. SInv(ip_blocked, ith', pc', call', ip_msgcount, ip_qlimit, dead, wasted)
  <2>1. ASSUME NEW x \in Threads PROVE SendsAs(ith, pc, call, ith', pc', call', x)
    BY <1>a, <1>7, ZenonT(60) DEF SendsAs
  <2>2. \A r2 \in Ports \ dead : ip_msgcount[r2] >= ip_msgcount[r2]
    BY <1>0, SMTT(60) DEF STypes
  <2>3. dead \subseteq dead /\ wasted \subseteq wasted
    BY ZenonT(60)
  <2> QED
    BY <1>0, <2>1, <2>2, <2>3, SSame, ZenonT(60)
<1>10. CInv(pc', call')
  BY <1>0, <1>a, ZenonT(60)
<1> QED
  BY <1>0, <1>a, <1>8, <1>9, <1>10, ZenonT(60) DEF IInv
=============================================================================
