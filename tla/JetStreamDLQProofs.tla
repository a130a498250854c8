------------------------ MODULE JetStreamDLQProofs ------------------------
(***************************************************************************)
(* What JetStreamConsumer promises about the DLQ subject, for a positive   *)
(* MaxDeliver: one copy of a message, sent on its last delivery; and that  *)
(* a route with such a MaxDeliver implements Delivery.                     *)
(***************************************************************************)
EXTENDS JetStreamProofs

\* The packet i is a copy for the DLQ subject.
CopyAt(m, i) == wire[i].op = "dlq" /\ wire[i].msg = m

\* publishToDLQ has sent a copy of m.
CopySent(m) == dlq[m] # <<>> \/ m \in lostDLQ \/ \E i \in 1..Len(wire) : CopyAt(m, i)

Last(m) == [msg |-> m, num |-> MaxDeliver]

\* The place holds the last delivery of m, which may still become a copy.
Undecided(m, w, i) == Place(w, i) = Last(m) /\ (i = 0 => pc[w] # "ack")

\* A copy is sent for the last delivery, and then none is left to send another.
SentAtLast(m) ==
  CopySent(m) =>
    /\ dc[m] = MaxDeliver
    /\ \A w \in Workers : \A i \in 0..Len(buf[w]) : ~Undecided(m, w, i)

\* One copy is sent, and it is in one place: on the wire, arrived, or lost.
SentOnce(m) ==
  /\ Len(dlq[m]) <= 1
  /\ dlq[m] # <<>> => m \notin lostDLQ
  /\ \A i \in 1..Len(wire) : CopyAt(m, i) =>
       /\ dlq[m] = <<>> /\ m \notin lostDLQ
       /\ \A j \in 1..Len(wire) : CopyAt(m, j) => i = j

CopyInv == \A m \in Msgs : SentAtLast(m) /\ SentOnce(m)

\* The inductive invariant for a positive MaxDeliver.
DLQInv == IInv /\ CopyInv

-----------------------------------------------------------------------------
(* The places *)

\* The callback leaves its Ack only by returning.
LEMMA AckEnds ==
  ASSUME Shape, [Next]_vars, NEW w \in Workers, pc[w] = "ack"
  PROVE  pc'[w] = "ack" \/ job'[w] = NoJob
PROOF
<1> USE DEF vars, serverVars, clientVars, history
<1>1. CASE UNCHANGED <<pc, job>>
  BY <1>1
<1>2. CASE \E v \in Workers : Callback(v)
  BY <1>2 DEF Callback, HandlerSucceeds, HandlerFails, HandlerPanics, Ack, NakError,
     PublishToDLQ, Return, Shape, TypeOK
<1>3. CASE \E v \in Workers : Receive(v)
  BY <1>3 DEF Receive, Shape, TypeOK
<1>4. CASE Crash
  BY <1>4 DEF Crash
<1>5. CASE ServerReceive
  BY <1>1, <1>5 DEF ServerReceive
<1>6. CASE \E i \in 1..Len(wire) : LosePacket(i)
  BY <1>1, <1>6 DEF LosePacket
<1>7. CASE \E v \in Workers : StartJetStream(v) \/ StopConsume(v)
  BY <1>1, <1>7 DEF StartJetStream, StopConsume
<1>8. CASE \E m \in Msgs : Exhaust(m) \/ AckWaitExpires(m) \/ \E v \in Workers : Deliver(m, v)
  BY <1>1, <1>8 DEF Exhaust, AckWaitExpires, Deliver
<1> QED
  BY <1>1, <1>2, <1>3, <1>4, <1>5, <1>6, <1>7, <1>8 DEF Next, Finished

\* No step but a delivery makes a last delivery undecided.
LEMMA ShiftDecides ==
  ASSUME Shape, [Next]_vars, NEW k \in [Workers -> {0, 1}], Shifted(k), MaxDeliver > 0,
         NEW m \in Msgs, NEW w \in Workers, NEW i \in 0..Len(buf'[w]), Undecided(m, w, i)'
  PROVE  \E j \in 0..Len(buf[w]) : Undecided(m, w, j)
PROOF
<1>0. Last(m) # NoJob /\ (i = 0 => pc'[w] # "ack") /\ i \in Int /\ k[w] \in {0, 1}
  BY MaxDeliverAssumption DEF Last, NoJob, Undecided
<1>1. i + k[w] \in 0..Len(buf[w]) /\ Place(w, i + k[w]) = Last(m)
  BY <1>0 DEF Shifted, Undecided
<1>2. CASE i + k[w] = 0
  <2>1. i = 0 /\ Place(w, 0)' = Last(m) /\ Place(w, 0) = Last(m) /\ 0 \in 0..Len(buf[w])
    BY <1>0, <1>1, <1>2 DEF Undecided
  <2>2. job'[w] # NoJob
    BY <1>0, <2>1 DEF Place
  <2>3. pc[w] # "ack"
    BY <1>0, <2>1, <2>2, AckEnds
  <2> QED
    BY <2>1, <2>3 DEF Undecided
<1>3. CASE i + k[w] # 0
  BY <1>1, <1>3 DEF Undecided
<1> QED
  BY <1>2, <1>3

\* A step that sends no copy keeps SentAtLast.
LEMMA QuietAtLast ==
  ASSUME Held, Shape', CopyInv, [Next]_vars, MaxDeliver > 0,
         NEW m \in Msgs, CopySent(m)' => CopySent(m)
  PROVE  SentAtLast(m)'
PROOF
<1>0. Shape
  BY DEF Held
<1> SUFFICES ASSUME CopySent(m)'
             PROVE  /\ dc'[m] = MaxDeliver
                    /\ \A w \in Workers : \A i \in 0..Len(buf'[w]) : ~Undecided(m, w, i)'
  BY DEF SentAtLast
<1>1. /\ dc[m] = MaxDeliver
      /\ \A w \in Workers : \A i \in 0..Len(buf[w]) : ~Undecided(m, w, i)
  BY DEF CopyInv, SentAtLast
<1>2. ASSUME NEW n \in Msgs, NEW v \in Workers, Deliver(n, v)
      PROVE  /\ dc'[m] = MaxDeliver
             /\ \A w \in Workers : \A i \in 0..Len(buf'[w]) : ~Undecided(m, w, i)'
  <2>1. n # m /\ dc'[m] = MaxDeliver /\ UNCHANGED pc
    BY <1>0, <1>1, <1>2 DEF Deliver, Limit, Shape, TypeOK
  <2>2. ASSUME NEW w \in Workers, NEW i \in 0..Len(buf'[w]), Undecided(m, w, i)'
        PROVE  FALSE
    <3>1. Len(buf[w]) \in Nat
      BY <1>0, PlaceFacts
    <3>2. CASE i \in 0..Len(buf[w])
      <4>1. Place(w, i)' = Place(w, i)
        BY <1>0, <1>2, <3>2, DeliverPlaces
      <4> QED
        BY <1>1, <2>1, <2>2, <3>2, <4>1 DEF Undecided, Last
    <3>3. CASE i \notin 0..Len(buf[w])
      <4>1. w = v /\ i = Len(buf[v]) + 1
        BY <1>0, <1>2, <2>2, <3>1, <3>3, DeliverPlaces
      <4>2. Place(w, i)' = [msg |-> n, num |-> dc[n] + 1]
        BY <1>0, <1>2, <4>1, DeliverPlaces
      <4> QED
        BY <2>1, <2>2, <4>2 DEF Undecided, Last
    <3> QED
      BY <3>2, <3>3
  <2> QED
    BY <2>1, <2>2
<1>3. ASSUME dc' = dc, NEW k \in [Workers -> {0, 1}], Shifted(k)
      PROVE  /\ dc'[m] = MaxDeliver
             /\ \A w \in Workers : \A i \in 0..Len(buf'[w]) : ~Undecided(m, w, i)'
  BY <1>0, <1>1, <1>3, ShiftDecides
<1> QED
  BY <1>0, <1>2, <1>3, NextShifts

-----------------------------------------------------------------------------
(* The copies *)

\* The copies on the wire were there before, the packet j at f[j].
CopiesStay(f) ==
  \A j \in 1..Len(wire') :
    /\ wire'[j].op = "dlq" => f[j] \in 1..Len(wire) /\ wire'[j] = wire[f[j]]
    /\ \A i \in 1..Len(wire') : f[i] = f[j] => i = j

LEMMA QuietOnce ==
  ASSUME CopyInv, NEW f, CopiesStay(f), UNCHANGED <<dlq, lostDLQ>>, NEW m \in Msgs
  PROVE  SentOnce(m)' /\ (CopySent(m)' => CopySent(m))
PROOF
<1>1. ASSUME NEW j \in 1..Len(wire'), CopyAt(m, j)'
      PROVE  f[j] \in 1..Len(wire) /\ CopyAt(m, f[j])
  BY <1>1 DEF CopiesStay, CopyAt
<1>2. SentOnce(m)
  BY DEF CopyInv
<1>3. ASSUME NEW i \in 1..Len(wire'), CopyAt(m, i)',
             NEW j \in 1..Len(wire'), CopyAt(m, j)'
      PROVE  i = j
  <2>1. f[i] = f[j]
    BY <1>1, <1>2, <1>3 DEF SentOnce
  <2> QED
    BY <2>1 DEF CopiesStay
<1> QED
  BY <1>1, <1>2, <1>3 DEF SentOnce, CopySent

\* The copy at r arrives, or is lost.
LEMMA CopyLeaves ==
  ASSUME Shape, Shape', CopyInv, NEW r, Removed(r), NEW m \in Msgs, CopyAt(m, r),
         \/ dlq' = [dlq EXCEPT ![m] = Append(@, wire[r].num)] /\ UNCHANGED lostDLQ
         \/ lostDLQ' = lostDLQ \union {m} /\ UNCHANGED dlq
  PROVE  \A n \in Msgs : SentOnce(n)' /\ (CopySent(n)' => CopySent(n))
PROOF
<1> DEFINE f == [j \in Nat |-> Old(r, j)]
<1>0. /\ Len(wire) \in Nat /\ Len(wire') = Len(wire) - 1 /\ r \in 1..Len(wire)
      /\ r \in Nat
      /\ \A j \in 1..Len(wire') : /\ j \in Nat /\ wire'[j] = wire[Old(r, j)]
                                  /\ Old(r, j) \in 1..Len(wire) /\ Old(r, j) # r
  BY WireFacts DEF Removed, Old
<1>1. ASSUME NEW n \in Msgs, n # m
      PROVE  SentOnce(n)' /\ (CopySent(n)' => CopySent(n))
  <2>1. dlq'[n] = dlq[n] /\ (n \in lostDLQ' <=> n \in lostDLQ)
    BY <1>1 DEF Shape, TypeOK
  <2>2. SentOnce(n)
    BY DEF CopyInv
  <2>3. ASSUME NEW j \in 1..Len(wire'), CopyAt(n, j)'
        PROVE  Old(r, j) \in 1..Len(wire) /\ CopyAt(n, Old(r, j))
    BY <1>0, <2>3 DEF CopyAt
  <2>4. ASSUME NEW i \in 1..Len(wire'), CopyAt(n, i)',
               NEW j \in 1..Len(wire'), CopyAt(n, j)'
        PROVE  i = j
    <3>1. Old(r, i) = Old(r, j)
      BY <2>2, <2>3, <2>4 DEF SentOnce
    <3> QED
      BY <1>0, <3>1 DEF Old
  <2> QED
    BY <2>1, <2>2, <2>3, <2>4 DEF SentOnce, CopySent
<1>2. CopySent(m)
  BY <1>0 DEF CopySent
<1>3. SentOnce(m)'
  <2>1. SentOnce(m) /\ dlq[m] = <<>> /\ m \notin lostDLQ
    BY <1>0 DEF CopyInv, SentOnce
  <2>2. \A j \in 1..Len(wire') : ~CopyAt(m, j)'
    <3> SUFFICES ASSUME NEW j \in 1..Len(wire'), CopyAt(m, j)' PROVE FALSE
      OBVIOUS
    <3>1. CopyAt(m, Old(r, j))
      BY <1>0 DEF CopyAt
    <3> QED
      BY <1>0, <2>1, <3>1 DEF SentOnce
  <2>3. wire[r].num \in 1..Limit /\ dlq \in [Msgs -> Seq(1..Limit)]
    BY <1>0, WireFacts DEF Shape, TypeOK
  <2>4. Len(dlq[m]) = 0
    BY <2>1, EmptySeq
  <2>5. Len(dlq'[m]) <= 1 /\ (dlq'[m] # <<>> => m \notin lostDLQ')
    <3>1. CASE dlq' = [dlq EXCEPT ![m] = Append(@, wire[r].num)] /\ UNCHANGED lostDLQ
      <4>1. dlq'[m] = Append(dlq[m], wire[r].num)
        BY <2>3, <3>1
      <4>2. Len(dlq'[m]) = Len(dlq[m]) + 1
        BY <2>3, <4>1, AppendProperties
      <4> QED
        BY <2>1, <2>4, <3>1, <4>2
    <3>2. CASE UNCHANGED dlq
      BY <2>1, <2>4, <3>2
    <3> QED
      BY <3>1, <3>2
  <2> QED
    BY <2>2, <2>5 DEF SentOnce
<1> QED
  BY <1>1, <1>2, <1>3

\* The first branch of publishToDLQ.
SendsCopy(w) ==
  /\ pc[w] = "failed" /\ LastDelivery(w)
  /\ wire' = Append(wire, Packet("dlq", w))
  /\ pc' = [pc EXCEPT ![w] = "ack"]
  /\ UNCHANGED <<serverVars, active, buf, job, faults, history>>

\* Every step leaves the copies alone, lets one arrive or get lost, or sends one.
LEMMA CopySteps ==
  ASSUME Shape, [Next]_vars
  PROVE  \/ UNCHANGED <<dlq, lostDLQ>> /\ \E f : CopiesStay(f)
         \/ \E r \in 1..Len(wire), m \in Msgs :
              /\ Removed(r) /\ CopyAt(m, r)
              /\ \/ dlq' = [dlq EXCEPT ![m] = Append(@, wire[r].num)] /\ UNCHANGED lostDLQ
                 \/ lostDLQ' = lostDLQ \union {m} /\ UNCHANGED dlq
         \/ \E w \in Workers : SendsCopy(w)
PROOF
<1> USE DEF vars, serverVars, clientVars, history
<1> DEFINE Goal1 == UNCHANGED <<dlq, lostDLQ>> /\ \E f : CopiesStay(f)
           Goal2 == \E r \in 1..Len(wire), m \in Msgs :
              /\ Removed(r) /\ CopyAt(m, r)
              /\ \/ dlq' = [dlq EXCEPT ![m] = Append(@, wire[r].num)] /\ UNCHANGED lostDLQ
                 \/ lostDLQ' = lostDLQ \union {m} /\ UNCHANGED dlq
           same == [j \in Nat |-> j]
<1>0. Len(wire) \in Nat
  BY WireFacts
<1>1. ASSUME UNCHANGED <<dlq, lostDLQ>>, Len(wire') \in Nat,
             \A j \in 1..Len(wire') : wire'[j].op = "dlq" => j \in 1..Len(wire) /\ wire'[j] = wire[j]
      PROVE  Goal1
  <2>1. CopiesStay(same)
    BY <1>1 DEF CopiesStay
  <2> QED
    BY <1>1, <2>1
<1>2. ASSUME UNCHANGED dlq /\ UNCHANGED lostDLQ /\ UNCHANGED wire
      PROVE  Goal1
  BY <1>0, <1>1, <1>2
<1>3. ASSUME NEW r \in 1..Len(wire), Removed(r), UNCHANGED <<dlq, lostDLQ>>
      PROVE  Goal1
  <2> DEFINE g == [j \in Nat |-> Old(r, j)]
  <2>1. \A j \in 1..Len(wire') : /\ j \in Nat /\ wire'[j] = wire[Old(r, j)]
                                 /\ Old(r, j) \in 1..Len(wire)
    BY <1>0, <1>3 DEF Removed, Old
  <2>2. \A i, j \in 1..Len(wire') : Old(r, i) = Old(r, j) => i = j
    BY <1>0, <1>3 DEF Removed, Old
  <2>3. \A j \in 1..Len(wire') : g[j] = Old(r, j)
    BY <2>1
  <2> HIDE DEF g
  <2>4. CopiesStay(g)
    BY <2>1, <2>2, <2>3 DEF CopiesStay
  <2> QED
    BY <1>3, <2>4
<1>4. ASSUME ServerReceive
      PROVE  Goal1 \/ Goal2
  <2>1. Removed(1) /\ Head(wire) = wire[1] /\ 1 \in 1..Len(wire) /\ UNCHANGED lostDLQ
    BY <1>4, ReceiveRemoves DEF ServerReceive, Removed
  <2>2. wire[1].msg \in Msgs
    BY <2>1, WireFacts
  <2>3. CASE UNCHANGED dlq
    BY <1>3, <2>1, <2>3
  <2>4. CASE ~UNCHANGED dlq
    <3>1. /\ wire[1].op = "dlq"
          /\ dlq' = [dlq EXCEPT ![wire[1].msg] = Append(@, wire[1].num)]
      BY <1>4, <2>1, <2>4 DEF ServerReceive
    <3> QED
      BY <2>1, <2>2, <3>1 DEF CopyAt
  <2> QED
    BY <2>3, <2>4
<1>5. ASSUME NEW i \in 1..Len(wire), LosePacket(i)
      PROVE  Goal1 \/ Goal2
  <2>1. Removed(i) /\ UNCHANGED dlq /\ wire[i].msg \in Msgs
    BY <1>5, LoseRemoves, WireFacts DEF LosePacket
  <2>2. CASE wire[i].op # "dlq"
    BY <1>3, <1>5, <2>1, <2>2 DEF LosePacket
  <2>3. CASE wire[i].op = "dlq"
    BY <1>5, <2>1, <2>3 DEF LosePacket, CopyAt
  <2> QED
    BY <2>2, <2>3
<1>6. ASSUME NEW w \in Workers, NEW op \in {"ack", "nak"}, Send(op, w), pc[w] # "idle",
             UNCHANGED <<dlq, lostDLQ>>
      PROVE  Goal1
  <2>1. CASE wire' = Append(wire, Packet(op, w))
    <3>1. Sent(Packet(op, w)) /\ Packet(op, w).op # "dlq"
      BY <1>6, <2>1, SendSends
    <3>2. /\ Len(wire') \in Nat
          /\ \A j \in 1..Len(wire') : j \in 1..Len(wire) \/ j = Len(wire')
      BY <1>0, <3>1 DEF Sent
    <3> QED
      BY <1>1, <1>6, <3>1, <3>2 DEF Sent
  <2> QED
    BY <1>2, <1>6, <2>1 DEF Send
<1>7. ASSUME NEW w \in Workers, Callback(w)
      PROVE  Goal1 \/ SendsCopy(w)
  <2>1. UNCHANGED dlq /\ UNCHANGED lostDLQ
    BY <1>7, CallbackPlaces
  <2>2. CASE HandlerSucceeds(w) \/ HandlerFails(w) \/ HandlerPanics(w)
    <3>1. UNCHANGED wire
      BY <2>2 DEF HandlerSucceeds, HandlerFails, HandlerPanics
    <3> QED
      BY <1>2, <2>1, <3>1
  <2>3. CASE Ack(w)
    BY <1>6, <2>1, <2>3 DEF Ack
  <2>4. CASE NakError(w)
    BY <1>6, <2>1, <2>4 DEF NakError
  <2>5. CASE PublishToDLQ(w)
    <3>1. pc[w] # "idle" /\ (SendsCopy(w) \/ Send("nak", w))
      BY <2>5 DEF PublishToDLQ, SendsCopy
    <3> QED
      BY <1>6, <2>1, <3>1
  <2> QED
    BY <1>7, <2>2, <2>3, <2>4, <2>5 DEF Callback
<1>8. ASSUME Crash
      PROVE  Goal1
  <2>1. PICK n \in 0..Len(wire) : wire' = SubSeq(wire, 1, n)
    BY <1>8 DEF Crash
  <2>2. Len(wire') = n /\ \A j \in 1..n : wire'[j] = wire[j] /\ j \in 1..Len(wire)
    BY <1>0, <2>1, PrefixFacts, WireFacts
  <2>3. UNCHANGED <<dlq, lostDLQ>>
    BY <1>8 DEF Crash
  <2> QED
    BY <1>0, <1>1, <2>2, <2>3
<1>9. ASSUME NEW w \in Workers,
             \/ StartJetStream(w) \/ StopConsume(w) \/ Receive(w)
             \/ \E m \in Msgs : Deliver(m, w)
      PROVE  Goal1
  <2>1. UNCHANGED dlq /\ UNCHANGED lostDLQ /\ UNCHANGED wire
    BY <1>9 DEF StartJetStream, StopConsume, Receive, Deliver
  <2> QED
    BY <1>2, <2>1
<1>10. ASSUME NEW m \in Msgs, Exhaust(m) \/ AckWaitExpires(m)
       PROVE  Goal1
  <2>1. UNCHANGED dlq /\ UNCHANGED lostDLQ /\ UNCHANGED wire
    BY <1>10 DEF Exhaust, AckWaitExpires
  <2> QED
    BY <1>2, <2>1
<1>11. ASSUME UNCHANGED vars
       PROVE  Goal1
  <2>1. UNCHANGED dlq /\ UNCHANGED lostDLQ /\ UNCHANGED wire
    BY <1>11
  <2> QED
    BY <1>2, <2>1
<1> HIDE DEF Goal1, Goal2
<1>12. Goal1 \/ Goal2 \/ \E w \in Workers : SendsCopy(w)
  BY <1>4, <1>5, <1>7, <1>8, <1>9, <1>10, <1>11 DEF Next, Finished
<1> QED
  BY <1>12 DEF Goal1, Goal2

\* The copy is sent for a last delivery that no other place holds, so it is the
\* first one.
LEMMA CopySends ==
  ASSUME Held, Shape', CopyInv, MaxDeliver > 0, NEW w \in Workers, SendsCopy(w),
         NEW m \in Msgs
  PROVE  SentAtLast(m)' /\ SentOnce(m)'
PROOF
<1>0. /\ Shape /\ Len(wire) \in Nat /\ Len(buf[w]) \in Nat
      /\ job[w] \in Deliveries /\ job[w].msg \in Msgs /\ job[w].num \in 1..Limit
  BY WireFacts, PlaceFacts, PacketFacts DEF Held, SendsCopy
<1>1. /\ Sent(Packet("dlq", w)) /\ Packet("dlq", w).op = "dlq"
      /\ Packet("dlq", w).msg = job[w].msg
  BY <1>0, SendSends DEF SendsCopy
<1>2. /\ UNCHANGED <<dlq, lostDLQ>> /\ UNCHANGED dc /\ UNCHANGED buf /\ UNCHANGED job
      /\ pc' = [pc EXCEPT ![w] = "ack"] /\ pc \in [Workers -> CallbackPcs] /\ pc[w] = "failed"
  BY <1>0 DEF SendsCopy, serverVars, history, Shape, TypeOK
<1>3. ASSUME NEW v \in Workers, NEW i \in 0..Len(buf'[v])
      PROVE  i \in 0..Len(buf[v]) /\ Place(v, i)' = Place(v, i)
  BY <1>2, <1>3 DEF Place
<1>4. CASE job[w].msg # m
  <2>1. ASSUME NEW i \in 1..Len(wire'), CopyAt(m, i)'
        PROVE  i \in 1..Len(wire) /\ CopyAt(m, i)
    BY <1>0, <1>1, <1>4, <2>1 DEF Sent, CopyAt
  <2>2. CopySent(m)' => CopySent(m)
    BY <1>2, <2>1 DEF CopySent
  <2>3. ASSUME NEW v \in Workers, NEW i \in 0..Len(buf'[v]), Undecided(m, v, i)'
        PROVE  Undecided(m, v, i)
    BY <1>2, <1>3, <2>3 DEF Undecided
  <2>4. SentAtLast(m)'
    BY <1>2, <1>3, <2>2, <2>3 DEF CopyInv, SentAtLast
  <2>5. SentOnce(m)'
    BY <1>2, <2>1 DEF CopyInv, SentOnce
  <2> QED
    BY <2>4, <2>5
<1>5. CASE job[w].msg = m
  <2>1. job[w].num = MaxDeliver /\ dc[m] = MaxDeliver
    <3>1. Place(w, 0) = job[w] /\ job[w] # NoJob /\ 0 \in 0..Len(buf[w])
      BY <1>0, NoJobFacts DEF Place
    <3>2. job[w].num <= dc[m] /\ job[w].num >= MaxDeliver
      BY <1>5, <3>1 DEF Held, Counted, SendsCopy, LastDelivery
    <3>3. dc[m] \in 0..Limit /\ Limit = MaxDeliver /\ MaxDeliver \in Int
      BY <1>0, MaxDeliverAssumption DEF Shape, TypeOK, Limit
    <3> QED
      BY <1>0, <3>2, <3>3
  <2>2. job[w] = Last(m) /\ Last(m) # NoJob /\ 0 \in 0..Len(buf[w]) /\ Place(w, 0) = Last(m)
    BY <1>0, <1>5, <2>1, NoJobFacts DEF Last, Deliveries, Place
  <2>3. ~CopySent(m)
    BY <1>2, <2>2 DEF CopyInv, SentAtLast, Undecided
  <2>4. ASSUME NEW v \in Workers, NEW i \in 0..Len(buf'[v]), Undecided(m, v, i)'
        PROVE  FALSE
    <3>1. i \in 0..Len(buf[v]) /\ Place(v, i) = Place(w, 0) /\ Place(v, i) # NoJob
      BY <1>3, <2>2, <2>4 DEF Undecided
    <3>2. v = w /\ i = 0
      BY <2>2, <3>1 DEF Held, HeldOnce
    <3> QED
      BY <1>2, <2>4, <3>2 DEF Undecided
  <2>5. SentAtLast(m)'
    BY <1>2, <2>1, <2>4 DEF SentAtLast
  <2>6. ASSUME NEW i \in 1..Len(wire'), CopyAt(m, i)'
        PROVE  i = Len(wire')
    BY <1>0, <1>1, <2>3, <2>6 DEF Sent, CopyAt, CopySent
  <2>7. dlq[m] = <<>> /\ m \notin lostDLQ /\ Len(dlq[m]) = 0
    BY <2>3, EmptySeq DEF CopySent
  <2>8. SentOnce(m)'
    BY <1>2, <2>6, <2>7 DEF SentOnce
  <2> QED
    BY <2>5, <2>8
<1> QED
  BY <1>4, <1>5

LEMMA CopyNext ==
  ASSUME Held, Shape', CopyInv, [Next]_vars, MaxDeliver > 0
  PROVE  CopyInv'
PROOF
<1>0. Shape
  BY DEF Held
<1>1. CASE UNCHANGED <<dlq, lostDLQ>> /\ \E f : CopiesStay(f)
  <2>1. \A m \in Msgs : SentOnce(m)' /\ (CopySent(m)' => CopySent(m))
    BY <1>1, QuietOnce
  <2> QED
    BY <2>1, QuietAtLast DEF CopyInv
<1>2. ASSUME NEW r \in 1..Len(wire), NEW m \in Msgs, Removed(r), CopyAt(m, r),
             \/ dlq' = [dlq EXCEPT ![m] = Append(@, wire[r].num)] /\ UNCHANGED lostDLQ
             \/ lostDLQ' = lostDLQ \union {m} /\ UNCHANGED dlq
      PROVE  CopyInv'
  <2>1. \A n \in Msgs : SentOnce(n)' /\ (CopySent(n)' => CopySent(n))
    BY <1>0, <1>2, CopyLeaves
  <2> QED
    BY <2>1, QuietAtLast DEF CopyInv
<1>3. ASSUME NEW w \in Workers, SendsCopy(w)
      PROVE  CopyInv'
  BY <1>3, CopySends DEF CopyInv
<1> QED
  BY <1>0, <1>1, <1>2, <1>3, CopySteps

LEMMA DLQInvInit == Init => DLQInv
PROOF
<1> SUFFICES ASSUME Init PROVE DLQInv
  OBVIOUS
<1>1. IInv
  BY IInvInit
<1>2. \A i \in 1..Len(wire) : FALSE
  BY EmptySeq DEF Init
<1>3. \A m \in Msgs : ~(dlq[m] # <<>>) /\ m \notin lostDLQ
  BY DEF Init
<1>4. \A m \in Msgs : Len(dlq[m]) <= 1
  <2>1. \A m \in Msgs : dlq[m] = <<>>
    BY DEF Init
  <2>2. Len(<<>>) <= 1
    OBVIOUS
  <2> QED
    BY <2>1, <2>2, Zenon
<1>5. \A m \in Msgs : ~CopySent(m)
  BY <1>2, <1>3, Zenon DEF CopySent
<1>6. CopyInv
  BY <1>2, <1>3, <1>4, <1>5, Zenon DEF CopyInv, SentAtLast, SentOnce
<1> QED
  BY <1>1, <1>6 DEF DLQInv

LEMMA DLQInvNext ==
  ASSUME MaxDeliver > 0
  PROVE  DLQInv /\ [Next]_vars => DLQInv'
PROOF
<1> SUFFICES ASSUME DLQInv, [Next]_vars PROVE DLQInv'
  OBVIOUS
<1>1. IInv /\ CopyInv /\ Held /\ Shape
  BY DEF DLQInv, IInv, Held
<1>2. IInv' /\ Shape'
  BY <1>1, IInvNext, ShapeNext
<1> QED
  BY <1>1, <1>2, CopyNext DEF DLQInv

\* The inductive invariant holds for a route with a positive MaxDeliver: a copy is sent
\* only for the last delivery, and then no place holds that delivery any more to send
\* another (consumer/consumer.go:206-242).
THEOREM DLQInvariant ==
  ASSUME MaxDeliver > 0
  PROVE  Spec => []DLQInv
PROOF
<1>1. DLQInv /\ [Next]_vars => DLQInv'
  BY DLQInvNext
<1> QED
  BY <1>1, DLQInvInit, PTL DEF Spec

\* A message reaches the DLQ subject at most once: the one delivery that may be
\* copied is held in one place, and handled there once.
THEOREM CopiedOnce ==
  ASSUME MaxDeliver > 0
  PROVE  Spec => []DLQAtMostOnce
PROOF
<1>1. DLQInv => DLQAtMostOnce
  BY DEF DLQInv, CopyInv, SentOnce, DLQAtMostOnce
<1> QED
  BY <1>1, DLQInvariant, PTL

\* A message on the DLQ subject has no delivery left.
THEOREM CopiedAtLimit ==
  ASSUME MaxDeliver > 0
  PROVE  Spec => []DLQOnlyAtLimit
PROOF
<1>1. DLQInv => DLQOnlyAtLimit
  BY DEF DLQInv, CopyInv, SentAtLast, CopySent, DLQOnlyAtLimit
<1> QED
  BY <1>1, DLQInvariant, PTL

-----------------------------------------------------------------------------
(* The route implements its contract *)

LEMMA ContractInit ==
  ASSUME MaxDeliver > 0
  PROVE  Init => Contract!Init
PROOF
  BY EmptySeq DEF Init, Contract!Init

\* A step of the server's view: it delivers, gives up, settles, or stutters.
LEMMA ContractNext ==
  ASSUME DLQInv, DLQInv', [Next]_vars, MaxDeliver > 0
  PROVE  [Contract!Next]_(Contract!vars)
PROOF
<1> USE DEF vars, serverVars, clientVars, history
<1>0. /\ Shape /\ Limit = MaxDeliver /\ Limit \in Nat
      /\ srv \in [Msgs -> SrvStates] /\ dc \in [Msgs -> 0..Limit]
      /\ dlq \in [Msgs -> Seq(1..Limit)] /\ handled \in [Msgs -> Nat]
  <2>1. Shape
    BY DEF DLQInv, IInv, Held
  <2>2. Limit = MaxDeliver /\ Limit \in Nat
    BY MaxDeliverAssumption DEF Limit
  <2> QED
    BY <2>1, <2>2 DEF Shape, TypeOK
<1>1. ASSUME UNCHANGED <<dc, dlq, lostDLQ, handled>>,
             \A m \in Msgs : srv'[m] = srv[m]
                             \/ {srv[m], srv'[m]} \subseteq {"new", "pending", "redeliver"}
      PROVE  UNCHANGED Contract!vars
  <2>1. \A m \in Msgs : (IF srv'[m] \in {"acked", "exhausted"} THEN srv'[m] ELSE "open")
                      = (IF srv[m] \in {"acked", "exhausted"} THEN srv[m] ELSE "open")
    BY <1>1
  <2> QED
    BY <1>1, <2>1 DEF Contract!vars
<1>2. ASSUME NEW m \in Msgs, NEW w \in Workers, Deliver(m, w)
      PROVE  Contract!Try(m)
  <2>1. /\ srv[m] \in {"new", "redeliver"} /\ dc[m] < Limit
        /\ srv' = [srv EXCEPT ![m] = "pending"] /\ dc' = [dc EXCEPT ![m] = @ + 1]
        /\ UNCHANGED <<dlq, lostDLQ, handled>>
    BY <1>2 DEF Deliver
  <2>2. [n \in Msgs |-> IF srv'[n] \in {"acked", "exhausted"} THEN srv'[n] ELSE "open"]
      = [n \in Msgs |-> IF srv[n] \in {"acked", "exhausted"} THEN srv[n] ELSE "open"]
    BY <1>0, <2>1
  <2> QED
    BY <2>1, <2>2 DEF Contract!Try
<1>3. ASSUME NEW m \in Msgs, Exhaust(m)
      PROVE  Contract!GiveUp(m)
  <2>1. /\ srv[m] = "redeliver" /\ srv' = [srv EXCEPT ![m] = "exhausted"] /\ dc[m] = Limit
        /\ UNCHANGED <<dc, dlq, lostDLQ, handled>>
    BY <1>0, <1>3 DEF Exhaust
  <2>2. [n \in Msgs |-> IF srv'[n] \in {"acked", "exhausted"} THEN srv'[n] ELSE "open"]
      = [[n \in Msgs |-> IF srv[n] \in {"acked", "exhausted"} THEN srv[n] ELSE "open"]
           EXCEPT ![m] = "exhausted"]
    BY <1>0, <2>1
  <2> QED
    BY <2>1, <2>2 DEF Contract!GiveUp
<1>4. ASSUME NEW m \in Msgs, AckWaitExpires(m)
      PROVE  UNCHANGED Contract!vars
  BY <1>0, <1>1, <1>4 DEF AckWaitExpires
<1>5. ASSUME NEW m \in Msgs, NEW r \in 1..Len(wire), CopyAt(m, r), UNCHANGED <<srv, dc, handled>>,
             \/ dlq' = [dlq EXCEPT ![m] = Append(@, wire[r].num)] /\ UNCHANGED lostDLQ
             \/ lostDLQ' = lostDLQ \union {m} /\ UNCHANGED dlq
      PROVE  Contract!Copy(m)
  <2>1. dc[m] = Limit /\ dlq[m] = <<>> /\ m \notin lostDLQ /\ Len(dlq[m]) = 0
    BY <1>0, <1>5, EmptySeq DEF DLQInv, CopyInv, SentAtLast, SentOnce, CopySent
  <2>2. CASE lostDLQ' = lostDLQ \union {m} /\ UNCHANGED dlq
    BY <1>5, <2>1, <2>2 DEF Contract!Copy
  <2>3. CASE dlq' = [dlq EXCEPT ![m] = Append(@, wire[r].num)] /\ UNCHANGED lostDLQ
    <3>1. wire[r].num \in 1..Limit
      BY <1>0, WireFacts
    <3>2. dlq'[m] = Append(dlq[m], wire[r].num)
      BY <1>0, <2>3
    <3>3. Len(dlq'[m]) = 1
      BY <1>0, <2>1, <3>1, <3>2, AppendProperties
    <3>4. [n \in Msgs |-> Len(dlq'[n])] = [[n \in Msgs |-> Len(dlq[n])] EXCEPT ![m] = 1]
      BY <1>0, <2>3, <3>3
    <3> QED
      BY <1>5, <2>1, <2>3, <3>4 DEF Contract!Copy
  <2> QED
    BY <1>5, <2>2, <2>3
<1>6. ASSUME ServerReceive
      PROVE  [\E m \in Msgs : Contract!Acknowledge(m) \/ Contract!Copy(m)]_(Contract!vars)
  <2>1. Head(wire) = wire[1] /\ 1 \in 1..Len(wire) /\ wire[1].msg \in Msgs
    BY <1>0, <1>6, ReceiveRemoves, WireFacts DEF Removed
  <2>2. PICK m \in Msgs : m = wire[1].msg
    BY <2>1
  <2>3. CASE /\ wire[1].op = "ack"
             /\ srv' = [srv EXCEPT ![m] = IF @ \in {"pending", "redeliver"} THEN "acked" ELSE @]
             /\ UNCHANGED <<dc, dlq, lostDLQ, handled>>
    <3>1. CASE srv[m] \in {"pending", "redeliver"}
      <4>1. srv' = [srv EXCEPT ![m] = "acked"]
        BY <1>0, <2>3, <3>1
      <4>2. [n \in Msgs |-> IF srv'[n] \in {"acked", "exhausted"} THEN srv'[n] ELSE "open"]
          = [[n \in Msgs |-> IF srv[n] \in {"acked", "exhausted"} THEN srv[n] ELSE "open"]
               EXCEPT ![m] = "acked"]
        BY <1>0, <4>1
      <4>3. HasOutcome(m) \/ m \in lostDLQ
        <5>1. Vouched(m, 1)
          BY <2>1, <2>2, <2>3 DEF DLQInv, IInv, AcksVouched
        <5> QED
          BY <2>3, <5>1 DEF Vouched, CopyAhead
      <4>4. dlq[m] # <<>> => Len(dlq[m]) > 0
        BY <1>0, EmptySeq, LenProperties
      <4>5. Contract!Acknowledge(m)
        BY <2>3, <3>1, <4>2, <4>3, <4>4 DEF Contract!Acknowledge, HasOutcome
      <4> QED
        BY <4>5
    <3>2. CASE srv[m] \notin {"pending", "redeliver"}
      <4>1. srv' = srv
        BY <1>0, <2>3, <3>2
      <4> QED
        BY <1>1, <2>3, <4>1
    <3> QED
      BY <3>1, <3>2
  <2>4. CASE /\ srv' = [srv EXCEPT ![m] = IF @ = "pending" THEN "redeliver" ELSE @]
             /\ UNCHANGED <<dc, dlq, lostDLQ, handled>>
    <3>1. \A n \in Msgs : srv'[n] = srv[n]
                          \/ {srv[n], srv'[n]} \subseteq {"new", "pending", "redeliver"}
      BY <1>0, <2>4
    <3> QED
      BY <1>1, <2>4, <3>1
  <2>5. CASE /\ wire[1].op = "dlq" /\ dlq' = [dlq EXCEPT ![m] = Append(@, wire[1].num)]
             /\ UNCHANGED <<srv, dc, lostDLQ, handled>>
    <3>1. CopyAt(m, 1)
      BY <2>2, <2>5 DEF CopyAt
    <3>2. Contract!Copy(m)
      BY <1>5, <2>1, <2>5, <3>1
    <3> QED
      BY <3>2
  <2> QED
    BY <1>6, <2>1, <2>2, <2>3, <2>4, <2>5 DEF ServerReceive
<1>7. ASSUME NEW i \in 1..Len(wire), LosePacket(i)
      PROVE  [\E m \in Msgs : Contract!Copy(m)]_(Contract!vars)
  <2>1. CASE wire[i].op # "dlq"
    BY <1>1, <1>7, <2>1 DEF LosePacket
  <2>2. CASE wire[i].op = "dlq"
    <3>1. PICK m \in Msgs : m = wire[i].msg
      BY <1>0, WireFacts
    <3>2. CopyAt(m, i) /\ lostDLQ' = lostDLQ \union {m} /\ UNCHANGED <<srv, dc, dlq, handled>>
      BY <1>7, <2>2, <3>1 DEF CopyAt, LosePacket
    <3>3. Contract!Copy(m)
      BY <1>5, <3>2
    <3> QED
      BY <3>3
  <2> QED
    BY <2>1, <2>2
<1>8. ASSUME NEW w \in Workers, HandlerSucceeds(w)
      PROVE  \E m \in Msgs : Contract!Handle(m)
  <2>0. pc[w] = "handling" /\ handled' = [handled EXCEPT ![job[w].msg] = @ + 1]
        /\ UNCHANGED <<srv, dc, dlq, lostDLQ>>
    BY <1>8 DEF HandlerSucceeds
  <2>1. PICK m \in Msgs : m = job[w].msg /\ job[w].num \in 1..Limit
    BY <1>0, <2>0, PacketFacts
  <2>2. dc[m] > 0
    <3>1. Len(buf[w]) \in Nat /\ 0 \in 0..Len(buf[w])
      BY <1>0, PlaceFacts
    <3>2. Place(w, 0) = job[w] /\ job[w] # NoJob
      BY <1>0, <2>0 DEF Place, Shape, JobShape
    <3>3. job[w].num <= dc[job[w].msg]
      BY <3>1, <3>2 DEF DLQInv, IInv, Held, Counted
    <3> QED
      BY <1>0, <2>1, <3>3
  <2>3. {n \in Msgs : handled'[n] > 0} = {n \in Msgs : handled[n] > 0} \union {m}
    BY <1>0, <2>0, <2>1
  <2>4. Contract!Handle(m)
    BY <2>0, <2>2, <2>3 DEF Contract!Handle
  <2> QED
    BY <2>4
<1>9. ASSUME NEW w \in Workers, Callback(w), ~HandlerSucceeds(w)
      PROVE  UNCHANGED Contract!vars
  <2>1. UNCHANGED <<srv, dc, dlq, lostDLQ, handled>>
    BY <1>9 DEF Callback, HandlerFails, HandlerPanics, Ack, NakError, PublishToDLQ
  <2> QED
    BY <1>1, <2>1
<1>10. ASSUME NEW w \in Workers, StartJetStream(w) \/ StopConsume(w) \/ Receive(w)
       PROVE  UNCHANGED Contract!vars
  <2>1. UNCHANGED <<srv, dc, dlq, lostDLQ, handled>>
    BY <1>10 DEF StartJetStream, StopConsume, Receive
  <2> QED
    BY <1>1, <2>1
<1>11. ASSUME Crash \/ UNCHANGED vars
       PROVE  UNCHANGED Contract!vars
  <2>1. UNCHANGED <<srv, dc, dlq, lostDLQ, handled>>
    BY <1>11 DEF Crash
  <2> QED
    BY <1>1, <2>1
<1> HIDE DEF vars
<1> QED
  BY <1>2, <1>3, <1>4, <1>6, <1>7, <1>8, <1>9, <1>10, <1>11
     DEF Next, Finished, Callback, Contract!Next

\* A route with a positive MaxDeliver implements Delivery: whatever goes wrong, a step
\* of the server, a worker or the connection is one the contract allows, or none.
THEOREM ContractHolds ==
  ASSUME MaxDeliver > 0
  PROVE  Spec => ImplementsDelivery
PROOF
<1>1. Init => Contract!Init
  BY ContractInit
<1>2. DLQInv /\ DLQInv' /\ [Next]_vars => [Contract!Next]_(Contract!vars)
  BY ContractNext
<1>3. Spec => []DLQInv
  BY DLQInvariant
<1> QED
  BY <1>1, <1>2, <1>3, PTL DEF Spec, ImplementsDelivery, Contract!Spec

=============================================================================
