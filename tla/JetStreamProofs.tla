-------------------------- MODULE JetStreamProofs --------------------------
(***************************************************************************)
(* Proofs about JetStreamConsumer for any messages, any workers, any sets  *)
(* of faults and any MaxDeliver: a delivery is in one place of the client  *)
(* (Held), and what is acknowledged has an outcome, or its copy for the    *)
(* DLQ subject is ahead of the Ack on the wire (AcksVouched).              *)
(***************************************************************************)
EXTENDS JetStreamConsumer, SequenceTheorems, TLAPS

-----------------------------------------------------------------------------
(* Sequences: what the steps do to the wire and to a buffer *)

\* A connection that dies has sent a prefix.
LEMMA PrefixFacts ==
  ASSUME NEW S, NEW s \in Seq(S), NEW n \in 0..Len(s)
  PROVE  /\ SubSeq(s, 1, n) \in Seq(S)
         /\ Len(SubSeq(s, 1, n)) = n
         /\ \A j \in 1..n : SubSeq(s, 1, n)[j] = s[j]
PROOF
<1>1. Len(s) \in Nat /\ \A j \in 1..Len(s) : s[j] \in S
  BY LenProperties, ElementOfSeq
<1>2. \A j \in 1..n : s[j] \in S
  BY <1>1
<1> QED
  BY <1>1, <1>2, SubSeqProperties

\* A connection that loses its i-th packet keeps the others in order.
LEMMA DropFacts ==
  ASSUME NEW S, NEW s \in Seq(S), NEW i \in 1..Len(s)
  PROVE  LET t == SubSeq(s, 1, i - 1) \o SubSeq(s, i + 1, Len(s))
         IN  /\ t \in Seq(S) /\ Len(t) = Len(s) - 1
             /\ \A j \in 1..Len(t) : t[j] = IF j < i THEN s[j] ELSE s[j + 1]
PROOF
<1>1. Len(s) \in Nat /\ \A j \in 1..Len(s) : s[j] \in S
  BY LenProperties, ElementOfSeq
<1> DEFINE a == SubSeq(s, 1, i - 1)
           b == SubSeq(s, i + 1, Len(s))
<1>2. /\ a \in Seq(S) /\ Len(a) = i - 1
      /\ \A j \in 1..Len(a) : a[j] = s[j]
  BY <1>1, PrefixFacts
<1>3. /\ b \in Seq(S) /\ Len(b) = Len(s) - i
      /\ \A j \in 1..Len(b) : b[j] = s[i + j]
  <2>1. \A j \in (i + 1)..Len(s) : s[j] \in S
    BY <1>1
  <2>2. /\ b \in Seq(S)
        /\ Len(b) = IF i + 1 <= Len(s) THEN Len(s) - (i + 1) + 1 ELSE 0
        /\ \A j \in 1..(Len(s) - (i + 1) + 1) : b[j] = s[(i + 1) + j - 1]
    BY <1>1, <2>1, SubSeqProperties
  <2> QED
    BY <1>1, <2>2
<1> HIDE DEF a, b
<1>4. Len(a) \in Nat /\ Len(b) \in Nat /\ i \in Int
  BY <1>2, <1>3, LenProperties
<1>5. /\ a \o b \in Seq(S) /\ Len(a \o b) = Len(a) + Len(b)
      /\ \A j \in 1..(Len(a) + Len(b)) :
           (a \o b)[j] = IF j <= Len(a) THEN a[j] ELSE b[j - Len(a)]
  BY <1>2, <1>3, ConcatProperties
<1>6. Len(a \o b) = Len(s) - 1
  BY <1>1, <1>2, <1>3, <1>4, <1>5
<1>7. ASSUME NEW j \in 1..Len(a \o b)
      PROVE  (a \o b)[j] = IF j < i THEN s[j] ELSE s[j + 1]
  <2>1. j \in Int /\ j \in 1..(Len(a) + Len(b))
    BY <1>4, <1>5
  <2>2. CASE j < i
    BY <1>2, <1>4, <1>5, <2>1, <2>2
  <2>3. CASE ~(j < i)
    <3>1. /\ j - Len(a) \in 1..Len(b) /\ i + (j - Len(a)) = j + 1
          /\ ~(j <= Len(a))
      BY <1>2, <1>3, <1>4, <2>1, <2>3
    <3> QED
      BY <1>3, <1>5, <2>1, <2>3, <3>1
  <2> QED
    BY <2>2, <2>3
<1> QED
  BY <1>5, <1>6, <1>7, Zenon DEF a, b

-----------------------------------------------------------------------------
(* Type correctness *)

LEMMA LimitFacts == Limit \in Nat /\ (MaxDeliver > 0 => Limit = MaxDeliver)
PROOF
  BY MaxDeliverAssumption, BoundsAssumption DEF Limit

\* No delivery looks like NoJob.
LEMMA NoJobFacts == \A d \in Deliveries : d # NoJob /\ d.num \in 1..Limit /\ d.msg \in Msgs
PROOF
  BY LimitFacts DEF Deliveries, NoJob

\* A callback works on a delivery exactly while it has not returned.
JobShape == \A w \in Workers : pc[w] = "idle" <=> job[w] = NoJob

Shape == TypeOK /\ JobShape

LEMMA ShapeInit == Init => Shape
PROOF
  BY LimitFacts, EmptySeq DEF Init, Shape, TypeOK, JobShape, SrvStates, CallbackPcs

\* What the callback sends is a packet.
LEMMA PacketFacts ==
  ASSUME Shape, NEW w \in Workers, pc[w] # "idle"
  PROVE  /\ job[w] \in Deliveries /\ job[w].msg \in Msgs /\ job[w].num \in 1..Limit
         /\ \A op \in {"ack", "nak", "dlq"} :
              /\ Packet(op, w) \in Packets
              /\ Append(wire, Packet(op, w)) \in Seq(Packets)
PROOF
<1>1. job[w] \in Deliveries
  BY DEF Shape, TypeOK, JobShape
<1>2. job[w].msg \in Msgs /\ job[w].num \in 1..Limit
  BY <1>1, NoJobFacts
<1>3. \A op \in {"ack", "nak", "dlq"} : Packet(op, w) \in Packets
  BY <1>2 DEF Packet, Packets
<1>4. wire \in Seq(Packets)
  BY DEF Shape, TypeOK
<1> QED
  BY <1>1, <1>2, <1>3, <1>4, AppendProperties

LEMMA ShapeCallback ==
  ASSUME Shape, NEW w \in Workers, Callback(w)
  PROVE  Shape'
PROOF
<1> USE DEF vars, serverVars, clientVars, history
<1>0. pc[w] # "idle"
  BY DEF Callback, HandlerSucceeds, HandlerFails, HandlerPanics, Ack, NakError,
         PublishToDLQ
<1>1. /\ job[w].msg \in Msgs /\ wire \in Seq(Packets)
      /\ \A op \in {"ack", "nak", "dlq"} : Append(wire, Packet(op, w)) \in Seq(Packets)
      /\ job[w] # NoJob
  BY <1>0, PacketFacts, NoJobFacts DEF Shape, TypeOK
<1>2. wire' \in Seq(Packets)
  BY <1>1 DEF Callback, HandlerSucceeds, HandlerFails, HandlerPanics, Ack,
         NakError, PublishToDLQ, Send
<1>3. /\ pc' \in [Workers -> CallbackPcs]
      /\ job' \in [Workers -> Deliveries \union {NoJob}]
      /\ JobShape'
  BY <1>1 DEF Callback, HandlerSucceeds, HandlerFails, HandlerPanics, Ack,
         NakError, PublishToDLQ, Return, Shape, TypeOK, JobShape, CallbackPcs
<1>4. handled' \in [Msgs -> Nat]
  <2>1. \/ handled' = [handled EXCEPT ![job[w].msg] = @ + 1]
        \/ handled' = handled
    BY DEF Callback, HandlerSucceeds, HandlerFails, HandlerPanics, Ack,
           NakError, PublishToDLQ
  <2>2. handled \in [Msgs -> Nat] /\ job[w].msg \in Msgs
    BY <1>1 DEF Shape, TypeOK
  <2>3. [handled EXCEPT ![job[w].msg] = @ + 1] \in [Msgs -> Nat]
    BY <2>2
  <2> QED
    BY <2>1, <2>2, <2>3
<1>5. UNCHANGED <<serverVars, active, buf, faults, lostDLQ>>
  BY DEF Callback, HandlerSucceeds, HandlerFails, HandlerPanics, Ack,
         NakError, PublishToDLQ
<1> QED
  BY <1>2, <1>3, <1>4, <1>5 DEF Shape, TypeOK

LEMMA ShapeNext == Shape /\ [Next]_vars => Shape'
PROOF
<1> SUFFICES ASSUME Shape, [Next]_vars PROVE Shape'
  OBVIOUS
<1> USE DEF vars, serverVars, clientVars, history, Shape
<1>0. /\ Limit \in Nat
      /\ wire \in Seq(Packets)
      /\ \A m \in Msgs : dc[m] \in 0..Limit /\ dlq[m] \in Seq(1..Limit)
      /\ \A w \in Workers : buf[w] \in Seq(Deliveries)
      /\ \A i \in 1..Len(wire) : wire[i] \in Packets
  BY LimitFacts, ElementOfSeq DEF TypeOK
<1>1. ASSUME NEW m \in Msgs, NEW w \in Workers, Deliver(m, w)
      PROVE  Shape'
  <2>1. [msg |-> m, num |-> dc[m] + 1] \in Deliveries /\ dc[m] + 1 \in 0..Limit
    BY <1>0, <1>1 DEF Deliver, Deliveries
  <2>2. Append(buf[w], [msg |-> m, num |-> dc[m] + 1]) \in Seq(Deliveries)
    BY <1>0, <2>1, AppendProperties
  <2>3. buf' \in [Workers -> Seq(Deliveries)]
    BY <1>1, <2>2 DEF Deliver, TypeOK
  <2> QED
    BY <1>1, <2>1, <2>3 DEF Deliver, TypeOK, SrvStates, JobShape
<1>2. ASSUME NEW m \in Msgs, Exhaust(m) \/ AckWaitExpires(m)
      PROVE  Shape'
  BY <1>2 DEF Exhaust, AckWaitExpires, TypeOK, SrvStates, JobShape
<1>3. CASE ServerReceive
  <2>1. /\ Head(wire) \in Packets /\ Tail(wire) \in Seq(Packets)
    BY <1>0, <1>3, HeadTailProperties DEF ServerReceive
  <2>2. Head(wire).msg \in Msgs /\ Head(wire).num \in 1..Limit
    BY <2>1 DEF Packets
  <2>3. srv' \in [Msgs -> SrvStates]
    BY <1>3 DEF ServerReceive, TypeOK, SrvStates
  <2>4. Append(dlq[Head(wire).msg], Head(wire).num) \in Seq(1..Limit)
    BY <1>0, <2>2, AppendProperties
  <2>5. dlq' \in [Msgs -> Seq(1..Limit)]
    BY <1>3, <2>4 DEF ServerReceive, TypeOK
  <2> QED
    BY <1>3, <2>1, <2>3, <2>5 DEF ServerReceive, TypeOK, JobShape
<1>4. ASSUME NEW i \in 1..Len(wire), LosePacket(i)
      PROVE  Shape'
  <2>1. wire' \in Seq(Packets)
    BY <1>0, <1>4, DropFacts DEF LosePacket
  <2>2. wire[i].msg \in Msgs
    BY <1>0 DEF Packets
  <2> QED
    BY <1>4, <2>1, <2>2 DEF LosePacket, TypeOK, JobShape
<1>5. ASSUME NEW w \in Workers, StartJetStream(w) \/ StopConsume(w)
      PROVE  Shape'
  <2>1. << >> \in Seq(Deliveries)
    BY EmptySeq
  <2>2. buf' \in [Workers -> Seq(Deliveries)] /\ active' \in [Workers -> BOOLEAN]
    BY <1>5, <2>1 DEF StartJetStream, StopConsume, TypeOK
  <2> QED
    BY <1>5, <2>2 DEF StartJetStream, StopConsume, TypeOK, JobShape
<1>6. ASSUME NEW w \in Workers, Receive(w)
      PROVE  Shape'
  <2>1. /\ Head(buf[w]) \in Deliveries /\ Tail(buf[w]) \in Seq(Deliveries)
    BY <1>0, <1>6, HeadTailProperties DEF Receive
  <2> QED
    BY <1>6, <2>1, NoJobFacts DEF Receive, TypeOK, CallbackPcs, JobShape
<1>7. ASSUME NEW w \in Workers, Callback(w)
      PROVE  Shape'
  BY <1>7, ShapeCallback
<1>8. CASE Crash
  <2>1. wire' \in Seq(Packets)
    BY <1>0, <1>8, PrefixFacts DEF Crash
  <2>2. << >> \in Seq(Deliveries)
    BY EmptySeq
  <2> QED
    BY <1>8, <2>1, <2>2 DEF Crash, TypeOK, JobShape, CallbackPcs
<1>9. CASE UNCHANGED vars
  BY <1>9 DEF TypeOK, JobShape
<1> QED
  BY <1>1, <1>2, <1>3, <1>4, <1>5, <1>6, <1>7, <1>8, <1>9 DEF Next, Finished

\* Every variable keeps its type; the server counts no delivery beyond MaxDeliver and
\* the callback works on a delivery (consumer/consumer.go:183-224).
THEOREM TypeCorrect == Spec => []TypeOK
PROOF
<1>1. Shape => TypeOK
  BY DEF Shape
<1> QED
  BY <1>1, ShapeInit, ShapeNext, PTL DEF Spec

-----------------------------------------------------------------------------
(* A delivery is held in one place *)

\* The places of a consume context: 0 is its callback, the others its buffer.
Place(w, i) == IF i = 0 THEN job[w] ELSE buf[w][i]

\* No delivery is in two places.
HeldOnce ==
  \A v, w \in Workers : \A i \in 0..Len(buf[v]), j \in 0..Len(buf[w]) :
    Place(v, i) = Place(w, j) /\ Place(v, i) # NoJob => v = w /\ i = j

\* The server has counted every delivery.
Counted ==
  \A w \in Workers : \A i \in 0..Len(buf[w]) :
    Place(w, i) # NoJob => Place(w, i).num <= dc[Place(w, i).msg]

Held == Shape /\ HeldOnce /\ Counted

\* What is in a place after the step was k[w] places behind it, or is new to none.
Shifted(k) ==
  \A w \in Workers : \A i \in 0..Len(buf'[w]) :
    \/ Place(w, i)' = NoJob
    \/ i + k[w] \in 0..Len(buf[w]) /\ Place(w, i)' = Place(w, i + k[w])

LEMMA PlaceFacts ==
  ASSUME Shape, NEW w \in Workers
  PROVE  /\ Len(buf[w]) \in Nat /\ buf[w] \in Seq(Deliveries)
         /\ \A i \in 0..Len(buf[w]) : Place(w, i) \in Deliveries \union {NoJob}
         /\ \A i \in 1..Len(buf[w]) : Place(w, i) \in Deliveries
PROOF
<1>1. buf[w] \in Seq(Deliveries) /\ job[w] \in Deliveries \union {NoJob}
  BY DEF Shape, TypeOK
<1>2. Len(buf[w]) \in Nat /\ \A i \in 1..Len(buf[w]) : buf[w][i] \in Deliveries
  BY <1>1, LenProperties, ElementOfSeq
<1> QED
  BY <1>1, <1>2 DEF Place

\* A shift keeps deliveries apart.
LEMMA ShiftKeeps ==
  ASSUME Held, NEW k \in [Workers -> {0, 1}], Shifted(k), dc' = dc, Shape'
  PROVE  HeldOnce' /\ Counted'
PROOF
<1>1. ASSUME NEW v \in Workers, NEW w \in Workers,
             NEW i \in 0..Len(buf'[v]), NEW j \in 0..Len(buf'[w]),
             Place(v, i)' = Place(w, j)', Place(v, i)' # NoJob
      PROVE  v = w /\ i = j
  <2>1. /\ i + k[v] \in 0..Len(buf[v]) /\ Place(v, i)' = Place(v, i + k[v])
        /\ j + k[w] \in 0..Len(buf[w]) /\ Place(w, j)' = Place(w, j + k[w])
    BY <1>1 DEF Shifted
  <2>2. v = w /\ i + k[v] = j + k[w]
    BY <1>1, <2>1 DEF Held, HeldOnce
  <2>3. Len(buf'[v]) \in Nat /\ i \in Int /\ j \in Int /\ k[v] \in Int
    BY PlaceFacts
  <2> QED
    BY <2>2, <2>3
<1>2. ASSUME NEW w \in Workers, NEW i \in 0..Len(buf'[w]), Place(w, i)' # NoJob
      PROVE  Place(w, i)'.num <= dc'[Place(w, i)'.msg]
  <2>1. i + k[w] \in 0..Len(buf[w]) /\ Place(w, i)' = Place(w, i + k[w])
    BY <1>2 DEF Shifted
  <2> QED
    BY <1>2, <2>1 DEF Held, Counted
<1> QED
  BY <1>1, <1>2 DEF HeldOnce, Counted

\* Whoever leaves the buffers alone and at most ends callbacks shifts by nothing.
LEMMA StillShift ==
  ASSUME Shape, UNCHANGED buf,
         \A w \in Workers : job'[w] \in {job[w], NoJob}
  PROVE  Shifted([w \in Workers |-> 0])
PROOF
<1>1. ASSUME NEW w \in Workers, NEW i \in 0..Len(buf'[w])
      PROVE  Place(w, i)' \in {Place(w, i), NoJob} /\ i + 0 = i /\ i \in 0..Len(buf[w])
  BY <1>1, PlaceFacts DEF Place
<1> QED
  BY <1>1 DEF Shifted

LEMMA StopShift ==
  ASSUME Shape, NEW w \in Workers, StopConsume(w)
  PROVE  Shifted([v \in Workers |-> 0])
PROOF
<1>1. ASSUME NEW v \in Workers, NEW i \in 0..Len(buf'[v])
      PROVE  Place(v, i)' = Place(v, i) /\ i + 0 = i /\ i \in 0..Len(buf[v])
  <2>1. CASE v = w
    <3>1. Len(buf'[v]) = 0 /\ Len(buf[v]) \in Nat
      BY <2>1, PlaceFacts, EmptySeq DEF StopConsume, Shape, TypeOK
    <3> QED
      BY <3>1 DEF Place, StopConsume, Shape, TypeOK
  <2>2. CASE v # w
    BY <2>2, PlaceFacts DEF Place, StopConsume, Shape, TypeOK
  <2> QED
    BY <2>1, <2>2
<1> QED
  BY <1>1 DEF Shifted

LEMMA CrashShift ==
  ASSUME Shape, Crash
  PROVE  Shifted([v \in Workers |-> 0])
PROOF
<1>1. ASSUME NEW v \in Workers, NEW i \in 0..Len(buf'[v])
      PROVE  Place(v, i)' = NoJob
  <2>1. Len(buf'[v]) = 0
    BY EmptySeq DEF Crash
  <2> QED
    BY <2>1 DEF Place, Crash
<1> QED
  BY <1>1 DEF Shifted

LEMMA ReceiveShift ==
  ASSUME Shape, NEW w \in Workers, Receive(w)
  PROVE  Shifted([v \in Workers |-> IF v = w THEN 1 ELSE 0])
PROOF
<1> DEFINE k == [v \in Workers |-> IF v = w THEN 1 ELSE 0]
<1>1. ASSUME NEW v \in Workers, NEW i \in 0..Len(buf'[v])
      PROVE  Place(v, i)' = Place(v, i + k[v]) /\ i + k[v] \in 0..Len(buf[v])
  <2>1. CASE v = w
    <3>1. /\ buf'[w] = Tail(buf[w]) /\ job'[w] = Head(buf[w])
          /\ buf[w] # <<>> /\ buf[w] \in Seq(Deliveries)
      BY DEF Receive, Shape, TypeOK
    <3>2. /\ Len(buf'[w]) = Len(buf[w]) - 1 /\ Len(buf[w]) \in Nat
          /\ \A j \in 1..Len(buf'[w]) : buf'[w][j] = buf[w][j + 1]
          /\ job'[w] = buf[w][1]
      BY <3>1, HeadTailProperties, PlaceFacts
    <3>3. i \in Int /\ k[v] = 1 /\ i + 1 \in 1..Len(buf[w])
      BY <1>1, <2>1, <3>2
    <3> QED
      BY <2>1, <3>2, <3>3 DEF Place
  <2>2. CASE v # w
    BY <2>2, PlaceFacts DEF Place, Receive, Shape, TypeOK
  <2> QED
    BY <2>1, <2>2
<1> QED
  BY <1>1 DEF Shifted

\* A new delivery is the last in its buffer; its number is a new one.
LEMMA DeliverPlaces ==
  ASSUME Shape, NEW m \in Msgs, NEW w \in Workers, Deliver(m, w)
  PROVE  /\ \A v \in Workers \ {w} : Len(buf'[v]) = Len(buf[v])
         /\ Len(buf'[w]) = Len(buf[w]) + 1
         /\ \A v \in Workers : \A i \in 0..Len(buf[v]) : Place(v, i)' = Place(v, i)
         /\ \A i : i = Len(buf[w]) + 1 => Place(w, i)' = [msg |-> m, num |-> dc[m] + 1]
PROOF
<1>1. buf[w] \in Seq(Deliveries) /\ dc[m] \in 0..Limit /\ dc[m] < Limit /\ Limit \in Nat
  BY LimitFacts DEF Deliver, Shape, TypeOK
<1>2. [msg |-> m, num |-> dc[m] + 1] \in Deliveries
  BY <1>1 DEF Deliveries
<1>3. buf'[w] = Append(buf[w], [msg |-> m, num |-> dc[m] + 1])
  BY DEF Deliver, Shape, TypeOK
<1>4. /\ Len(buf'[w]) = Len(buf[w]) + 1 /\ Len(buf[w]) \in Nat
      /\ \A i \in 1..Len(buf[w]) : buf'[w][i] = buf[w][i]
      /\ buf'[w][Len(buf[w]) + 1] = [msg |-> m, num |-> dc[m] + 1]
  BY <1>1, <1>2, <1>3, AppendProperties, PlaceFacts
<1>5. \A v \in Workers \ {w} : buf'[v] = buf[v]
  BY DEF Deliver, Shape, TypeOK
<1>6. ASSUME NEW v \in Workers, NEW i \in 0..Len(buf[v])
      PROVE  Place(v, i)' = Place(v, i)
  <2>1. Len(buf[v]) \in Nat /\ job' = job
    BY PlaceFacts DEF Deliver
  <2> QED
    BY <1>4, <1>5, <2>1 DEF Place
<1>7. ASSUME NEW i, i = Len(buf[w]) + 1
      PROVE  Place(w, i)' = [msg |-> m, num |-> dc[m] + 1]
  BY <1>4, <1>7 DEF Place
<1> QED
  BY <1>4, <1>5, <1>6, <1>7

LEMMA DeliverHeld ==
  ASSUME Held, Shape', NEW m \in Msgs, NEW w \in Workers, Deliver(m, w)
  PROVE  HeldOnce' /\ Counted'
PROOF
<1> DEFINE new == [msg |-> m, num |-> dc[m] + 1]
           at  == Len(buf[w]) + 1
<1>0. /\ Len(buf[w]) \in Nat /\ dc[m] \in Nat /\ new # NoJob
      /\ dc' = [dc EXCEPT ![m] = @ + 1] /\ dc \in [Msgs -> 0..Limit] /\ Limit \in Nat
  BY PlaceFacts, LimitFacts DEF Held, Shape, TypeOK, Deliver, NoJob
<1>1. ASSUME NEW v \in Workers, NEW i \in 0..Len(buf'[v])
      PROVE  \/ i \in 0..Len(buf[v]) /\ Place(v, i)' = Place(v, i)
             \/ v = w /\ i = at /\ Place(v, i)' = new
  <2>1. Len(buf[v]) \in Nat
    BY PlaceFacts DEF Held
  <2>2. CASE v = w
    BY <1>0, <1>1, <2>2, DeliverPlaces DEF Held
  <2>3. CASE v # w
    BY <1>1, <2>3, DeliverPlaces DEF Held
  <2> QED
    BY <2>2, <2>3
<1>2. ASSUME NEW v \in Workers, NEW i \in 0..Len(buf[v])
      PROVE  Place(v, i) # new /\ (Place(v, i) # NoJob => Place(v, i).num <= dc'[Place(v, i).msg])
  <2>1. CASE Place(v, i) = NoJob
    BY <1>0, <2>1
  <2>2. CASE Place(v, i) # NoJob
    <3>1. Place(v, i) \in Deliveries
      <4>1. Shape
        BY DEF Held
      <4>2. Place(v, i) \in Deliveries \union {NoJob}
        BY <4>1, PlaceFacts
      <4> QED
        BY <2>2, <4>2
    <3>2. Place(v, i).msg \in Msgs /\ Place(v, i).num \in 1..Limit
      BY <3>1, NoJobFacts
    <3>3. Place(v, i).num <= dc[Place(v, i).msg]
      BY <2>2 DEF Held, Counted
    <3> QED
      BY <1>0, <2>2, <3>2, <3>3
  <2> QED
    BY <2>1, <2>2
<1> HIDE DEF new, at
<1>3. ASSUME NEW v \in Workers, NEW u \in Workers,
             NEW i \in 0..Len(buf'[v]), NEW j \in 0..Len(buf'[u]),
             Place(v, i)' = Place(u, j)', Place(v, i)' # NoJob
      PROVE  v = u /\ i = j
  <2>1. CASE i \in 0..Len(buf[v]) /\ Place(v, i)' = Place(v, i)
    <3>1. j \in 0..Len(buf[u]) /\ Place(u, j)' = Place(u, j)
      BY <1>1, <1>2, <1>3, <2>1
    <3>2. Place(v, i) = Place(u, j) /\ Place(v, i) # NoJob
      BY <1>3, <2>1, <3>1
    <3> QED
      BY <2>1, <3>1, <3>2 DEF Held, HeldOnce
  <2>2. CASE v = w /\ i = at /\ Place(v, i)' = new
    <3>1. u = w /\ j = at
      BY <1>1, <1>2, <1>3, <2>2
    <3> QED
      BY <2>2, <3>1
  <2> QED
    BY <1>1, <2>1, <2>2
<1>4. ASSUME NEW v \in Workers, NEW i \in 0..Len(buf'[v]), Place(v, i)' # NoJob
      PROVE  Place(v, i)'.num <= dc'[Place(v, i)'.msg]
  <2>1. new.num <= dc'[new.msg]
    BY <1>0 DEF new
  <2> QED
    BY <1>1, <1>2, <1>4, <2>1
<1> QED
  BY <1>3, <1>4 DEF HeldOnce, Counted

\* The callback sends packets and ends; it takes nothing up.
LEMMA CallbackPlaces ==
  ASSUME NEW w \in Workers, Shape, Callback(w)
  PROVE  /\ UNCHANGED <<srv, dc, dlq, active, buf, faults, lostDLQ>>
         /\ \A v \in Workers : job'[v] \in {job[v], NoJob}
PROOF
  BY DEF Callback, HandlerSucceeds, HandlerFails, HandlerPanics, Ack, NakError,
         PublishToDLQ, Return, serverVars, history, Shape, TypeOK

\* A step delivers, or shifts.
LEMMA NextShifts ==
  ASSUME Shape, [Next]_vars
  PROVE  \/ \E m \in Msgs, w \in Workers : Deliver(m, w)
         \/ dc' = dc /\ \E k \in [Workers -> {0, 1}] : Shifted(k)
PROOF
<1> DEFINE still == [w \in Workers |-> 0]
<1>1. still \in [Workers -> {0, 1}]
  OBVIOUS
<1> HIDE DEF still
<1> DEFINE Goal == dc' = dc /\ \E k \in [Workers -> {0, 1}] : Shifted(k)
<1>2. ASSUME UNCHANGED buf, UNCHANGED dc,
             \A w \in Workers : job'[w] \in {job[w], NoJob}
      PROVE  Goal
  <2>1. Shifted(still)
    BY <1>2, StillShift DEF still
  <2> QED
    BY <1>1, <1>2, <2>1
<1> HIDE DEF Goal
<1>4. ASSUME NEW m \in Msgs, Exhaust(m) \/ AckWaitExpires(m)
      PROVE  Goal
  BY <1>2, <1>4 DEF Exhaust, AckWaitExpires, clientVars
<1>5. ASSUME ServerReceive
      PROVE  Goal
  <2>1. UNCHANGED buf /\ UNCHANGED dc /\ UNCHANGED job
    BY <1>5 DEF ServerReceive, clientVars
  <2> QED
    BY <1>2, <2>1
<1>6. ASSUME NEW i \in 1..Len(wire), LosePacket(i)
      PROVE  Goal
  BY <1>2, <1>6 DEF LosePacket, serverVars, clientVars
<1>7. ASSUME NEW w \in Workers, StartJetStream(w)
      PROVE  Goal
  BY <1>2, <1>7 DEF StartJetStream, serverVars
<1>8. ASSUME NEW w \in Workers, StopConsume(w)
      PROVE  Goal
  <2>1. Shifted(still) /\ dc' = dc
    BY <1>8, StopShift DEF still, StopConsume, serverVars
  <2> QED
    BY <1>1, <2>1 DEF Goal
<1>9. ASSUME NEW w \in Workers, Receive(w)
      PROVE  Goal
  <2> DEFINE k == [v \in Workers |-> IF v = w THEN 1 ELSE 0]
  <2>1. k \in [Workers -> {0, 1}]
    OBVIOUS
  <2>2. Shifted(k) /\ dc' = dc
    BY <1>9, ReceiveShift DEF Receive, serverVars
  <2> HIDE DEF k
  <2> QED
    BY <2>1, <2>2 DEF Goal
<1>10. ASSUME NEW w \in Workers, Callback(w)
       PROVE  Goal
  <2>1. UNCHANGED buf /\ UNCHANGED dc /\ \A v \in Workers : job'[v] \in {job[v], NoJob}
    BY <1>10, CallbackPlaces
  <2> QED
    BY <1>2, <2>1
<1>11. ASSUME Crash
       PROVE  Goal
  <2>1. Shifted(still) /\ dc' = dc
    BY <1>11, CrashShift DEF still, Crash, serverVars
  <2> QED
    BY <1>1, <2>1 DEF Goal
<1>12. ASSUME UNCHANGED vars
       PROVE  Goal
  <2>1. UNCHANGED buf /\ UNCHANGED dc /\ UNCHANGED job
    BY <1>12 DEF vars, serverVars, clientVars
  <2> QED
    BY <1>2, <2>1
<1>13. (\E m \in Msgs, w \in Workers : Deliver(m, w)) \/ Goal
  BY <1>4, <1>5, <1>6, <1>7, <1>8, <1>9, <1>10, <1>11, <1>12 DEF Next, Finished
<1> QED
  BY <1>13 DEF Goal

LEMMA HeldNext == Held /\ [Next]_vars => Held'
PROOF
<1> SUFFICES ASSUME Held, [Next]_vars PROVE Held'
  OBVIOUS
<1>1. Shape /\ Shape'
  BY ShapeNext DEF Held
<1>2. CASE \E m \in Msgs, w \in Workers : Deliver(m, w)
  BY <1>1, <1>2, DeliverHeld DEF Held
<1>3. CASE dc' = dc /\ \E k \in [Workers -> {0, 1}] : Shifted(k)
  BY <1>1, <1>3, ShiftKeeps DEF Held
<1> QED
  BY <1>1, <1>2, <1>3, NextShifts

LEMMA HeldInit == Init => Held
PROOF
<1> SUFFICES ASSUME Init PROVE Held
  OBVIOUS
<1>1. Shape
  BY ShapeInit
<1>2. \A w \in Workers : \A i \in 0..Len(buf[w]) : Place(w, i) = NoJob
  BY EmptySeq DEF Init, Place
<1> QED
  BY <1>1, <1>2 DEF Held, HeldOnce, Counted

-----------------------------------------------------------------------------
(* What the steps do to the wire *)

\* The packet at r has left the wire.
Removed(r) ==
  /\ r \in 1..Len(wire) /\ Len(wire') = Len(wire) - 1
  /\ \A j \in 1..Len(wire') : wire'[j] = IF j < r THEN wire[j] ELSE wire[j + 1]

\* The packet p has been sent.
Sent(p) ==
  /\ Len(wire') = Len(wire) + 1 /\ wire'[Len(wire')] = p
  /\ \A j \in 1..Len(wire) : wire'[j] = wire[j]

LEMMA WireFacts ==
  ASSUME Shape
  PROVE  /\ wire \in Seq(Packets) /\ Len(wire) \in Nat
         /\ \A i \in 1..Len(wire) :
              wire[i] \in Packets /\ wire[i].msg \in Msgs /\ wire[i].num \in 1..Limit
PROOF
<1>1. wire \in Seq(Packets)
  BY DEF Shape, TypeOK
<1>2. \A i \in 1..Len(wire) : wire[i] \in Packets
  BY <1>1, ElementOfSeq
<1>3. \A p \in Packets : p.msg \in Msgs /\ p.num \in 1..Limit
  BY DEF Packets
<1> QED
  BY <1>1, <1>2, <1>3, LenProperties

LEMMA ReceiveRemoves ==
  ASSUME Shape, ServerReceive
  PROVE  Removed(1) /\ Head(wire) = wire[1]
PROOF
<1>1. wire # <<>> /\ wire' = Tail(wire) /\ wire \in Seq(Packets)
  BY DEF ServerReceive, Shape, TypeOK
<1>2. /\ Len(wire') = Len(wire) - 1 /\ Len(wire) \in Nat \ {0}
      /\ \A j \in 1..Len(wire') : wire'[j] = wire[j + 1]
  BY <1>1, HeadTailProperties, EmptySeq, LenProperties
<1>3. Head(wire) = wire[1]
  BY <1>1
<1> QED
  BY <1>2, <1>3 DEF Removed

LEMMA LoseRemoves ==
  ASSUME Shape, NEW i \in 1..Len(wire), LosePacket(i)
  PROVE  Removed(i)
PROOF
<1>1. wire \in Seq(Packets)
  BY DEF Shape, TypeOK
<1>2. wire' = SubSeq(wire, 1, i - 1) \o SubSeq(wire, i + 1, Len(wire))
  BY DEF LosePacket
<1>3. /\ Len(wire') = Len(wire) - 1
      /\ \A j \in 1..Len(wire') : wire'[j] = IF j < i THEN wire[j] ELSE wire[j + 1]
  BY <1>1, <1>2, DropFacts, Zenon
<1> QED
  BY <1>3 DEF Removed

LEMMA SendSends ==
  ASSUME Shape, NEW w \in Workers, pc[w] # "idle",
         NEW op \in {"ack", "nak", "dlq"}, wire' = Append(wire, Packet(op, w))
  PROVE  Sent(Packet(op, w)) /\ Packet(op, w).op = op /\ Packet(op, w).msg = job[w].msg
         /\ Packet(op, w).num = job[w].num
PROOF
<1>1. wire \in Seq(Packets) /\ Packet(op, w) \in Packets
  BY PacketFacts DEF Shape, TypeOK
<1>2. /\ Len(wire') = Len(wire) + 1 /\ wire'[Len(wire) + 1] = Packet(op, w)
      /\ \A j \in 1..Len(wire) : wire'[j] = wire[j]
  BY <1>1, AppendProperties
<1> QED
  BY <1>2 DEF Sent, Packet

-----------------------------------------------------------------------------
(* An acknowledgement has a reason *)

\* One of the first k packets is a copy of m for the DLQ subject.
CopyAhead(m, k) == \E i \in 1..k : wire[i].op = "dlq" /\ wire[i].msg = m

\* The packet k + 1 may acknowledge m.
Vouched(m, k) == HasOutcome(m) \/ m \in lostDLQ \/ CopyAhead(m, k)

\* The Acks on the wire and those about to be sent have a reason.
AcksVouched ==
  \A m \in Msgs :
    /\ \A i \in 1..Len(wire) : wire[i].op = "ack" /\ wire[i].msg = m => Vouched(m, i)
    /\ \A w \in Workers :
         pc[w] = "ack" /\ job[w].msg = m => \E k \in 0..Len(wire) : Vouched(m, k)

\* The inductive invariant for any MaxDeliver.
IInv == Held /\ AcksVouched /\ AckedHasOutcome

\* Nothing that became of a message is taken back.
OutcomesKept ==
  /\ \A m \in Msgs : HasOutcome(m) => HasOutcome(m)'
  /\ lostDLQ \subseteq lostDLQ'

\* Index i of the wire was index Old(r, i) before the packet at r left.
Old(r, i) == IF i < r THEN i ELSE i + 1

\* The copies that are ahead of a packet stay ahead of it, but for the one removed.
LEMMA RemovedCopy ==
  ASSUME Shape, Shape', NEW r, Removed(r), NEW m, NEW i \in 0..Len(wire')
  PROVE  /\ Old(r, i) \in 0..Len(wire)
         /\ CopyAhead(m, Old(r, i)) =>
              CopyAhead(m, i)' \/ (wire[r].op = "dlq" /\ wire[r].msg = m)
         /\ CopyAhead(m, i)' => CopyAhead(m, Old(r, i))
         /\ \A k \in 0..Len(wire) : CopyAhead(m, k) =>
              (\E l \in 0..Len(wire') : CopyAhead(m, l)')
              \/ (wire[r].op = "dlq" /\ wire[r].msg = m)
PROOF
<1>1. /\ Len(wire) \in Nat /\ Len(wire') = Len(wire) - 1 /\ r \in 1..Len(wire)
      /\ i \in Nat /\ r \in Nat
      /\ \A j \in 1..Len(wire') : wire'[j] = wire[Old(r, j)]
  BY WireFacts DEF Removed, Old
<1>2. Old(r, i) \in 0..Len(wire)
  BY <1>1 DEF Old
<1>3. ASSUME NEW j \in 1..Len(wire), wire[j].op = "dlq", wire[j].msg = m, j # r
      PROVE  \E n \in 1..Len(wire') : /\ wire'[n].op = "dlq" /\ wire'[n].msg = m
                                     /\ Old(r, n) = j
  <2> DEFINE n == IF j < r THEN j ELSE j - 1
  <2>1. n \in 1..Len(wire') /\ Old(r, n) = j
    BY <1>1, <1>3 DEF Old
  <2> QED
    BY <1>1, <1>3, <2>1
<1>5. ASSUME NEW j \in 1..Old(r, i), wire[j].op = "dlq", wire[j].msg = m, j # r
      PROVE  CopyAhead(m, i)'
  <2>1. j \in 1..Len(wire)
    BY <1>1, <1>2
  <2>2. PICK n \in 1..Len(wire') : /\ wire'[n].op = "dlq" /\ wire'[n].msg = m
                                  /\ Old(r, n) = j
    BY <1>3, <1>5, <2>1
  <2>3. n \in 1..i
    BY <1>1, <1>5, <2>2 DEF Old
  <2> QED
    BY <2>2, <2>3 DEF CopyAhead
<1>6. ASSUME NEW k \in 0..Len(wire), NEW j \in 1..k,
             wire[j].op = "dlq", wire[j].msg = m, j # r
      PROVE  \E l \in 0..Len(wire') : CopyAhead(m, l)'
  <2>1. j \in 1..Len(wire)
    BY <1>1
  <2>2. PICK n \in 1..Len(wire') : wire'[n].op = "dlq" /\ wire'[n].msg = m
    BY <1>3, <1>6, <2>1
  <2>3. n \in 1..n /\ n \in 0..Len(wire')
    BY <1>1
  <2> QED
    BY <2>2, <2>3 DEF CopyAhead
<1>4. ASSUME NEW j \in 1..i, wire'[j].op = "dlq", wire'[j].msg = m
      PROVE  CopyAhead(m, Old(r, i))
  <2>1. Old(r, j) \in 1..Old(r, i) /\ wire'[j] = wire[Old(r, j)]
    BY <1>1, <1>4 DEF Old
  <2> QED
    BY <1>4, <2>1 DEF CopyAhead
<1> QED
  BY <1>2, <1>4, <1>5, <1>6 DEF CopyAhead

\* A packet leaves the wire: the Acks behind it stay vouched for when it was no
\* copy, or a copy that arrived or was lost.
LEMMA RemovedVouched ==
  ASSUME Shape, Shape', AcksVouched, NEW r, Removed(r), OutcomesKept,
         UNCHANGED <<pc, job>>,
         \A m \in Msgs : wire[r].op = "dlq" /\ wire[r].msg = m
                         => HasOutcome(m)' \/ m \in lostDLQ'
  PROVE  AcksVouched'
PROOF
<1>1. /\ Len(wire) \in Nat /\ Len(wire') = Len(wire) - 1 /\ r \in 1..Len(wire)
      /\ r \in Nat
      /\ \A j \in 1..Len(wire') : wire'[j] = wire[Old(r, j)]
  BY WireFacts DEF Removed, Old
<1>2. ASSUME NEW m \in Msgs, NEW i \in 0..Len(wire'), Vouched(m, Old(r, i))
      PROVE  Vouched(m, i)'
  <2>1. CASE HasOutcome(m) \/ m \in lostDLQ
    BY <2>1 DEF OutcomesKept, Vouched
  <2>2. CASE CopyAhead(m, Old(r, i))
    <3>1. CopyAhead(m, i)' \/ (wire[r].op = "dlq" /\ wire[r].msg = m)
      BY <2>2, RemovedCopy
    <3>2. CopyAhead(m, i)' \/ HasOutcome(m)' \/ m \in lostDLQ'
      BY <3>1
    <3> QED
      BY <3>2 DEF Vouched
  <2> QED
    BY <1>2, <2>1, <2>2 DEF Vouched
<1>3. ASSUME NEW m \in Msgs, NEW i \in 1..Len(wire'),
             wire'[i].op = "ack", wire'[i].msg = m
      PROVE  Vouched(m, i)'
  <2>1. Old(r, i) \in 1..Len(wire) /\ wire'[i] = wire[Old(r, i)] /\ i \in 0..Len(wire')
    BY <1>1 DEF Old
  <2>2. Vouched(m, Old(r, i))
    BY <1>3, <2>1 DEF AcksVouched
  <2> QED
    BY <1>2, <2>1, <2>2
<1>4. ASSUME NEW m \in Msgs, NEW w \in Workers, pc'[w] = "ack", job'[w].msg = m
      PROVE  \E k \in 0..Len(wire') : Vouched(m, k)'
  <2>1. PICK k \in 0..Len(wire) : Vouched(m, k)
    BY <1>4 DEF AcksVouched
  <2>2. CASE HasOutcome(m) \/ m \in lostDLQ
    <3>1. 0 \in 0..Len(wire')
      BY <1>1
    <3> QED
      BY <2>2, <3>1 DEF OutcomesKept, Vouched
  <2>3. CASE CopyAhead(m, k)
    <3>1. 0 \in 0..Len(wire')
      BY <1>1
    <3>2. \/ \E l \in 0..Len(wire') : CopyAhead(m, l)'
          \/ wire[r].op = "dlq" /\ wire[r].msg = m
      BY <2>3, <3>1, RemovedCopy
    <3>3. (\E l \in 0..Len(wire') : CopyAhead(m, l)') \/ HasOutcome(m)' \/ m \in lostDLQ'
      BY <3>2
    <3> QED
      BY <3>1, <3>3 DEF Vouched
  <2> QED
    BY <2>1, <2>2, <2>3 DEF Vouched
<1> QED
  BY <1>3, <1>4 DEF AcksVouched

\* What is on the wire stays there; packets may be sent behind it.
WireKept ==
  /\ Len(wire') >= Len(wire)
  /\ \A j \in 1..Len(wire) : wire'[j] = wire[j]

LEMMA KeptVouched ==
  ASSUME Shape, Shape', OutcomesKept, WireKept,
         NEW m \in Msgs, NEW k \in 0..Len(wire), Vouched(m, k)
  PROVE  Vouched(m, k)' /\ k \in 0..Len(wire')
PROOF
<1>1. Len(wire) \in Nat /\ Len(wire') \in Nat /\ Len(wire') >= Len(wire)
  BY WireFacts DEF WireKept
<1>2. CopyAhead(m, k) => CopyAhead(m, k)'
  BY <1>1 DEF CopyAhead, WireKept
<1> QED
  BY <1>1, <1>2 DEF Vouched, OutcomesKept

\* Steps that send nothing and bring no callback to its Ack.
LEMMA QuietVouched ==
  ASSUME Shape, Shape', AcksVouched, OutcomesKept, UNCHANGED wire,
         \A w \in Workers : pc'[w] = "ack" => pc[w] = "ack" /\ job'[w] = job[w]
  PROVE  AcksVouched'
PROOF
<1>1. WireKept
  BY WireFacts DEF WireKept
<1>2. ASSUME NEW m \in Msgs, NEW i \in 1..Len(wire'),
             wire'[i].op = "ack", wire'[i].msg = m
      PROVE  Vouched(m, i)'
  <2>1. i \in 0..Len(wire) /\ Vouched(m, i)
    BY <1>2, WireFacts DEF AcksVouched
  <2> QED
    BY <1>1, <2>1, KeptVouched
<1>3. ASSUME NEW m \in Msgs, NEW w \in Workers, pc'[w] = "ack", job'[w].msg = m
      PROVE  \E k \in 0..Len(wire') : Vouched(m, k)'
  <2>1. PICK k \in 0..Len(wire) : Vouched(m, k)
    BY <1>3 DEF AcksVouched
  <2> QED
    BY <1>1, <2>1, KeptVouched
<1> QED
  BY <1>2, <1>3 DEF AcksVouched

\* A callback sends a packet, an Ack only from the point where it may, and
\* reaches that point with an outcome or behind a copy.
LEMMA CallbackVouched ==
  ASSUME Shape, Shape', AcksVouched, OutcomesKept, NEW w \in Workers, pc[w] # "idle",
         NEW p, Sent(p), p.msg = job[w].msg,
         p.op = "ack" => pc[w] = "ack",
         \A v \in Workers : pc'[v] = "ack" =>
           job'[v] = job[v] /\ (pc[v] = "ack" \/ (v = w /\ p.op = "dlq"))
  PROVE  AcksVouched'
PROOF
<1>0. /\ Len(wire) \in Nat /\ Len(wire') = Len(wire) + 1 /\ job[w].msg \in Msgs
      /\ wire'[Len(wire')] = p
      /\ \A j \in 1..Len(wire) : wire'[j] = wire[j]
  BY WireFacts, PacketFacts DEF Sent
<1>1. WireKept
  BY <1>0 DEF WireKept
<1>2. ASSUME NEW m \in Msgs, NEW i \in 1..Len(wire'),
             wire'[i].op = "ack", wire'[i].msg = m
      PROVE  Vouched(m, i)'
  <2>1. CASE i \in 1..Len(wire)
    <3>1. i \in 0..Len(wire) /\ Vouched(m, i)
      BY <1>0, <1>2, <2>1 DEF AcksVouched
    <3> QED
      BY <1>1, <3>1, KeptVouched
  <2>2. CASE i = Len(wire')
    <3>1. pc[w] = "ack" /\ job[w].msg = m
      BY <1>0, <1>2, <2>2
    <3>2. PICK k \in 0..Len(wire) : Vouched(m, k)
      BY <3>1 DEF AcksVouched
    <3>3. Vouched(m, k)' /\ k <= i /\ k \in Nat /\ i \in Nat
      BY <1>0, <1>1, <2>2, <3>2, KeptVouched
    <3> QED
      BY <3>3 DEF Vouched, CopyAhead
  <2> QED
    BY <1>0, <2>1, <2>2
<1>3. ASSUME NEW m \in Msgs, NEW v \in Workers, pc'[v] = "ack", job'[v].msg = m
      PROVE  \E k \in 0..Len(wire') : Vouched(m, k)'
  <2>1. CASE pc[v] = "ack"
    <3>1. PICK k \in 0..Len(wire) : Vouched(m, k)
      BY <1>3, <2>1 DEF AcksVouched
    <3> QED
      BY <1>1, <3>1, KeptVouched
  <2>2. CASE v = w /\ p.op = "dlq"
    <3>1. /\ Len(wire') \in 0..Len(wire') /\ Len(wire') \in 1..Len(wire')
          /\ wire'[Len(wire')].op = "dlq" /\ wire'[Len(wire')].msg = m
      BY <1>0, <1>3, <2>2
    <3>2. ASSUME NEW k, k = Len(wire')
          PROVE  Vouched(m, k)'
      BY <3>1, <3>2 DEF Vouched, CopyAhead
    <3> QED
      BY <3>1, <3>2
  <2> QED
    BY <1>3, <2>1, <2>2
<1> QED
  BY <1>2, <1>3 DEF AcksVouched

\* Handlers' successes and copies for the DLQ subject only add up.
LEMMA OutcomesNext == Shape /\ [Next]_vars => OutcomesKept
PROOF
<1> SUFFICES ASSUME Shape, [Next]_vars PROVE OutcomesKept
  OBVIOUS
<1> USE DEF vars, serverVars, clientVars, history
<1>1. CASE UNCHANGED <<handled, dlq>> /\ lostDLQ \subseteq lostDLQ'
  BY <1>1 DEF OutcomesKept, HasOutcome
<1>2. CASE ServerReceive
  <2>1. UNCHANGED <<handled, lostDLQ>>
    BY <1>2 DEF ServerReceive
  <2>2. Head(wire).msg \in Msgs /\ Head(wire).num \in 1..Limit
    <3>1. wire # <<>> /\ wire \in Seq(Packets)
      BY <1>2 DEF ServerReceive, Shape, TypeOK
    <3>2. Head(wire) \in Packets
      BY <3>1, HeadTailProperties
    <3> QED
      BY <3>2 DEF Packets
  <2>3. ASSUME NEW m \in Msgs, dlq[m] # <<>>
        PROVE  dlq'[m] # <<>>
    <3>1. CASE dlq'[m] = dlq[m]
      BY <2>3, <3>1
    <3>2. CASE dlq'[m] = Append(dlq[m], Head(wire).num)
      <4>1. dlq[m] \in Seq(1..Limit) /\ Len(dlq[m]) \in Nat
        BY LenProperties DEF Shape, TypeOK
      <4>2. Len(dlq'[m]) = Len(dlq[m]) + 1
        BY <2>2, <3>2, <4>1, AppendProperties
      <4> QED
        BY <4>1, <4>2, EmptySeq
    <3> QED
      BY <1>2, <3>1, <3>2 DEF ServerReceive, Shape, TypeOK
  <2> QED
    BY <2>1, <2>3 DEF OutcomesKept, HasOutcome
<1>3. ASSUME NEW w \in Workers, HandlerSucceeds(w)
      PROVE  OutcomesKept
  <2>1. /\ handled \in [Msgs -> Nat] /\ UNCHANGED <<dlq, lostDLQ>>
        /\ handled' = [handled EXCEPT ![job[w].msg] = @ + 1]
    BY <1>3 DEF HandlerSucceeds, Shape, TypeOK
  <2>2. \A m \in Msgs : handled[m] > 0 => handled'[m] > 0
    BY <2>1
  <2> QED
    BY <2>1, <2>2 DEF OutcomesKept, HasOutcome
<1>4. ASSUME NEW w \in Workers, Callback(w), ~HandlerSucceeds(w)
      PROVE  OutcomesKept
  <2>1. UNCHANGED <<handled, dlq, lostDLQ>>
    BY <1>4 DEF Callback, HandlerFails, HandlerPanics, Ack, NakError, PublishToDLQ
  <2> QED
    BY <1>1, <2>1
<1>5. ASSUME NEW i \in 1..Len(wire), LosePacket(i)
      PROVE  OutcomesKept
  BY <1>1, <1>5 DEF LosePacket
<1>6. ASSUME NEW w \in Workers,
             \/ StartJetStream(w) \/ StopConsume(w) \/ Receive(w)
             \/ (\E m \in Msgs : Deliver(m, w))
      PROVE  OutcomesKept
  BY <1>1, <1>6 DEF StartJetStream, StopConsume, Receive, Deliver
<1>7. ASSUME NEW m \in Msgs, Exhaust(m) \/ AckWaitExpires(m)
      PROVE  OutcomesKept
  BY <1>1, <1>7 DEF Exhaust, AckWaitExpires
<1>8. CASE Crash
  BY <1>1, <1>8 DEF Crash
<1> QED
  BY <1>1, <1>2, <1>3, <1>4, <1>5, <1>6, <1>7, <1>8 DEF Next, Finished

LEMMA VouchedCallback ==
  ASSUME Shape, Shape', AcksVouched, OutcomesKept, NEW w \in Workers, Callback(w)
  PROVE  AcksVouched'
PROOF
<1> USE DEF vars, serverVars, clientVars, history
<1>0. pc[w] # "idle" /\ job[w].msg \in Msgs /\ pc \in [Workers -> CallbackPcs]
      /\ job \in [Workers -> Deliveries \union {NoJob}]
  BY PacketFacts DEF Callback, HandlerSucceeds, HandlerFails, HandlerPanics, Ack,
     NakError, PublishToDLQ, Shape, TypeOK
<1>1. CASE HandlerSucceeds(w)
  <2>1. /\ UNCHANGED <<wire, job, lostDLQ>> /\ pc' = [pc EXCEPT ![w] = "ack"]
        /\ handled' = [handled EXCEPT ![job[w].msg] = @ + 1]
        /\ handled \in [Msgs -> Nat]
    BY <1>1 DEF HandlerSucceeds, Shape, TypeOK
  <2>2. \A m \in Msgs : m = job[w].msg => HasOutcome(m)'
    BY <1>0, <2>1 DEF HasOutcome
  <2>3. WireKept
    BY <2>1, WireFacts DEF WireKept
  <2>4. ASSUME NEW m \in Msgs, NEW i \in 1..Len(wire'),
               wire'[i].op = "ack", wire'[i].msg = m
        PROVE  Vouched(m, i)'
    <3>1. i \in 0..Len(wire) /\ Vouched(m, i)
      BY <2>1, <2>4, WireFacts DEF AcksVouched
    <3> QED
      BY <2>3, <3>1, KeptVouched
  <2>5. ASSUME NEW m \in Msgs, NEW v \in Workers, pc'[v] = "ack", job'[v].msg = m
        PROVE  \E k \in 0..Len(wire') : Vouched(m, k)'
    <3>1. CASE v = w
      <4>1. m = job[w].msg /\ 0 \in 0..Len(wire')
        BY <2>1, <2>5, <3>1, WireFacts
      <4>2. HasOutcome(m)'
        BY <2>2, <4>1
      <4>3. ASSUME NEW k \in Nat PROVE Vouched(m, k)'
        BY <4>2 DEF Vouched
      <4> QED
        BY <4>1, <4>3
    <3>2. CASE v # w
      <4>1. PICK k \in 0..Len(wire) : Vouched(m, k)
        BY <1>0, <2>1, <2>5, <3>2 DEF AcksVouched
      <4> QED
        BY <2>3, <4>1, KeptVouched
    <3> QED
      BY <3>1, <3>2
  <2> QED
    BY <2>4, <2>5 DEF AcksVouched
<1>2. CASE UNCHANGED wire /\ \A v \in Workers : pc'[v] = "ack" => pc[v] = "ack" /\ job'[v] = job[v]
  BY <1>2, QuietVouched
<1>3. CASE HandlerFails(w) \/ HandlerPanics(w)
  <2>1. /\ UNCHANGED wire
        /\ \A v \in Workers : pc'[v] = "ack" => pc[v] = "ack" /\ job'[v] = job[v]
    BY <1>0, <1>3 DEF HandlerFails, HandlerPanics, Return
  <2> QED
    BY <1>2, <2>1
<1>4. ASSUME NEW op \in {"ack", "nak"}, Send(op, w), Return(w), op = "ack" => pc[w] = "ack"
      PROVE  AcksVouched'
  <2>1. \A v \in Workers : pc'[v] = "ack" => pc[v] = "ack" /\ job'[v] = job[v]
    BY <1>0, <1>4 DEF Return
  <2>2. CASE wire' = Append(wire, Packet(op, w))
    <3>1. /\ Sent(Packet(op, w)) /\ Packet(op, w).op = op
          /\ Packet(op, w).msg = job[w].msg
      BY <1>0, <2>2, SendSends
    <3> HIDE DEF Return, Send
    <3> QED
      BY <1>0, <1>4, <2>1, <3>1, CallbackVouched
  <2> QED
    BY <1>2, <1>4, <2>1, <2>2 DEF Send
<1>5. CASE Ack(w)
  BY <1>4, <1>5 DEF Ack
<1>6. CASE NakError(w)
  BY <1>4, <1>6 DEF NakError
<1>7. CASE PublishToDLQ(w)
  <2>1. CASE /\ wire' = Append(wire, Packet("dlq", w))
             /\ pc' = [pc EXCEPT ![w] = "ack"] /\ UNCHANGED job
    <3>1. /\ Sent(Packet("dlq", w)) /\ Packet("dlq", w).op = "dlq"
          /\ Packet("dlq", w).msg = job[w].msg
      BY <1>0, <2>1, SendSends
    <3>2. \A v \in Workers : pc'[v] = "ack" => job'[v] = job[v] /\ (pc[v] = "ack" \/ v = w)
      BY <1>0, <2>1
    <3> QED
      BY <1>0, <3>1, <3>2, CallbackVouched
  <2>2. CASE Send("nak", w) /\ Return(w)
    BY <1>4, <2>2
  <2> QED
    BY <1>7, <2>1, <2>2 DEF PublishToDLQ
<1> QED
  BY <1>1, <1>3, <1>5, <1>6, <1>7 DEF Callback

LEMMA VouchedNext == Shape /\ Shape' /\ AcksVouched /\ [Next]_vars => AcksVouched'
PROOF
<1> SUFFICES ASSUME Shape, Shape', AcksVouched, [Next]_vars PROVE AcksVouched'
  OBVIOUS
<1> USE DEF vars, serverVars, clientVars, history
<1>0. OutcomesKept
  BY OutcomesNext
<1>1. CASE UNCHANGED wire /\ \A v \in Workers : pc'[v] = "ack" => pc[v] = "ack" /\ job'[v] = job[v]
  BY <1>0, <1>1, QuietVouched
<1>2. ASSUME NEW m \in Msgs, NEW w \in Workers, Deliver(m, w)
      PROVE  AcksVouched'
  BY <1>1, <1>2 DEF Deliver
<1>3. ASSUME NEW m \in Msgs, Exhaust(m) \/ AckWaitExpires(m)
      PROVE  AcksVouched'
  BY <1>1, <1>3 DEF Exhaust, AckWaitExpires
<1>4. ASSUME NEW w \in Workers, StartJetStream(w) \/ StopConsume(w)
      PROVE  AcksVouched'
  BY <1>1, <1>4 DEF StartJetStream, StopConsume
<1>5. ASSUME NEW w \in Workers, Receive(w)
      PROVE  AcksVouched'
  <2>1. /\ pc' = [pc EXCEPT ![w] = "handling"] /\ UNCHANGED wire
        /\ job' = [job EXCEPT ![w] = Head(buf[w])]
        /\ pc \in [Workers -> CallbackPcs] /\ job \in [Workers -> Deliveries \union {NoJob}]
    BY <1>5 DEF Receive, Shape, TypeOK
  <2>2. \A v \in Workers : pc'[v] = "ack" => pc[v] = "ack" /\ job'[v] = job[v]
    BY <2>1
  <2> QED
    BY <1>1, <2>1, <2>2
<1>6. ASSUME NEW w \in Workers, Callback(w)
      PROVE  AcksVouched'
  BY <1>0, <1>6, VouchedCallback
<1>7. CASE ServerReceive
  <2>1. Removed(1) /\ Head(wire) = wire[1] /\ UNCHANGED <<pc, job>>
    BY <1>7, ReceiveRemoves DEF ServerReceive
  <2>2. ASSUME NEW m \in Msgs, wire[1].op = "dlq", wire[1].msg = m
        PROVE  HasOutcome(m)'
    <3>1. dlq[m] \in Seq(1..Limit) /\ wire[1].num \in 1..Limit
      BY <2>1, WireFacts DEF Removed, Shape, TypeOK
    <3>2. dlq'[m] = Append(dlq[m], wire[1].num)
      BY <1>7, <2>1, <2>2 DEF ServerReceive, Shape, TypeOK
    <3>3. Len(dlq'[m]) = Len(dlq[m]) + 1 /\ Len(dlq[m]) \in Nat
      BY <3>1, <3>2, AppendProperties, LenProperties
    <3>4. dlq'[m] # <<>>
      BY <3>3, EmptySeq
    <3> QED
      BY <3>4 DEF HasOutcome
  <2> QED
    BY <1>0, <2>1, <2>2, RemovedVouched
<1>8. ASSUME NEW i \in 1..Len(wire), LosePacket(i)
      PROVE  AcksVouched'
  <2>1. Removed(i) /\ UNCHANGED <<pc, job>>
    BY <1>8, LoseRemoves DEF LosePacket
  <2>2. ASSUME NEW m \in Msgs, wire[i].op = "dlq", wire[i].msg = m
        PROVE  m \in lostDLQ'
    BY <1>8, <2>2 DEF LosePacket
  <2> QED
    BY <1>0, <2>1, <2>2, RemovedVouched
<1>9. CASE Crash
  <2>1. PICK n \in 0..Len(wire) : wire' = SubSeq(wire, 1, n)
    BY <1>9 DEF Crash
  <2>2. /\ Len(wire') = n /\ Len(wire) \in Nat
        /\ \A j \in 1..n : wire'[j] = wire[j]
    BY <2>1, PrefixFacts, WireFacts
  <2>3. ASSUME NEW m \in Msgs, NEW i \in 1..Len(wire'),
               wire'[i].op = "ack", wire'[i].msg = m
        PROVE  Vouched(m, i)'
    <3>1. i \in 1..Len(wire) /\ i <= n /\ i \in Nat /\ Vouched(m, i)
      BY <2>2, <2>3 DEF AcksVouched
    <3>2. CopyAhead(m, i) => CopyAhead(m, i)'
      BY <2>2, <3>1 DEF CopyAhead
    <3> QED
      BY <1>0, <3>1, <3>2 DEF Vouched, OutcomesKept
  <2>4. \A v \in Workers : pc'[v] # "ack"
    BY <1>9 DEF Crash
  <2> QED
    BY <2>3, <2>4 DEF AcksVouched
<1>10. CASE UNCHANGED vars
  BY <1>1, <1>10
<1> QED
  BY <1>2, <1>3, <1>4, <1>5, <1>6, <1>7, <1>8, <1>9, <1>10 DEF Next, Finished

LEMMA AckedNext ==
  Shape /\ AcksVouched /\ AckedHasOutcome /\ [Next]_vars => AckedHasOutcome'
PROOF
<1> SUFFICES ASSUME Shape, AcksVouched, AckedHasOutcome, [Next]_vars,
                    NEW m \in Msgs, srv'[m] = "acked"
             PROVE  HasOutcome(m)' \/ m \in lostDLQ'
  BY DEF AckedHasOutcome
<1>0. OutcomesKept
  BY OutcomesNext
<1>1. CASE srv[m] = "acked"
  BY <1>0, <1>1 DEF AckedHasOutcome, OutcomesKept
<1>2. CASE srv[m] # "acked"
  <2>1. ServerReceive /\ wire[1].op = "ack" /\ wire[1].msg = m /\ 1 \in 1..Len(wire)
    <3>1. ServerReceive
      BY <1>2 DEF Next, Deliver, Exhaust, AckWaitExpires, LosePacket, StartJetStream,
         StopConsume, Receive, Callback, HandlerSucceeds, HandlerFails, HandlerPanics,
         Ack, NakError, PublishToDLQ, Crash, Finished, vars, serverVars, Shape, TypeOK
    <3>2. Head(wire) = wire[1] /\ 1 \in 1..Len(wire)
      BY <3>1, ReceiveRemoves DEF Removed
    <3> QED
      BY <1>2, <3>1, <3>2 DEF ServerReceive, Shape, TypeOK
  <2>2. Vouched(m, 1)
    BY <2>1 DEF AcksVouched
  <2>3. ~CopyAhead(m, 1)
    BY <2>1 DEF CopyAhead
  <2> QED
    BY <1>0, <2>2, <2>3 DEF Vouched, OutcomesKept
<1> QED
  BY <1>1, <1>2

LEMMA IInvInit == Init => IInv
PROOF
<1> SUFFICES ASSUME Init PROVE IInv
  OBVIOUS
<1>1. Held
  BY HeldInit
<1>2. AcksVouched
  <2>1. Len(wire) = 0 /\ \A w \in Workers : pc[w] = "idle"
    BY EmptySeq DEF Init
  <2> QED
    BY <2>1 DEF AcksVouched
<1>3. AckedHasOutcome
  BY DEF Init, AckedHasOutcome
<1> QED
  BY <1>1, <1>2, <1>3 DEF IInv

LEMMA IInvNext == IInv /\ [Next]_vars => IInv'
PROOF
<1> SUFFICES ASSUME IInv, [Next]_vars PROVE IInv'
  OBVIOUS
<1>1. Held /\ Shape /\ AcksVouched /\ AckedHasOutcome
  BY DEF IInv, Held
<1>2. Held' /\ Shape'
  BY <1>1, HeldNext, ShapeNext
<1> QED
  BY <1>1, <1>2, VouchedNext, AckedNext DEF IInv

\* The inductive invariant holds: every delivery the client has is in one place, and
\* the callback sends an Ack only after the handler's success or behind its publish to
\* the DLQ subject (consumer/consumer.go:183-242).
THEOREM Invariant == Spec => []IInv
PROOF
  BY IInvInit, IInvNext, PTL DEF Spec

\* A message the server has settled on an Ack was handled or is on the DLQ subject,
\* unless its publish to the DLQ subject was lost: publishToDLQ sends the Ack behind
\* its publish on the same connection.
THEOREM AckedOutcome == Spec => []AckedHasOutcome
PROOF
<1>1. IInv => AckedHasOutcome
  BY DEF IInv
<1> QED
  BY <1>1, Invariant, PTL

=============================================================================
