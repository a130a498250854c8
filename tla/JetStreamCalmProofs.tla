------------------------ MODULE JetStreamCalmProofs ------------------------
(***************************************************************************)
(* What JetStreamConsumer promises when little goes wrong.  While handlers *)
(* only fail or panic and consume contexts are only stopped and started, a *)
(* delivery is the only one of its message: no two workers handle the      *)
(* message at a time and it has one outcome.  While AckWait alone goes     *)
(* wrong, the last delivery is never dropped without an outcome.           *)
(***************************************************************************)
EXTENDS JetStreamDLQProofs

-----------------------------------------------------------------------------
(* Nobody slow, no crash, no packet lost and no send error *)

Calm == faults \subseteq {"panic", "stop"}

\* The place holds a delivery of m.
Holds(w, i, m) == Place(w, i) # NoJob /\ Place(w, i).msg = m

HeldSomewhere(m) == \E w \in Workers : \E i \in 0..Len(buf[w]) : Holds(w, i, m)
Flying(m)        == HeldSomewhere(m) \/ OnWire(m)
CopyOnWire(m)    == \E i \in 1..Len(wire) : CopyAt(m, i)

\* The client has decided to acknowledge m.
Acked(m) ==
  \/ srv[m] = "acked"
  \/ \E w \in Workers : pc[w] = "ack" /\ job[w].msg = m
  \/ \E i \in 1..Len(wire) : wire[i].op = "ack" /\ wire[i].msg = m

\* One place holds m.
OneHolder(m) ==
  \A v, w \in Workers : \A i \in 0..Len(buf[v]), j \in 0..Len(buf[w]) :
    Holds(v, i, m) /\ Holds(w, j, m) => v = w /\ i = j

\* A delivery the client works on is the one the server waits for.
FlightPending(m) == Flying(m) => srv[m] = "pending"

\* What is held has sent nothing yet, except the copy an Ack is to follow.
HolderAlone(m) ==
  \A w \in Workers : \A i \in 0..Len(buf[w]) : \A k \in 1..Len(wire) :
    Holds(w, i, m) /\ wire[k].msg = m => i = 0 /\ pc[w] = "ack" /\ wire[k].op = "dlq"

\* Two packets of m on the wire are a copy and its Ack.
WireOrder(m) ==
  \A i, j \in 1..Len(wire) :
    i < j /\ wire[i].msg = m /\ wire[j].msg = m => wire[i].op = "dlq" /\ wire[j].op = "ack"

\* An outcome is the only one, and its Ack is decided.
OutcomeOnce(m) ==
  /\ handled[m] > 0 \/ dlq[m] # <<>> \/ CopyOnWire(m) => Acked(m)
  /\ handled[m] > 0 => ~(dlq[m] # <<>>) /\ ~CopyOnWire(m)
  /\ dlq[m] # <<>> => ~CopyOnWire(m)
  /\ handled[m] <= 1 /\ Len(dlq[m]) <= 1

CalmAt(m) ==
  OneHolder(m) /\ FlightPending(m) /\ HolderAlone(m) /\ WireOrder(m) /\ OutcomeOnce(m)

\* The inductive invariant of the calm behaviours.
CalmInv == Held /\ (Calm => \A m \in Msgs : CalmAt(m))

-----------------------------------------------------------------------------
(* Steps that do nothing for m but hold or carry less of it *)

HoldsShift(m, k) ==
  \A w \in Workers : \A i \in 0..Len(buf'[w]) : Holds(w, i, m)' =>
    /\ i + k[w] \in 0..Len(buf[w]) /\ Holds(w, i + k[w], m)
    /\ i + k[w] = 0 /\ pc[w] = "ack" => pc'[w] = "ack"

PacketsStay(m, f) ==
  \A j \in 1..Len(wire') : wire'[j].msg = m =>
    /\ f[j] \in 1..Len(wire) /\ wire'[j] = wire[f[j]]
    /\ \A i \in 1..Len(wire') : i < j => f[i] < f[j]

LEMMA HoldsNext ==
  ASSUME Shape, [Next]_vars, NEW m \in Msgs, ~ \E w \in Workers : Deliver(m, w)
  PROVE  \E k \in [Workers -> {0, 1}] : HoldsShift(m, k)
PROOF
<1>1. ASSUME NEW n \in Msgs, NEW v \in Workers, Deliver(n, v)
      PROVE  HoldsShift(m, [w \in Workers |-> 0])
  <2> DEFINE k == [w \in Workers |-> 0]
  <2>1. n # m /\ UNCHANGED pc
    BY <1>1 DEF Deliver
  <2>2. ASSUME NEW w \in Workers, NEW i \in 0..Len(buf'[w]), Holds(w, i, m)'
        PROVE  i \in 0..Len(buf[w]) /\ Holds(w, i, m) /\ i + 0 = i
    <3>1. Len(buf[w]) \in Nat
      BY PlaceFacts
    <3>2. CASE i \in 0..Len(buf[w])
      <4>1. Place(w, i)' = Place(w, i)
        BY <1>1, <3>2, DeliverPlaces
      <4> QED
        BY <2>2, <3>2, <4>1 DEF Holds
    <3>3. CASE i \notin 0..Len(buf[w])
      <4>1. w = v /\ i = Len(buf[v]) + 1
        BY <1>1, <2>2, <3>1, <3>3, DeliverPlaces
      <4>2. Place(w, i)' = [msg |-> n, num |-> dc[n] + 1]
        BY <1>1, <4>1, DeliverPlaces
      <4> QED
        BY <2>1, <2>2, <4>2 DEF Holds
    <3> QED
      BY <3>2, <3>3
  <2>3. \A w \in Workers : k[w] = 0
    OBVIOUS
  <2> HIDE DEF k
  <2>4. HoldsShift(m, k)
    BY <2>1, <2>2, <2>3 DEF HoldsShift
  <2> QED
    BY <2>4 DEF k
<1>2. ASSUME NEW k \in [Workers -> {0, 1}], Shifted(k)
      PROVE  HoldsShift(m, k)
  <2> SUFFICES ASSUME NEW w \in Workers, NEW i \in 0..Len(buf'[w]), Holds(w, i, m)'
               PROVE  /\ i + k[w] \in 0..Len(buf[w]) /\ Holds(w, i + k[w], m)
                      /\ i + k[w] = 0 /\ pc[w] = "ack" => pc'[w] = "ack"
    BY DEF HoldsShift
  <2>1. i + k[w] \in 0..Len(buf[w]) /\ Place(w, i)' = Place(w, i + k[w])
    BY <1>2 DEF Shifted, Holds
  <2>2. ASSUME i + k[w] = 0, pc[w] = "ack" PROVE pc'[w] = "ack"
    <3>1. i = 0
      <4>1. i \in Nat /\ k[w] \in {0, 1}
        OBVIOUS
      <4> QED
        BY <2>2, <4>1
    <3>2. job'[w] # NoJob
      BY <3>1 DEF Holds, Place
    <3> QED
      BY <2>2, <3>2, AckEnds
  <2> QED
    BY <2>1, <2>2 DEF Holds
<1>3. [w \in Workers |-> 0] \in [Workers -> {0, 1}]
  OBVIOUS
<1> QED
  BY <1>1, <1>2, <1>3, NextShifts

\* A quiet step keeps what is said about m.
LEMMA QuietCalm ==
  ASSUME Shape, Shape', NEW m \in Msgs, CalmAt(m),
         NEW k \in [Workers -> {0, 1}], HoldsShift(m, k), NEW f, PacketsStay(m, f),
         srv[m] = "pending" /\ Flying(m)' => srv'[m] = "pending",
         dlq'[m] = dlq[m], handled'[m] = handled[m], Acked(m) => Acked(m)'
  PROVE  CalmAt(m)'
PROOF
<1>1. ASSUME NEW w \in Workers, NEW i \in 0..Len(buf'[w]), Holds(w, i, m)'
      PROVE  /\ i + k[w] \in 0..Len(buf[w]) /\ Holds(w, i + k[w], m)
             /\ i + k[w] = 0 /\ pc[w] = "ack" => pc'[w] = "ack"
             /\ i \in Nat /\ k[w] \in {0, 1}
  BY <1>1, PlaceFacts DEF HoldsShift
<1>2. ASSUME NEW j \in 1..Len(wire'), wire'[j].msg = m
      PROVE  /\ f[j] \in 1..Len(wire) /\ wire'[j] = wire[f[j]]
             /\ \A i \in 1..Len(wire') : i < j => f[i] < f[j]
  BY <1>2 DEF PacketsStay
<1>3. Flying(m)' => Flying(m)
  BY <1>1, <1>2 DEF Flying, HeldSomewhere, OnWire
<1>4. CopyOnWire(m)' => CopyOnWire(m)
  BY <1>2 DEF CopyOnWire, CopyAt
<1>5. OneHolder(m)'
  <2> SUFFICES ASSUME NEW v \in Workers, NEW w \in Workers,
                      NEW i \in 0..Len(buf'[v]), NEW j \in 0..Len(buf'[w]),
                      Holds(v, i, m)', Holds(w, j, m)'
               PROVE  v = w /\ i = j
    BY DEF OneHolder
  <2>1. v = w /\ i + k[v] = j + k[w]
    BY <1>1 DEF CalmAt, OneHolder
  <2> QED
    BY <1>1, <2>1
<1>6. FlightPending(m)'
  BY <1>3 DEF CalmAt, FlightPending
<1>7. HolderAlone(m)'
  <2> SUFFICES ASSUME NEW w \in Workers, NEW i \in 0..Len(buf'[w]),
                      NEW j \in 1..Len(wire'), Holds(w, i, m)', wire'[j].msg = m
               PROVE  i = 0 /\ pc'[w] = "ack" /\ wire'[j].op = "dlq"
    BY DEF HolderAlone
  <2>1. i + k[w] = 0 /\ pc[w] = "ack" /\ wire'[j].op = "dlq"
    BY <1>1, <1>2 DEF CalmAt, HolderAlone
  <2> QED
    BY <1>1, <2>1
<1>8. WireOrder(m)'
  BY <1>2 DEF CalmAt, WireOrder
<1>9. OutcomeOnce(m)'
  BY <1>4 DEF CalmAt, OutcomeOnce
<1> QED
  BY <1>5, <1>6, <1>7, <1>8, <1>9 DEF CalmAt

-----------------------------------------------------------------------------
(* Steps that do something for m *)

\* The callback holds its delivery.
LEMMA InCallback ==
  ASSUME Shape, NEW w \in Workers, pc[w] # "idle", NEW m, m = job[w].msg
  PROVE  m \in Msgs /\ 0 \in 0..Len(buf[w]) /\ Holds(w, 0, m) /\ Flying(m)
PROOF
<1>1. job[w] # NoJob /\ job[w].msg \in Msgs /\ Len(buf[w]) \in Nat
  BY PacketFacts, PlaceFacts DEF Shape, JobShape
<1>2. 0 \in 0..Len(buf[w]) /\ Holds(w, 0, m)
  BY <1>1 DEF Holds, Place
<1> QED
  BY <1>1, <1>2 DEF Flying, HeldSomewhere

\* A callback that is not at its Ack works on a message without an outcome.
LEMMA NotYetAcked ==
  ASSUME Shape, NEW m \in Msgs, CalmAt(m), NEW w \in Workers, pc[w] \notin {"idle", "ack"},
         m = job[w].msg
  PROVE  /\ srv[m] = "pending" /\ ~Acked(m) /\ ~OnWire(m)
         /\ handled[m] = 0 /\ ~(dlq[m] # <<>>) /\ ~CopyOnWire(m)
PROOF
<1>1. 0 \in 0..Len(buf[w]) /\ Holds(w, 0, m) /\ Flying(m)
  BY InCallback
<1>2. srv[m] = "pending"
  BY <1>1 DEF CalmAt, FlightPending
<1>3. ~OnWire(m)
  BY <1>1 DEF OnWire, CalmAt, HolderAlone
<1>4. ASSUME NEW v \in Workers, pc[v] = "ack", job[v].msg = m
      PROVE  FALSE
  <2>1. 0 \in 0..Len(buf[v]) /\ Holds(v, 0, m)
    BY <1>4, InCallback
  <2>2. v = w
    BY <1>1, <2>1 DEF CalmAt, OneHolder
  <2> QED
    BY <1>4, <2>2
<1>5. ~Acked(m)
  BY <1>2, <1>3, <1>4 DEF Acked, OnWire
<1>6. handled[m] \in Nat
  BY DEF Shape, TypeOK
<1> QED
  BY <1>2, <1>3, <1>5, <1>6 DEF CalmAt, OutcomeOnce

LEMMA DeliverCalm ==
  ASSUME Shape, Shape', NEW m \in Msgs, CalmAt(m), NEW w \in Workers, Deliver(m, w)
  PROVE  CalmAt(m)'
PROOF
<1>1. /\ srv'[m] = "pending" /\ ~Flying(m) /\ srv[m] # "acked"
      /\ UNCHANGED dlq /\ UNCHANGED wire /\ UNCHANGED pc /\ UNCHANGED job /\ UNCHANGED handled
  BY DEF Deliver, history, CalmAt, FlightPending, Shape, TypeOK
<1>2. ASSUME NEW v \in Workers, NEW i \in 0..Len(buf'[v]), Holds(v, i, m)'
      PROVE  v = w /\ i = Len(buf[w]) + 1
  <2>1. Len(buf[v]) \in Nat
    BY PlaceFacts
  <2>2. CASE i \in 0..Len(buf[v])
    <3>1. Holds(v, i, m)
      BY <1>2, <2>2, DeliverPlaces DEF Holds
    <3> QED
      BY <1>1, <2>2, <3>1 DEF Flying, HeldSomewhere
  <2>3. CASE i \notin 0..Len(buf[v])
    BY <1>2, <2>1, <2>3, DeliverPlaces
  <2> QED
    BY <2>2, <2>3
<1>3. OneHolder(m)'
  BY <1>2 DEF OneHolder
<1>4. ~OnWire(m)
  BY <1>1 DEF Flying
<1>5. FlightPending(m)' /\ HolderAlone(m)' /\ WireOrder(m)'
  BY <1>1, <1>4 DEF FlightPending, HolderAlone, WireOrder, OnWire
<1>6. OutcomeOnce(m)'
  <2>1. Acked(m) => Acked(m)'
    BY <1>1 DEF Acked
  <2>2. CopyOnWire(m)' <=> CopyOnWire(m)
    BY <1>1 DEF CopyOnWire, CopyAt
  <2> QED
    BY <1>1, <2>1, <2>2 DEF CalmAt, OutcomeOnce
<1> QED
  BY <1>3, <1>5, <1>6 DEF CalmAt

LEMMA SuccessCalm ==
  ASSUME Shape, Shape', [Next]_vars, NEW m \in Msgs, CalmAt(m),
         NEW w \in Workers, HandlerSucceeds(w), m = job[w].msg
  PROVE  CalmAt(m)'
PROOF
<1>0. /\ pc[w] = "handling" /\ pc' = [pc EXCEPT ![w] = "ack"] /\ pc \in [Workers -> CallbackPcs]
      /\ handled' = [handled EXCEPT ![m] = @ + 1] /\ handled \in [Msgs -> Nat]
      /\ UNCHANGED srv /\ UNCHANGED dlq /\ UNCHANGED wire /\ UNCHANGED buf /\ UNCHANGED job
  BY DEF HandlerSucceeds, serverVars, Shape, TypeOK
<1>1. /\ srv[m] = "pending" /\ ~Acked(m) /\ ~OnWire(m)
      /\ handled[m] = 0 /\ ~(dlq[m] # <<>>) /\ ~CopyOnWire(m)
  BY <1>0, NotYetAcked
<1>2. ASSUME NEW v \in Workers, NEW i \in 0..Len(buf'[v]), Holds(v, i, m)'
      PROVE  i \in 0..Len(buf[v]) /\ Holds(v, i, m)
  BY <1>0, <1>2 DEF Holds, Place
<1>3. OneHolder(m)'
  BY <1>2 DEF CalmAt, OneHolder
<1>4. FlightPending(m)' /\ HolderAlone(m)' /\ WireOrder(m)'
  BY <1>0, <1>1 DEF FlightPending, HolderAlone, WireOrder, OnWire
<1>5. Acked(m)'
  BY <1>0 DEF Acked
<1>6. ~CopyOnWire(m)'
  BY <1>0, <1>1 DEF CopyOnWire, CopyAt
<1>7. OutcomeOnce(m)'
  BY <1>0, <1>1, <1>5, <1>6 DEF CalmAt, OutcomeOnce
<1> QED
  BY <1>3, <1>4, <1>7 DEF CalmAt

\* The callback sends a packet for its message: a copy before its Ack, or a last
\* packet before it returns.
LEMMA SendCalm ==
  ASSUME Shape, Shape', [Next]_vars, NEW m \in Msgs, CalmAt(m), NEW w \in Workers,
         pc[w] # "idle", m = job[w].msg, NEW op \in {"ack", "nak", "dlq"},
         wire' = Append(wire, Packet(op, w)), ~ \E v \in Workers : Deliver(m, v),
         op = "ack" <=> pc[w] = "ack",
         op = "dlq" => pc'[w] = "ack" /\ job'[w] = job[w],
         op # "dlq" => job'[w] = NoJob,
         \A v \in Workers \ {w} : pc'[v] = pc[v] /\ job'[v] = job[v],
         srv' = srv, dlq' = dlq, handled' = handled
  PROVE  CalmAt(m)'
PROOF
<1>1. /\ 0 \in 0..Len(buf[w]) /\ Holds(w, 0, m) /\ Flying(m) /\ srv[m] = "pending"
      /\ Len(wire) \in Nat
  BY InCallback, WireFacts DEF CalmAt, FlightPending
<1>2. /\ Len(wire') = Len(wire) + 1
      /\ \A j \in 1..Len(wire) : wire'[j] = wire[j]
      /\ wire'[Len(wire')].op = op /\ wire'[Len(wire')].msg = m
  BY SendSends DEF Sent
<1>3. PICK k \in [Workers -> {0, 1}] : HoldsShift(m, k)
  BY HoldsNext
<1>4. ASSUME NEW v \in Workers, NEW i \in 0..Len(buf'[v]), Holds(v, i, m)'
      PROVE  v = w /\ i = 0 /\ op = "dlq"
  <2>1. i + k[v] \in 0..Len(buf[v]) /\ Holds(v, i + k[v], m)
    BY <1>3, <1>4 DEF HoldsShift
  <2>2. v = w /\ i + k[v] = 0
    BY <1>1, <2>1 DEF CalmAt, OneHolder
  <2>3. i = 0
    <3>1. i \in Nat /\ k[v] \in {0, 1}
      BY PlaceFacts
    <3> QED
      BY <2>2, <3>1
  <2> QED
    BY <1>4, <2>2, <2>3 DEF Holds, Place
<1>5. ASSUME NEW j \in 1..Len(wire), wire[j].msg = m
      PROVE  pc[w] = "ack" /\ wire[j].op = "dlq"
  BY <1>1, <1>5 DEF CalmAt, HolderAlone
<1>6. ASSUME NEW j \in 1..Len(wire')
      PROVE  j \in 1..Len(wire) \/ j = Len(wire')
  BY <1>1, <1>2
<1>7. OneHolder(m)'
  BY <1>4 DEF OneHolder
<1>8. FlightPending(m)'
  BY <1>1 DEF FlightPending
<1>9. HolderAlone(m)'
  <2> SUFFICES ASSUME NEW v \in Workers, NEW i \in 0..Len(buf'[v]),
                      NEW j \in 1..Len(wire'), Holds(v, i, m)', wire'[j].msg = m
               PROVE  i = 0 /\ pc'[v] = "ack" /\ wire'[j].op = "dlq"
    BY DEF HolderAlone
  <2>1. v = w /\ i = 0 /\ op = "dlq"
    BY <1>4
  <2> QED
    BY <1>2, <1>5, <1>6, <2>1
<1>10. WireOrder(m)'
  <2> SUFFICES ASSUME NEW i \in 1..Len(wire'), NEW j \in 1..Len(wire'), i < j,
                      wire'[i].msg = m, wire'[j].msg = m
               PROVE  wire'[i].op = "dlq" /\ wire'[j].op = "ack"
    BY DEF WireOrder
  <2>1. i \in 1..Len(wire)
    BY <1>1, <1>2
  <2>2. pc[w] = "ack" /\ wire'[i].op = "dlq"
    BY <1>2, <1>5, <2>1
  <2>3. CASE j \in 1..Len(wire)
    BY <1>2, <2>1, <2>3 DEF CalmAt, WireOrder
  <2>4. CASE j = Len(wire')
    BY <1>2, <2>2, <2>4
  <2> QED
    BY <1>6, <2>2, <2>3, <2>4
<1>11. OutcomeOnce(m)'
  <2>1. CASE op # "dlq"
    <3>1. CopyOnWire(m)' => CopyOnWire(m)
      <4> SUFFICES ASSUME NEW i \in 1..Len(wire'), CopyAt(m, i)' PROVE CopyOnWire(m)
        BY DEF CopyOnWire
      <4>1. i \in 1..Len(wire)
        BY <1>2, <1>6, <2>1 DEF CopyAt
      <4> QED
        BY <1>2, <4>1 DEF CopyAt, CopyOnWire
    <3>2. CASE op = "ack"
      <4>1. Acked(m)'
        <5>1. Len(wire') \in 1..Len(wire')
          BY <1>1, <1>2
        <5> QED
          BY <1>2, <3>2, <5>1 DEF Acked
      <4> QED
        BY <3>1, <4>1 DEF CalmAt, OutcomeOnce
    <3>3. CASE op = "nak"
      <4>1. ~Acked(m)
        BY <3>3, NotYetAcked
      <4> QED
        BY <3>1, <4>1 DEF CalmAt, OutcomeOnce
    <3> QED
      BY <2>1, <3>2, <3>3
  <2>2. CASE op = "dlq"
    <3>1. handled[m] = 0 /\ ~(dlq[m] # <<>>)
      BY <2>2, NotYetAcked
    <3>2. Acked(m)'
      BY <2>2 DEF Acked
    <3> QED
      BY <3>1, <3>2 DEF CalmAt, OutcomeOnce
  <2> QED
    BY <2>1, <2>2
<1> QED
  BY <1>7, <1>8, <1>9, <1>10, <1>11 DEF CalmAt

\* The wire as the steps that send nothing for m leave it.
LEMMA SameWire ==
  ASSUME Shape, NEW m \in Msgs, UNCHANGED wire
  PROVE  PacketsStay(m, [j \in Nat |-> j])
PROOF
<1>1. Len(wire') = Len(wire) /\ Len(wire) \in Nat /\ \A j \in 1..Len(wire') : wire'[j] = wire[j]
  BY WireFacts
<1> QED
  BY <1>1 DEF PacketsStay

LEMMA MoreWire ==
  ASSUME Shape, NEW m \in Msgs, NEW p, Sent(p), p.msg # m
  PROVE  PacketsStay(m, [j \in Nat |-> j])
PROOF
<1>1. Len(wire) \in Nat /\ Len(wire') = Len(wire) + 1
  BY WireFacts DEF Sent
<1>2. ASSUME NEW j \in 1..Len(wire'), wire'[j].msg = m
      PROVE  j \in 1..Len(wire) /\ wire'[j] = wire[j] /\ j \in Nat
  BY <1>1, <1>2 DEF Sent
<1>3. \A i \in 1..Len(wire') : i \in Nat
  BY <1>1
<1> QED
  BY <1>2, <1>3 DEF PacketsStay

LEMMA LessWire ==
  ASSUME Shape, NEW m \in Msgs, Removed(1)
  PROVE  PacketsStay(m, [j \in Nat |-> j + 1])
PROOF
<1>1. Len(wire) \in Nat /\ Len(wire') = Len(wire) - 1
  BY WireFacts DEF Removed
<1>2. ASSUME NEW j \in 1..Len(wire')
      PROVE  j \in Nat /\ j + 1 \in 1..Len(wire) /\ wire'[j] = wire[j + 1]
  BY <1>1, <1>2 DEF Removed
<1>3. \A i, j \in Nat : i < j => i + 1 < j + 1
  OBVIOUS
<1> QED
  BY <1>2, <1>3 DEF PacketsStay

\* A step that neither delivers m, nor sends for it, nor settles it while it flies.
LEMMA StillCalm ==
  ASSUME Shape, Shape', [Next]_vars, NEW m \in Msgs, CalmAt(m),
         ~ \E w \in Workers : Deliver(m, w), NEW f, PacketsStay(m, f),
         srv[m] = "pending" /\ Flying(m)' => srv'[m] = "pending",
         dlq'[m] = dlq[m], handled'[m] = handled[m], Acked(m) => Acked(m)'
  PROVE  CalmAt(m)'
PROOF
  BY HoldsNext, QuietCalm

LEMMA ServerReceiveCalm ==
  ASSUME Shape, Shape', [Next]_vars, NEW m \in Msgs, CalmAt(m), ServerReceive
  PROVE  CalmAt(m)'
PROOF
<1>0. /\ Removed(1) /\ Head(wire) = wire[1] /\ Len(wire) \in Nat /\ 1 \in 1..Len(wire)
      /\ Len(wire') = Len(wire) - 1
      /\ \A j \in 1..Len(wire') : j + 1 \in 1..Len(wire) /\ wire'[j] = wire[j + 1] /\ 1 < j + 1
      /\ UNCHANGED buf /\ UNCHANGED pc /\ UNCHANGED job /\ UNCHANGED handled
  <2>1. /\ Removed(1) /\ Head(wire) = wire[1] /\ Len(wire) \in Nat
    BY ReceiveRemoves, WireFacts
  <2>2. UNCHANGED buf /\ UNCHANGED pc /\ UNCHANGED job /\ UNCHANGED handled
    BY DEF ServerReceive, clientVars, history
  <2> QED
    BY <2>1, <2>2 DEF Removed
<1>1. ~ \E w \in Workers : Deliver(m, w)
  BY <1>0 DEF Deliver
<1>2. PacketsStay(m, [j \in Nat |-> j + 1])
  BY <1>0, LessWire
<1>3. ASSUME NEW i \in 1..Len(wire), i # 1
      PROVE  \E j \in 1..Len(wire') : wire'[j] = wire[i]
  <2>1. i - 1 \in 1..Len(wire') /\ (i - 1) + 1 = i
    BY <1>0, <1>3
  <2> QED
    BY <1>0, <2>1
<1>4. ASSUME srv[m] = "acked" => srv'[m] = "acked", wire[1].op # "ack" \/ wire[1].msg # m
      PROVE  Acked(m) => Acked(m)'
  BY <1>0, <1>3, <1>4 DEF Acked
<1>5. CASE wire[1].msg # m
  <2>1. srv'[m] = srv[m] /\ dlq'[m] = dlq[m]
    BY <1>0, <1>5 DEF ServerReceive, Shape, TypeOK
  <2> QED
    BY <1>0, <1>1, <1>2, <1>4, <1>5, <2>1, StillCalm
<1>6. CASE wire[1].msg = m /\ wire[1].op \in {"ack", "nak"}
  <2>1. srv[m] = "pending" /\ UNCHANGED dlq
    BY <1>0, <1>6 DEF CalmAt, FlightPending, Flying, OnWire, ServerReceive
  <2>2. ~Flying(m)'
    <3>1. ~HeldSomewhere(m)
      BY <1>0, <1>6 DEF HeldSomewhere, CalmAt, HolderAlone
    <3>2. ~HeldSomewhere(m)'
      BY <1>0, <3>1 DEF HeldSomewhere, Holds, Place
    <3>3. ~OnWire(m)'
      BY <1>0, <1>6 DEF OnWire, CalmAt, WireOrder
    <3> QED
      BY <3>2, <3>3 DEF Flying
  <2>3. Acked(m) => Acked(m)'
    <3>1. CASE wire[1].op = "ack"
      <4>1. srv'[m] = "acked"
        BY <1>0, <1>6, <2>1, <3>1 DEF ServerReceive, Shape, TypeOK
      <4> QED
        BY <4>1 DEF Acked
    <3>2. CASE wire[1].op = "nak"
      BY <1>4, <2>1, <3>2
    <3> QED
      BY <1>6, <3>1, <3>2
  <2> QED
    BY <1>0, <1>1, <1>2, <2>1, <2>2, <2>3, StillCalm
<1>7. CASE wire[1].msg = m /\ wire[1].op = "dlq"
  <2>1. /\ UNCHANGED srv /\ dlq'[m] = Append(dlq[m], wire[1].num)
        /\ wire[1].num \in 1..Limit /\ dlq[m] \in Seq(1..Limit)
    BY <1>0, <1>7, WireFacts DEF ServerReceive, Shape, TypeOK
  <2>2. CopyOnWire(m)
    BY <1>0, <1>7 DEF CopyOnWire, CopyAt
  <2>3. /\ Acked(m) /\ ~(handled[m] > 0) /\ dlq[m] = <<>>
    BY <2>2 DEF CalmAt, OutcomeOnce
  <2>4. Acked(m)'
    BY <1>4, <1>7, <2>1, <2>3
  <2>5. ~CopyOnWire(m)'
    <3> SUFFICES ASSUME NEW j \in 1..Len(wire'), CopyAt(m, j)' PROVE FALSE
      BY DEF CopyOnWire
    <3>1. j + 1 \in 1..Len(wire) /\ 1 < j + 1 /\ wire[j + 1].msg = m /\ wire[j + 1].op = "dlq"
      BY <1>0 DEF CopyAt
    <3>2. wire[j + 1].op = "ack"
      BY <1>0, <1>7, <3>1 DEF CalmAt, WireOrder
    <3> QED
      BY <3>1, <3>2
  <2>6. Len(dlq'[m]) <= 1
    <3>1. Len(dlq[m]) = 0
      BY <2>3, EmptySeq
    <3>2. Len(dlq'[m]) = Len(dlq[m]) + 1
      BY <2>1, AppendProperties
    <3> QED
      BY <3>1, <3>2
  <2>7. OutcomeOnce(m)'
    BY <1>0, <2>3, <2>4, <2>5, <2>6 DEF CalmAt, OutcomeOnce
  <2>8. PICK k \in [Workers -> {0, 1}] : HoldsShift(m, k)
    BY <1>1, HoldsNext
  <2>9. ASSUME NEW w \in Workers, NEW i \in 0..Len(buf'[w])
        PROVE  Holds(w, i, m)' <=> Holds(w, i, m)
    BY <1>0 DEF Holds, Place
  <2>10. OneHolder(m)' /\ FlightPending(m)'
    <3>1. OneHolder(m)'
      BY <1>0, <2>9 DEF CalmAt, OneHolder
    <3>2. srv[m] = "pending"
      BY <1>0, <1>7 DEF CalmAt, FlightPending, Flying, OnWire
    <3> QED
      BY <2>1, <3>1, <3>2 DEF FlightPending
  <2>11. HolderAlone(m)'
    BY <1>0, <2>9 DEF CalmAt, HolderAlone
  <2>12. WireOrder(m)'
    <3>1. \A i, j \in 1..Len(wire') : i < j => i + 1 < j + 1
      BY <1>0
    <3> QED
      BY <1>0, <3>1 DEF CalmAt, WireOrder
  <2> QED
    BY <2>7, <2>10, <2>11, <2>12 DEF CalmAt
<1> QED
  <2>1. wire[1] \in Packets
    BY <1>0, WireFacts
  <2> QED
    BY <1>5, <1>6, <1>7, <2>1 DEF Packets

LEMMA CallbackCalm ==
  ASSUME Shape, Shape', [Next]_vars, NEW m \in Msgs, CalmAt(m),
         NEW w \in Workers, Callback(w), "sendError" \notin faults
  PROVE  CalmAt(m)'
PROOF
<1> USE DEF serverVars, history
<1>0. /\ pc[w] # "idle" /\ job[w].msg \in Msgs
      /\ UNCHANGED srv /\ UNCHANGED dlq
      /\ pc \in [Workers -> CallbackPcs] /\ job \in [Workers -> Deliveries \union {NoJob}]
      /\ \A v \in Workers \ {w} : pc'[v] = pc[v] /\ job'[v] = job[v]
  <2>1. pc[w] # "idle"
    BY DEF Callback, HandlerSucceeds, HandlerFails, HandlerPanics, Ack, NakError, PublishToDLQ
  <2>2. pc \in [Workers -> CallbackPcs] /\ job \in [Workers -> Deliveries \union {NoJob}]
    BY DEF Shape, TypeOK
  <2>3. \A v \in Workers \ {w} : pc'[v] = pc[v] /\ job'[v] = job[v]
    BY <2>2 DEF Callback, HandlerSucceeds, HandlerFails, HandlerPanics, Ack, NakError,
       PublishToDLQ, Return
  <2> QED
    BY <2>1, <2>2, <2>3, CallbackPlaces, PacketFacts
<1>1. ~ \E v \in Workers : Deliver(m, v)
  <2>1. UNCHANGED dc /\ dc \in [Msgs -> 0..Limit]
    BY CallbackPlaces DEF Shape, TypeOK
  <2>2. dc[m] \in Int
    BY <2>1, LimitFacts
  <2> QED
    BY <2>1, <2>2 DEF Deliver
<1>2. \/ UNCHANGED wire
      \/ \E op \in {"ack", "nak", "dlq"} : wire' = Append(wire, Packet(op, w))
  BY DEF Callback, HandlerSucceeds, HandlerFails, HandlerPanics, Ack, NakError,
     PublishToDLQ, Send
<1>3. Len(wire') >= Len(wire) /\ Len(wire) \in Nat /\ \A j \in 1..Len(wire) : wire'[j] = wire[j]
  BY <1>0, <1>2, SendSends, WireFacts DEF Sent
<1>4. ASSUME ~(pc[w] = "ack" /\ job[w].msg = m)
      PROVE  Acked(m) => Acked(m)'
  BY <1>0, <1>3, <1>4 DEF Acked
<1>5. CASE job[w].msg # m
  <2>1. PacketsStay(m, [j \in Nat |-> j])
    BY <1>0, <1>2, <1>5, SameWire, MoreWire, SendSends
  <2>2. handled'[m] = handled[m]
    BY <1>5 DEF Callback, HandlerSucceeds, HandlerFails, HandlerPanics, Ack, NakError,
       PublishToDLQ, Shape, TypeOK
  <2> QED
    BY <1>0, <1>1, <1>4, <1>5, <2>1, <2>2, StillCalm
<1>6. CASE job[w].msg = m /\ (HandlerFails(w) \/ HandlerPanics(w))
  <2>1. UNCHANGED wire /\ UNCHANGED handled /\ pc[w] # "ack"
    BY <1>6 DEF HandlerFails, HandlerPanics
  <2>2. PacketsStay(m, [j \in Nat |-> j])
    BY <2>1, SameWire
  <2> QED
    BY <1>0, <1>1, <1>4, <2>1, <2>2, StillCalm
<1>7. CASE job[w].msg = m /\ HandlerSucceeds(w)
  BY <1>7, SuccessCalm
<1>8. CASE job[w].msg = m /\ Ack(w)
  <2>1. /\ wire' = Append(wire, Packet("ack", w)) /\ pc[w] = "ack"
        /\ job'[w] = NoJob /\ UNCHANGED handled
    BY <1>0, <1>8 DEF Ack, Send, Return
  <2> QED
    BY <1>0, <1>1, <1>8, <2>1, SendCalm
<1>10. CASE job[w].msg = m /\ NakError(w)
  <2>1. /\ wire' = Append(wire, Packet("nak", w)) /\ pc[w] = "failed"
        /\ job'[w] = NoJob /\ UNCHANGED handled
    BY <1>0, <1>10 DEF NakError, Send, Return
  <2> QED
    BY <1>0, <1>1, <1>10, <2>1, SendCalm
<1>9. CASE job[w].msg = m /\ PublishToDLQ(w)
  <2>1. /\ wire' = Append(wire, Packet("dlq", w)) /\ pc[w] = "failed"
        /\ pc' = [pc EXCEPT ![w] = "ack"] /\ UNCHANGED job /\ UNCHANGED handled
    BY <1>9 DEF PublishToDLQ
  <2>2. pc'[w] = "ack" /\ job'[w] = job[w]
    BY <1>0, <2>1
  <2> QED
    BY <1>0, <1>1, <1>9, <2>1, <2>2, SendCalm
<1> QED
  BY <1>5, <1>6, <1>7, <1>8, <1>9, <1>10 DEF Callback

LEMMA FaultsKept == [Next]_vars => UNCHANGED faults
PROOF
  BY DEF Next, Deliver, Exhaust, AckWaitExpires, ServerReceive, LosePacket, StartJetStream,
     StopConsume, Receive, Callback, HandlerSucceeds, HandlerFails, HandlerPanics, Ack,
     NakError, PublishToDLQ, Crash, Finished, vars

LEMMA CalmAtNext ==
  ASSUME Shape, Shape', [Next]_vars, Calm, NEW m \in Msgs, CalmAt(m)
  PROVE  CalmAt(m)'
PROOF
<1> USE DEF vars, serverVars, clientVars, history
<1>0. {"slow", "lost", "crash", "sendError"} \intersect faults = {}
  BY DEF Calm
<1>1. ASSUME ~ \E w \in Workers : Deliver(m, w), UNCHANGED wire, UNCHANGED dlq,
             UNCHANGED handled,
             srv[m] = "pending" /\ Flying(m)' => srv'[m] = "pending", Acked(m) => Acked(m)'
      PROVE  CalmAt(m)'
  BY <1>1, SameWire, StillCalm
<1>2. ASSUME UNCHANGED wire, UNCHANGED pc, UNCHANGED job, srv[m] = "acked" => srv'[m] = "acked"
      PROVE  Acked(m) => Acked(m)'
  BY <1>2 DEF Acked
<1>3. CASE \E w \in Workers : Deliver(m, w)
  BY <1>3, DeliverCalm
<1>4. ASSUME NEW n \in Msgs, NEW w \in Workers, Deliver(n, w), ~ \E v \in Workers : Deliver(m, v)
      PROVE  CalmAt(m)'
  <2>1. /\ srv'[m] = srv[m]
        /\ UNCHANGED wire /\ UNCHANGED dlq /\ UNCHANGED pc /\ UNCHANGED job /\ UNCHANGED handled
    BY <1>4 DEF Deliver, Shape, TypeOK
  <2>2. Acked(m) => Acked(m)'
    BY <1>2, <2>1
  <2> QED
    BY <1>1, <1>4, <2>1, <2>2
<1>5. ASSUME NEW n \in Msgs, Exhaust(n) \/ AckWaitExpires(n)
      PROVE  CalmAt(m)'
  <2>1. /\ UNCHANGED wire /\ UNCHANGED dlq /\ UNCHANGED pc /\ UNCHANGED job
        /\ UNCHANGED handled /\ UNCHANGED dc /\ UNCHANGED buf
        /\ srv[m] = "acked" => srv'[m] = "acked"
    BY <1>5 DEF Exhaust, AckWaitExpires, Shape, TypeOK
  <2>2. ~ \E v \in Workers : Deliver(m, v)
    <3>1. dc[m] \in 0..Limit /\ Limit \in Nat /\ dc \in [Msgs -> 0..Limit]
      BY LimitFacts DEF Shape, TypeOK
    <3> QED
      BY <2>1, <3>1 DEF Deliver
  <2>3. srv[m] = "pending" /\ Flying(m)' => srv'[m] = "pending"
    <3>1. Flying(m)' => InFlight(m)
      BY <2>1 DEF Flying, HeldSomewhere, Holds, Place, OnWire, InFlight, Buffered, InHand
    <3> QED
      BY <1>0, <1>5, <3>1 DEF Exhaust, AckWaitExpires, Shape, TypeOK
  <2> QED
    BY <1>1, <1>2, <2>1, <2>2, <2>3
<1>6. CASE ServerReceive
  BY <1>6, ServerReceiveCalm
<1>7. ASSUME NEW w \in Workers, StartJetStream(w) \/ StopConsume(w) \/ Receive(w)
      PROVE  CalmAt(m)'
  <2>1. /\ UNCHANGED wire /\ UNCHANGED dlq /\ UNCHANGED srv
        /\ UNCHANGED handled /\ UNCHANGED dc
    BY <1>7 DEF StartJetStream, StopConsume, Receive
  <2>2. ~ \E v \in Workers : Deliver(m, v)
    <3>1. dc[m] \in 0..Limit /\ Limit \in Nat /\ dc \in [Msgs -> 0..Limit]
      BY LimitFacts DEF Shape, TypeOK
    <3> QED
      BY <2>1, <3>1 DEF Deliver
  <2>3. \A v \in Workers : pc[v] = "ack" => pc'[v] = "ack" /\ job'[v] = job[v]
    BY <1>7 DEF StartJetStream, StopConsume, Receive, Shape, TypeOK
  <2>4. Acked(m) => Acked(m)'
    BY <2>1, <2>3 DEF Acked
  <2> QED
    BY <1>1, <2>1, <2>2, <2>4
<1>8. ASSUME NEW w \in Workers, Callback(w)
      PROVE  CalmAt(m)'
  BY <1>0, <1>8, CallbackCalm
<1>9. CASE UNCHANGED vars
  <2>1. ~ \E v \in Workers : Deliver(m, v)
    <3>1. dc[m] \in 0..Limit /\ Limit \in Nat /\ dc \in [Msgs -> 0..Limit]
      BY LimitFacts DEF Shape, TypeOK
    <3> QED
      BY <1>9, <3>1 DEF Deliver
  <2> QED
    BY <1>1, <1>2, <1>9, <2>1
<1>10. ~Crash /\ \A i \in 1..Len(wire) : ~LosePacket(i)
  BY <1>0 DEF Crash, LosePacket
<1> QED
  BY <1>3, <1>4, <1>5, <1>6, <1>7, <1>8, <1>9, <1>10 DEF Next, Finished

LEMMA CalmInit == Init => CalmInv
PROOF
<1> SUFFICES ASSUME Init PROVE CalmInv
  OBVIOUS
<1>1. Held /\ Shape
  BY HeldInit DEF Held
<1>2. \A i \in 1..Len(wire) : FALSE
  BY EmptySeq DEF Init
<1>3. ASSUME NEW w \in Workers, NEW i \in 0..Len(buf[w])
      PROVE  Place(w, i) = NoJob
  BY <1>3, EmptySeq DEF Init, Place
<1>4. \A m \in Msgs : ~(dlq[m] # <<>>) /\ handled[m] = 0
  BY DEF Init
<1>5. \A m \in Msgs : Len(dlq[m]) <= 1
  <2>1. \A m \in Msgs : dlq[m] = <<>>
    BY DEF Init
  <2>2. Len(<<>>) <= 1
    OBVIOUS
  <2> QED
    BY <2>1, <2>2, Zenon
<1>6. ASSUME NEW m \in Msgs
      PROVE  CalmAt(m)
  <2>1. \A w \in Workers : \A i \in 0..Len(buf[w]) : ~Holds(w, i, m)
    BY <1>3 DEF Holds
  <2>2. ~CopyOnWire(m) /\ ~OnWire(m)
    BY <1>2 DEF CopyOnWire, OnWire
  <2>3. OneHolder(m) /\ FlightPending(m) /\ HolderAlone(m) /\ WireOrder(m)
    BY <1>2, <2>1, <2>2
       DEF OneHolder, FlightPending, HolderAlone, WireOrder, Flying, HeldSomewhere
  <2>4. OutcomeOnce(m)
    BY <1>4, <1>5, <2>2 DEF OutcomeOnce
  <2> QED
    BY <2>3, <2>4 DEF CalmAt
<1> QED
  BY <1>1, <1>6 DEF CalmInv

LEMMA CalmNext == CalmInv /\ [Next]_vars => CalmInv'
PROOF
<1> SUFFICES ASSUME CalmInv, [Next]_vars PROVE CalmInv'
  OBVIOUS
<1>1. Held /\ Shape /\ Held' /\ Shape'
  BY HeldNext, ShapeNext DEF CalmInv, Held
<1>2. Calm' => Calm
  BY FaultsKept DEF Calm
<1> QED
  BY <1>1, <1>2, CalmAtNext DEF CalmInv

\* The inductive invariant of the calm behaviours holds: the one delivery the server
\* waits for is in one place, and has sent nothing before its callback ends but the copy
\* its Ack follows (consumer/consumer.go:183-242).
THEOREM CalmInvariant == Spec => []CalmInv
PROOF
  BY CalmInit, CalmNext, PTL DEF Spec

\* While nobody is slow or crashes, no packet is lost and no send returns an error,
\* one worker at a time works on a message: the callback acknowledges as its last step.
THEOREM HandledByOne == Spec => []NoConcurrentHandling
PROOF
<1>1. CalmInv => NoConcurrentHandling
  <2> SUFFICES ASSUME CalmInv, Calm, NEW v \in Workers, NEW w \in Workers,
                      v # w, pc[v] # "idle", pc[w] # "idle", job[v].msg = job[w].msg
               PROVE  FALSE
    BY DEF NoConcurrentHandling, Calm
  <2>1. Shape
    BY DEF CalmInv, Held
  <2>2. PICK m \in Msgs : m = job[v].msg
    BY <2>1, InCallback
  <2>3. /\ 0 \in 0..Len(buf[v]) /\ Holds(v, 0, m)
        /\ 0 \in 0..Len(buf[w]) /\ Holds(w, 0, m)
    BY <2>1, <2>2, InCallback
  <2>4. OneHolder(m)
    BY DEF CalmInv, CalmAt
  <2> QED
    BY <2>3, <2>4 DEF OneHolder
<1> QED
  BY <1>1, CalmInvariant, PTL

\* Under the same conditions (no slow handler, crash, lost packet or send error) a
\* message has one outcome: no second success, and never a success and a copy on the
\* DLQ subject.
THEOREM OutcomeIsOne == Spec => []OneOutcome
PROOF
<1>1. CalmInv => OneOutcome
  <2> SUFFICES ASSUME CalmInv, Calm, NEW m \in Msgs
               PROVE  handled[m] + Len(dlq[m]) <= 1
    BY DEF OneOutcome, Calm
  <2>1. OutcomeOnce(m) /\ handled[m] \in Nat /\ dlq[m] \in Seq(1..Limit)
    BY DEF CalmInv, CalmAt, Held, Shape, TypeOK
  <2>2. Len(dlq[m]) \in Nat
    BY <2>1, LenProperties
  <2>3. CASE dlq[m] = <<>>
    <3>1. Len(dlq[m]) = 0
      BY <2>3, EmptySeq
    <3> QED
      BY <2>1, <3>1 DEF OutcomeOnce
  <2>4. CASE dlq[m] # <<>>
    BY <2>1, <2>2, <2>4 DEF OutcomeOnce
  <2> QED
    BY <2>3, <2>4
<1> QED
  BY <1>1, CalmInvariant, PTL

-----------------------------------------------------------------------------
(* AckWait alone goes wrong *)

Slow == faults \subseteq {"slow"}

\* A message that is given up has no delivery left; a packet is lost only where the
\* connection loses packets.
Exhausted ==
  /\ \A m \in Msgs : srv[m] = "exhausted" => MaxDeliver > 0 /\ dc[m] = MaxDeliver
  /\ lostDLQ # {} => "lost" \in faults

\* The last delivery is held until the message has an outcome.
LastKept(m) ==
  MaxDeliver > 0 /\ dc[m] = MaxDeliver =>
    \/ HasOutcome(m) \/ CopyOnWire(m)
    \/ \E w \in Workers : \E i \in 0..Len(buf[w]) : Place(w, i) = Last(m)

SlowInv == IInv /\ Exhausted /\ (Slow => \A m \in Msgs : LastKept(m))

LEMMA ExhaustedNext ==
  ASSUME Shape, Exhausted, [Next]_vars
  PROVE  Exhausted'
PROOF
<1> USE DEF vars, serverVars, clientVars, history
<1>0. /\ srv \in [Msgs -> SrvStates] /\ dc \in [Msgs -> 0..Limit] /\ Limit \in Nat
      /\ MaxDeliver \in Int
  BY LimitFacts, MaxDeliverAssumption DEF Shape, TypeOK
<1>1. lostDLQ' # {} => "lost" \in faults'
  <2>1. UNCHANGED lostDLQ \/ "lost" \in faults
    BY DEF Next, Deliver, Exhaust, AckWaitExpires, ServerReceive, LosePacket, StartJetStream,
       StopConsume, Receive, Callback, HandlerSucceeds, HandlerFails, HandlerPanics, Ack,
       NakError, PublishToDLQ, Crash, Finished
  <2> QED
    BY <2>1, FaultsKept DEF Exhausted
<1>2. ASSUME NEW m \in Msgs, srv'[m] = "exhausted"
      PROVE  MaxDeliver > 0 /\ dc'[m] = MaxDeliver
  <2>1. CASE ~UNCHANGED srv
    <3>1. ASSUME NEW n \in Msgs, Exhaust(n)
          PROVE  MaxDeliver > 0 /\ dc'[m] = MaxDeliver
      <4>1. /\ dc[n] >= MaxDeliver /\ MaxDeliver > 0 /\ UNCHANGED dc
            /\ srv' = [srv EXCEPT ![n] = "exhausted"]
        BY <3>1 DEF Exhaust
      <4>2. dc[n] = MaxDeliver
        BY <1>0, <4>1 DEF Limit
      <4> QED
        BY <1>0, <1>2, <4>1, <4>2 DEF Exhausted
    <3>2. ASSUME NEW n \in Msgs, AckWaitExpires(n) \/ \E w \in Workers : Deliver(n, w)
          PROVE  MaxDeliver > 0 /\ dc'[m] = MaxDeliver
      BY <1>0, <1>2, <3>2 DEF AckWaitExpires, Deliver, Exhausted
    <3>3. CASE ServerReceive
      <4>1. srv[m] = "exhausted" /\ UNCHANGED dc
        BY <1>0, <1>2, <3>3 DEF ServerReceive
      <4> QED
        BY <4>1 DEF Exhausted
    <3> QED
      BY <2>1, <3>1, <3>2, <3>3
         DEF Next, LosePacket, StartJetStream, StopConsume, Receive, Callback, HandlerSucceeds,
             HandlerFails, HandlerPanics, Ack, NakError, PublishToDLQ, Crash, Finished
  <2>2. CASE UNCHANGED srv
    <3>1. dc'[m] = dc[m]
      <4>1. UNCHANGED dc \/ \E n \in Msgs, w \in Workers : Deliver(n, w)
        BY NextShifts
      <4>2. ASSUME NEW n \in Msgs, NEW w \in Workers, Deliver(n, w)
            PROVE  n # m /\ dc'[m] = dc[m]
        BY <1>0, <1>2, <2>2, <4>2 DEF Deliver
      <4> QED
        BY <4>1, <4>2
    <3> QED
      BY <1>2, <2>2, <3>1 DEF Exhausted
  <2> QED
    BY <2>1, <2>2
<1> QED
  BY <1>1, <1>2 DEF Exhausted

\* A buffered delivery keeps its place or moves up; only a stop or a crash drops it.
LEMMA PlacesKept ==
  ASSUME Shape, [Next]_vars, Slow, NEW m \in Msgs, MaxDeliver > 0,
         NEW w \in Workers, NEW i \in 0..Len(buf[w]), Place(w, i) = Last(m),
         i = 0 => job'[w] = job[w]
  PROVE  \E v \in Workers : \E j \in 0..Len(buf'[v]) : Place(v, j)' = Last(m)
PROOF
<1> USE DEF vars, serverVars, clientVars, history
<1>0. /\ {"stop", "crash", "panic"} \intersect faults = {} /\ Last(m) # NoJob
      /\ Len(buf[w]) \in Nat
  BY MaxDeliverAssumption, PlaceFacts DEF Slow, Last, NoJob
<1>1. CASE UNCHANGED buf
  <2>1. Place(w, i)' = Place(w, i) /\ i \in 0..Len(buf'[w])
    BY <1>1 DEF Place
  <2> QED
    BY <2>1
<1>2. ASSUME NEW n \in Msgs, NEW v \in Workers, Deliver(n, v)
      PROVE  \E u \in Workers : \E j \in 0..Len(buf'[u]) : Place(u, j)' = Last(m)
  <2>1. Place(w, i)' = Place(w, i)
    BY <1>2, DeliverPlaces
  <2>2. Len(buf'[w]) \in {Len(buf[w]), Len(buf[w]) + 1}
    BY <1>2, DeliverPlaces
  <2>3. i \in 0..Len(buf'[w])
    BY <1>0, <2>2
  <2> QED
    BY <2>1, <2>3
<1>3. ASSUME NEW v \in Workers, Receive(v)
      PROVE  \E u \in Workers : \E j \in 0..Len(buf'[u]) : Place(u, j)' = Last(m)
  <2>1. CASE v # w
    <3>1. buf'[w] = buf[w] /\ job'[w] = job[w]
      BY <1>3, <2>1 DEF Receive, Shape, TypeOK
    <3>2. Place(w, i)' = Place(w, i) /\ i \in 0..Len(buf'[w])
      BY <3>1 DEF Place
    <3> QED
      BY <3>2
  <2>2. CASE v = w
    <3>1. /\ buf'[w] = Tail(buf[w]) /\ job'[w] = Head(buf[w]) /\ job[w] = NoJob
          /\ buf[w] # <<>> /\ buf[w] \in Seq(Deliveries)
      BY <1>3, <2>2 DEF Receive, Shape, TypeOK, JobShape
    <3>2. /\ Len(buf'[w]) = Len(buf[w]) - 1
          /\ \A j \in 1..Len(buf'[w]) : buf'[w][j] = buf[w][j + 1]
          /\ job'[w] = buf[w][1]
      BY <3>1, HeadTailProperties
    <3>3. i # 0
      BY <1>0, <3>1 DEF Place
    <3>4. i - 1 \in 0..Len(buf'[w]) /\ (i - 1 # 0 => i - 1 \in 1..Len(buf'[w])) /\ (i - 1) + 1 = i
          /\ i \in Int
      BY <1>0, <3>2, <3>3
    <3>5. ASSUME NEW j, j = i - 1
          PROVE  Place(w, j)' = Place(w, i)
      BY <3>2, <3>3, <3>4, <3>5 DEF Place
    <3> QED
      BY <3>4, <3>5
  <2> QED
    BY <2>1, <2>2
<1>4. UNCHANGED buf \/ (\E n \in Msgs, v \in Workers : Deliver(n, v)) \/ \E v \in Workers : Receive(v)
  BY <1>0 DEF Next, Exhaust, AckWaitExpires, ServerReceive, LosePacket, StartJetStream,
     StopConsume, Callback, HandlerSucceeds, HandlerFails, HandlerPanics, Ack, NakError,
     PublishToDLQ, Crash, Finished
<1> QED
  BY <1>1, <1>2, <1>3, <1>4

LEMMA LastKeptNext ==
  ASSUME DLQEnabled, IInv, IInv', Exhausted, [Next]_vars, Slow, NEW m \in Msgs, LastKept(m)
  PROVE  LastKept(m)'
PROOF
<1> USE DEF vars, serverVars, clientVars, history
<1>0. /\ Shape /\ Shape' /\ Held
      /\ {"stop", "crash", "panic", "lost", "sendError"} \intersect faults = {}
      /\ Len(wire) \in Nat
  <2>1. Shape /\ Shape' /\ Held
    BY DEF IInv, Held
  <2> QED
    BY <2>1, WireFacts DEF Slow
<1> SUFFICES ASSUME MaxDeliver > 0, dc'[m] = MaxDeliver
             PROVE  \/ HasOutcome(m)' \/ CopyOnWire(m)'
                    \/ \E v \in Workers : \E j \in 0..Len(buf'[v]) : Place(v, j)' = Last(m)
  BY DEF LastKept
<1>1. OutcomesKept
  BY <1>0, OutcomesNext
<1>2. CASE HasOutcome(m)
  BY <1>1, <1>2 DEF OutcomesKept
<1>3. CASE CopyOnWire(m)
  <2>1. PICK i \in 1..Len(wire) : CopyAt(m, i)
    BY <1>3 DEF CopyOnWire
  <2>2. CASE ServerReceive
    <3>1. Removed(1) /\ Head(wire) = wire[1]
      BY <1>0, <2>2, ReceiveRemoves
    <3>2. CASE i = 1
      <4>1. dlq'[m] = Append(dlq[m], wire[1].num) /\ wire[1].num \in 1..Limit /\ dlq[m] \in Seq(1..Limit)
        BY <1>0, <2>1, <2>2, <3>1, <3>2, WireFacts DEF CopyAt, ServerReceive, Shape, TypeOK
      <4>2. Len(dlq'[m]) = Len(dlq[m]) + 1 /\ Len(dlq[m]) \in Nat
        BY <4>1, AppendProperties, LenProperties
      <4>3. dlq'[m] # <<>>
        BY <4>2, EmptySeq
      <4> QED
        BY <4>3 DEF HasOutcome
    <3>3. CASE i # 1
      <4>1. i - 1 \in 1..Len(wire') /\ wire'[i - 1] = wire[i]
        BY <1>0, <3>1, <3>3 DEF Removed
      <4>2. ASSUME NEW j, j = i - 1 PROVE CopyAt(m, j)'
        BY <2>1, <4>1, <4>2 DEF CopyAt
      <4> QED
        BY <4>1, <4>2 DEF CopyOnWire
    <3> QED
      BY <3>2, <3>3
  <2>3. CASE \E w \in Workers : Callback(w)
    <3>1. \/ UNCHANGED wire
          \/ \E op \in {"ack", "nak", "dlq"}, w \in Workers :
               wire' = Append(wire, Packet(op, w)) /\ pc[w] # "idle"
      BY <2>3 DEF Callback, HandlerSucceeds, HandlerFails, HandlerPanics, Ack, NakError,
         PublishToDLQ, Send
    <3>2. i \in 1..Len(wire') /\ wire'[i] = wire[i]
      BY <1>0, <3>1, SendSends DEF Sent
    <3>3. CopyAt(m, i)'
      BY <2>1, <3>2 DEF CopyAt
    <3> QED
      BY <3>2, <3>3 DEF CopyOnWire
  <2>4. CASE UNCHANGED wire
    BY <1>3, <2>4 DEF CopyOnWire, CopyAt
  <2> QED
    BY <1>0, <2>2, <2>3, <2>4 DEF Next, Deliver, Exhaust, AckWaitExpires, LosePacket,
       StartJetStream, StopConsume, Receive, Crash, Finished
<1>4. ASSUME NEW w \in Workers, NEW i \in 0..Len(buf[w]), Place(w, i) = Last(m)
      PROVE  \/ HasOutcome(m)' \/ CopyOnWire(m)'
             \/ \E v \in Workers : \E j \in 0..Len(buf'[v]) : Place(v, j)' = Last(m)
  <2>1. CASE i # 0 \/ job'[w] = job[w]
    BY <1>0, <1>4, <2>1, PlacesKept
  <2>2. CASE i = 0 /\ job'[w] # job[w]
    <3>1. job[w] = Last(m) /\ pc[w] # "idle"
      <4>1. Last(m) # NoJob
        BY MaxDeliverAssumption DEF Last, NoJob
      <4> QED
        BY <1>0, <1>4, <2>2, <4>1 DEF Place, Shape, JobShape
    <3>2. Ack(w) \/ NakError(w) \/ PublishToDLQ(w)
      BY <1>0, <2>2, <3>1 DEF Next, Deliver, Exhaust, AckWaitExpires, ServerReceive, LosePacket,
         StartJetStream, StopConsume, Receive, Callback, HandlerSucceeds, HandlerFails,
         HandlerPanics, Ack, NakError, PublishToDLQ, Return, Crash, Finished, Shape, TypeOK
    <3>3. LastDelivery(w)
      BY <3>1, MaxDeliverAssumption DEF LastDelivery, Last
    <3>4. Ack(w)
      BY <1>0, <2>2, <3>2, <3>3 DEF NakError, PublishToDLQ
    <3>5. PICK k \in 0..Len(wire) : Vouched(m, k)
      BY <3>1, <3>4 DEF Ack, Last, IInv, AcksVouched
    <3>6. m \notin lostDLQ
      BY <1>0 DEF Exhausted
    <3>7. CopyAhead(m, k) => CopyOnWire(m)
      BY <1>0 DEF CopyAhead, CopyOnWire, CopyAt
    <3> QED
      BY <1>2, <1>3, <3>5, <3>6, <3>7 DEF Vouched
  <2> QED
    BY <2>1, <2>2
<1>5. CASE dc[m] # MaxDeliver
  <2>1. PICK w \in Workers : Deliver(m, w)
    <3>1. ASSUME NEW n \in Msgs, NEW w \in Workers, Deliver(n, w)
          PROVE  n = m
      BY <1>0, <1>5, <3>1 DEF Deliver, Shape, TypeOK
    <3> QED
      BY <1>0, <1>5, <3>1, NextShifts
  <2>2. dc[m] + 1 = MaxDeliver
    <3>1. dc \in [Msgs -> 0..Limit] /\ Limit \in Nat /\ dc' = [dc EXCEPT ![m] = @ + 1]
      BY <1>0, <2>1, LimitFacts DEF Deliver, Shape, TypeOK
    <3> QED
      BY <3>1
  <2>3. ASSUME NEW i, i = Len(buf[w]) + 1 PROVE Place(w, i)' = Last(m)
    BY <1>0, <2>1, <2>2, <2>3, DeliverPlaces DEF Last
  <2>4. Len(buf[w]) + 1 \in 0..Len(buf'[w])
    <3>1. Len(buf'[w]) = Len(buf[w]) + 1 /\ Len(buf[w]) \in Nat
      BY <1>0, <2>1, DeliverPlaces, PlaceFacts
    <3> QED
      BY <3>1
  <2> QED
    BY <2>3, <2>4
<1> QED
  BY <1>2, <1>3, <1>4, <1>5 DEF LastKept

\* The inductive invariant of the behaviours where AckWait alone goes wrong.
LEMMA SlowInvariant ==
  ASSUME DLQEnabled
  PROVE  Spec => []SlowInv
PROOF
<1>1. Init => SlowInv
  <2> SUFFICES ASSUME Init PROVE SlowInv
    OBVIOUS
  <2>1. IInv
    BY IInvInit
  <2>2. Exhausted
    BY DEF Init, Exhausted
  <2>3. ASSUME NEW m \in Msgs PROVE LastKept(m)
    BY MaxDeliverAssumption DEF Init, LastKept
  <2> QED
    BY <2>1, <2>2, <2>3 DEF SlowInv
<1>2. SlowInv /\ [Next]_vars => SlowInv'
  <2> SUFFICES ASSUME SlowInv, [Next]_vars PROVE SlowInv'
    OBVIOUS
  <2>1. IInv /\ IInv' /\ Shape /\ Exhausted
    BY IInvNext DEF SlowInv, IInv, Held
  <2>2. Exhausted'
    BY <2>1, ExhaustedNext
  <2>3. Slow' => Slow
    BY FaultsKept DEF Slow
  <2> QED
    BY <2>1, <2>2, <2>3, LastKeptNext DEF SlowInv
<1> QED
  BY <1>1, <1>2, PTL DEF Spec

\* With the DLQ, when the only thing that goes wrong is AckWait, a message that has
\* used up its deliveries and is out of the client's hands has an outcome.
THEOREM SlowKeepsMessages ==
  ASSUME DLQEnabled
  PROVE  Spec => []SlownessLosesNothing
PROOF
<1>1. SlowInv => SlownessLosesNothing
  <2> SUFFICES ASSUME SlowInv, Slow, NEW m \in Msgs, srv[m] = "exhausted", ~InFlight(m)
               PROVE  HasOutcome(m)
    BY DEF SlownessLosesNothing, NoMessageLost, Slow
  <2>1. MaxDeliver > 0 /\ dc[m] = MaxDeliver /\ LastKept(m)
    BY DEF SlowInv, Exhausted
  <2>2. ~CopyOnWire(m)
    BY DEF InFlight, OnWire, CopyOnWire, CopyAt
  <2>3. ASSUME NEW w \in Workers, NEW i \in 0..Len(buf[w]), Place(w, i) = Last(m)
        PROVE  FALSE
    <3>1. Len(buf[w]) \in Nat
      BY PlaceFacts DEF SlowInv, IInv, Held
    <3> QED
      BY <2>3, <3>1 DEF Place, Last, InFlight, Buffered, InHand
  <2> QED
    BY <2>1, <2>2, <2>3 DEF LastKept
<1>2. Spec => []SlowInv
  BY SlowInvariant
<1> QED
  BY <1>1, <1>2, PTL

=============================================================================
