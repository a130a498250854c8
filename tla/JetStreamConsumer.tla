------------------------- MODULE JetStreamConsumer -------------------------
(***************************************************************************)
(* A JetStream route (consumer/consumer.go: startJetStream and the         *)
(* functions its callback runs): the workers of the broker each hold a     *)
(* consume context on one durable consumer and share one connection.       *)
(*                                                                         *)
(* The server and the client library are external and are modelled by what *)
(* the code relies on.  The server counts the deliveries of a message,     *)
(* redelivers it after a Nak or after AckWait, and gives it up after       *)
(* MaxDeliver deliveries.  A consume context keeps a buffer of deliveries  *)
(* and runs the callback on one of them at a time; Stop discards the       *)
(* buffer.  What the client sends (acknowledgements and the messages for   *)
(* the DLQ subject) travels on one connection, in order.                   *)
(***************************************************************************)
EXTENDS Integers, Sequences

CONSTANTS
  Msgs,           \* the messages of the stream
  Workers,        \* the consume contexts
  MaxDeliver,     \* route.MaxDeliver(); router.New leaves a negative one alone
  DLQEnabled,     \* route.DLQEnabled()
  BufferCap,      \* bound on a consume context's buffer
  DeliveryBound,  \* bound on the deliveries of a message without a limit
  FaultSets       \* what may go wrong in a behaviour: one of these sets of faults

\* "slow"     AckWait may expire while a delivery is still being worked on
\* "panic"    the handler may panic
\* "stop"     a consume context may be stopped, and started again
\* "crash"    the process may die; another one takes over the durable
\* "sendError" Ack, Nak or the DLQ publish may return an error, nothing sent
\* "lost"     a reconnect may lose what was on the wire
FaultKinds == {"slow", "panic", "stop", "crash", "sendError", "lost"}

\* router.New replaces a MaxDeliver of 0 by the default.
ASSUME MaxDeliverAssumption == MaxDeliver \in Int \ {0}
ASSUME DLQAssumption == DLQEnabled \in BOOLEAN
ASSUME BoundsAssumption == BufferCap \in Nat /\ DeliveryBound \in Nat
ASSUME FaultsAssumption == FaultSets \subseteq SUBSET FaultKinds

VARIABLES
  srv,      \* the server's view of a message
  dc,       \* how often the server has delivered it
  dlq,      \* what arrived on the DLQ subject: retry counts, per message
  wire,     \* what the client has sent and the server not yet seen
  active,   \* the consume context is running
  buf,      \* its buffered deliveries
  pc,       \* what its callback is doing
  job,      \* the delivery the callback is working on
  faults,   \* what may go wrong in this behaviour, chosen once
  handled,  \* history: how often the handler returned no error, per message
  lostDLQ   \* history: the messages whose packet for the DLQ was lost

serverVars == <<srv, dc, dlq>>
clientVars == <<active, buf, pc, job>>
history    == <<handled, lostDLQ>>
vars       == <<serverVars, wire, clientVars, faults, history>>

SrvStates   == {"new", "pending", "redeliver", "acked", "exhausted"}
CallbackPcs == {"idle", "handling", "failed", "ack"}

\* The largest delivery count of a message.
Limit == IF MaxDeliver > 0 THEN MaxDeliver ELSE DeliveryBound

NoJob      == [msg |-> "none", num |-> 0]
Deliveries == [msg : Msgs, num : 1..Limit]
Packets    == [op : {"ack", "nak", "dlq"}, msg : Msgs, num : 1..Limit]

TypeOK ==
  /\ srv \in [Msgs -> SrvStates]
  /\ dc \in [Msgs -> 0..Limit]
  /\ dlq \in [Msgs -> Seq(1..Limit)]
  /\ wire \in Seq(Packets)
  /\ active \in [Workers -> BOOLEAN]
  /\ buf \in [Workers -> Seq(Deliveries)]
  /\ pc \in [Workers -> CallbackPcs]
  /\ job \in [Workers -> Deliveries \union {NoJob}]
  /\ faults \in FaultSets
  /\ handled \in [Msgs -> Nat] /\ lostDLQ \subseteq Msgs

Init ==
  /\ srv = [m \in Msgs |-> "new"]
  /\ dc = [m \in Msgs |-> 0]
  /\ dlq = [m \in Msgs |-> <<>>]
  /\ wire = <<>>
  /\ active = [w \in Workers |-> FALSE]
  /\ buf = [w \in Workers |-> <<>>]
  /\ pc = [w \in Workers |-> "idle"]
  /\ job = [w \in Workers |-> NoJob]
  /\ faults \in FaultSets
  /\ handled = [m \in Msgs |-> 0] /\ lostDLQ = {}

-----------------------------------------------------------------------------
(* Where a message is, outside the server *)

Buffered(m) == \E w \in Workers : \E i \in 1..Len(buf[w]) : buf[w][i].msg = m
InHand(m)   == \E w \in Workers : job[w].msg = m
OnWire(m)   == \E i \in 1..Len(wire) : wire[i].msg = m
InFlight(m) == Buffered(m) \/ InHand(m) \/ OnWire(m)

-----------------------------------------------------------------------------
(* The server *)

\* Deliver a new message, or one that waits for its redelivery.
Deliver(m, w) ==
  /\ srv[m] \in {"new", "redeliver"} /\ dc[m] < Limit
  /\ active[w] /\ Len(buf[w]) < BufferCap
  /\ srv' = [srv EXCEPT ![m] = "pending"]
  /\ dc' = [dc EXCEPT ![m] = @ + 1]
  /\ buf' = [buf EXCEPT ![w] = Append(@, [msg |-> m, num |-> dc[m] + 1])]
  /\ UNCHANGED <<dlq, wire, active, pc, job, faults, history>>

\* All deliveries are used up: the message is never delivered again.
Exhaust(m) ==
  /\ srv[m] = "redeliver" /\ MaxDeliver > 0 /\ dc[m] >= MaxDeliver
  /\ srv' = [srv EXCEPT ![m] = "exhausted"]
  /\ UNCHANGED <<dc, dlq, wire, clientVars, faults, history>>

\* AckWait passes without an acknowledgement.  A client that is not slow
\* settles what it holds in time.
AckWaitExpires(m) ==
  /\ srv[m] = "pending" /\ ("slow" \in faults \/ ~InFlight(m))
  /\ srv' = [srv EXCEPT ![m] = "redeliver"]
  /\ UNCHANGED <<dc, dlq, wire, clientVars, faults, history>>

\* The server takes the next packet.  An Ack settles a message it still keeps
\* open, whichever delivery it belongs to; a Nak queues a pending one again.
ServerReceive ==
  /\ wire # <<>>
  /\ wire' = Tail(wire)
  /\ LET p == Head(wire) IN
       \/ /\ p.op = "ack"
          /\ srv' = [srv EXCEPT ![p.msg] =
                       IF @ \in {"pending", "redeliver"} THEN "acked" ELSE @]
          /\ UNCHANGED dlq
       \/ /\ p.op = "nak"
          /\ srv' = [srv EXCEPT ![p.msg] = IF @ = "pending" THEN "redeliver" ELSE @]
          /\ UNCHANGED dlq
       \/ /\ p.op = "dlq"
          /\ dlq' = [dlq EXCEPT ![p.msg] = Append(@, p.num)]
          /\ UNCHANGED srv
  /\ UNCHANGED <<dc, clientVars, faults, history>>

\* A reconnect loses one packet; those before and after it still arrive.
LosePacket(i) ==
  /\ "lost" \in faults
  /\ wire' = SubSeq(wire, 1, i - 1) \o SubSeq(wire, i + 1, Len(wire))
  /\ lostDLQ' = IF wire[i].op = "dlq" THEN lostDLQ \union {wire[i].msg} ELSE lostDLQ
  /\ UNCHANGED <<serverVars, clientVars, faults, handled>>

-----------------------------------------------------------------------------
(* The consume contexts *)

\* startJetStream: create or update the durable, then Consume.  When one of them
\* returns an error there is no consume context, with or without the durable, and
\* the caller may start it again.  In a restart the callback that was running has
\* returned.
StartJetStream(w) ==
  /\ ~active[w] /\ pc[w] = "idle"
  /\ \E started \in BOOLEAN : active' = [active EXCEPT ![w] = started]
  /\ UNCHANGED <<serverVars, wire, buf, pc, job, faults, history>>

\* consumeCtx.Stop() from drainOnCancel: the buffer is discarded; a callback
\* that is running goes on to its end.
StopConsume(w) ==
  /\ "stop" \in faults /\ active[w]
  /\ active' = [active EXCEPT ![w] = FALSE]
  /\ buf' = [buf EXCEPT ![w] = <<>>]
  /\ UNCHANGED <<serverVars, wire, pc, job, faults, history>>

\* The process dies; what it had sent may have left in part.
Crash ==
  /\ "crash" \in faults
  /\ \E w \in Workers : active[w] \/ pc[w] # "idle"
  /\ \E n \in 0..Len(wire) : wire' = SubSeq(wire, 1, n)
  /\ active' = [w \in Workers |-> FALSE]
  /\ buf' = [w \in Workers |-> <<>>]
  /\ pc' = [w \in Workers |-> "idle"]
  /\ job' = [w \in Workers |-> NoJob]
  /\ UNCHANGED <<serverVars, faults, history>>

\* The callback starts on the next buffered delivery.
Receive(w) ==
  /\ active[w] /\ pc[w] = "idle" /\ buf[w] # <<>>
  /\ job' = [job EXCEPT ![w] = Head(buf[w])]
  /\ buf' = [buf EXCEPT ![w] = Tail(@)]
  /\ pc' = [pc EXCEPT ![w] = "handling"]
  /\ UNCHANGED <<serverVars, wire, active, faults, history>>

-----------------------------------------------------------------------------
(* handleJetStreamMessage, in the callback *)

Packet(op, w) == [op |-> op, msg |-> job[w].msg, num |-> job[w].num]

\* Ack, Nak and PublishMsg hand a packet to the connection or return an error.
\* The callers log the error of an acknowledgement and go on.
Send(op, w) ==
  \/ wire' = Append(wire, Packet(op, w))
  \/ "sendError" \in faults /\ UNCHANGED wire

\* The callback returns.
Return(w) ==
  /\ pc' = [pc EXCEPT ![w] = "idle"]
  /\ job' = [job EXCEPT ![w] = NoJob]

HandlerSucceeds(w) ==
  /\ pc[w] = "handling"
  /\ handled' = [handled EXCEPT ![job[w].msg] = @ + 1]
  /\ pc' = [pc EXCEPT ![w] = "ack"]
  /\ UNCHANGED <<serverVars, wire, active, buf, job, faults, lostDLQ>>

HandlerFails(w) ==
  /\ pc[w] = "handling"
  /\ pc' = [pc EXCEPT ![w] = "failed"]
  /\ UNCHANGED <<serverVars, wire, active, buf, job, faults, history>>

\* Mutant: nothing recovers the panic, the callback never returns.
HandlerPanicsUnrecovered(w) ==
  /\ pc[w] = "handling" /\ "panic" \in faults
  /\ pc' = [pc EXCEPT ![w] = "dead"]
  /\ UNCHANGED <<serverVars, wire, active, buf, job, faults, history>>

\* safeHandle recovers the panic: neither an Ack nor a Nak is sent.
HandlerPanics(w) ==
  /\ pc[w] = "handling" /\ "panic" \in faults
  /\ Return(w)
  /\ UNCHANGED <<serverVars, wire, active, buf, faults, history>>

\* Mutant: the message is not acknowledged.
AckForgotten(w) ==
  /\ pc[w] = "ack"
  /\ Return(w)
  /\ UNCHANGED <<serverVars, wire, active, buf, faults, history>>

\* msg.Ack(), after success or after the DLQ publish.
Ack(w) ==
  /\ pc[w] = "ack"
  /\ Send("ack", w)
  /\ Return(w)
  /\ UNCHANGED <<serverVars, active, buf, faults, history>>

\* Mutant: > for >=.
LastDeliveryStrict(w) == DLQEnabled /\ job[w].num > MaxDeliver

\* Mutant: one delivery too early.
LastDeliveryEarly(w) == DLQEnabled /\ job[w].num >= MaxDeliver - 1

\* The condition of handleJetStreamError for the DLQ.
LastDelivery(w) == DLQEnabled /\ job[w].num >= MaxDeliver

\* Mutant: handleJetStreamMessage does not return after the error and acks.
NakErrorFallsThrough(w) ==
  /\ pc[w] = "failed" /\ ~LastDelivery(w)
  /\ Send("nak", w)
  /\ pc' = [pc EXCEPT ![w] = "ack"]
  /\ UNCHANGED <<serverVars, active, buf, job, faults, history>>

\* handleJetStreamError without the DLQ: a Nak.
NakError(w) ==
  /\ pc[w] = "failed" /\ ~LastDelivery(w)
  /\ Send("nak", w)
  /\ Return(w)
  /\ UNCHANGED <<serverVars, active, buf, faults, history>>

\* Mutant: publishToDLQ acks although the publish failed.
PublishToDLQAckAnyway(w) ==
  /\ pc[w] = "failed" /\ LastDelivery(w)
  /\ Send("dlq", w)
  /\ pc' = [pc EXCEPT ![w] = "ack"]
  /\ UNCHANGED <<serverVars, active, buf, job, faults, history>>

\* publishToDLQ: publish, then Ack; or, when the publish fails, Nak.
PublishToDLQ(w) ==
  /\ pc[w] = "failed" /\ LastDelivery(w)
  /\ \/ /\ wire' = Append(wire, Packet("dlq", w))
        /\ pc' = [pc EXCEPT ![w] = "ack"] /\ UNCHANGED job
     \/ /\ "sendError" \in faults
        /\ Send("nak", w)
        /\ Return(w)
  /\ UNCHANGED <<serverVars, active, buf, faults, history>>

-----------------------------------------------------------------------------

\* The function the callback is in returns, or takes its next step.
Callback(w) ==
  \/ HandlerSucceeds(w) \/ HandlerFails(w) \/ HandlerPanics(w)
  \/ Ack(w) \/ NakError(w) \/ PublishToDLQ(w)

Settled(m) == srv[m] \in {"acked", "exhausted"}

\* The stream is worked off and the client has nothing left to do.
Finished ==
  /\ \A m \in Msgs : Settled(m) \/ (srv[m] = "redeliver" /\ dc[m] = Limit)
  /\ wire = <<>> /\ \A w \in Workers : pc[w] = "idle" /\ buf[w] = <<>> /\ active[w]
  /\ UNCHANGED vars

Next ==
  \/ \E m \in Msgs : \/ \E w \in Workers : Deliver(m, w)
                     \/ Exhaust(m) \/ AckWaitExpires(m)
  \/ ServerReceive
  \/ \E i \in 1..Len(wire) : LosePacket(i)
  \/ \E w \in Workers :
       StartJetStream(w) \/ StopConsume(w) \/ Receive(w) \/ Callback(w)
  \/ Crash
  \/ Finished

Spec == Init /\ [][Next]_vars

\* The server serves every message and reads the connection, timers expire, a
\* consume context runs its callback, whose handler returns, and a route that is not
\* running is started again until its start succeeds: when the broker gives up
\* instead, a later process does it.
Fairness ==
  /\ \A m \in Msgs : /\ WF_vars(\E w \in Workers : Deliver(m, w))
                     /\ WF_vars(Exhaust(m)) /\ WF_vars(AckWaitExpires(m))
  /\ WF_vars(ServerReceive)
  /\ \A w \in Workers : WF_vars(StartJetStream(w) \/ Receive(w) \/ Callback(w))

FairSpec == Spec /\ Fairness

-----------------------------------------------------------------------------
(* Properties *)

\* What becomes of a message: a handler finished it or the DLQ subject has it.
HasOutcome(m) == handled[m] > 0 \/ dlq[m] # <<>>

\* A message the server has settled on an Ack was handled or is on the DLQ
\* subject, across crashes, redeliveries and send errors: publishToDLQ acks after
\* its publish on the same connection.  The one way round it is a connection that
\* loses that publish and carries the Ack, as the publish is not confirmed
\* (consumer.go:193, 229-241).
AckedHasOutcome ==
  \A m \in Msgs : srv[m] = "acked" => HasOutcome(m) \/ m \in lostDLQ

\* A message reaches the DLQ subject at most once, however often AckWait,
\* crashes and restarts repeat its deliveries (consumer.go:206).
DLQAtMostOnce == \A m \in Msgs : Len(dlq[m]) <= 1

\* "Messages exceeding MaxDeliver are published to dlq.<subject>"
\* (README.md:170): a message on the DLQ subject has no delivery left
\* (consumer.go:206).
DLQOnlyAtLimit ==
  \A m \in Msgs : dlq[m] # <<>> => MaxDeliver > 0 /\ dc[m] = MaxDeliver

\* The contract of the route, see Delivery.
Contract == INSTANCE Delivery WITH
  stage   <- [m \in Msgs |-> IF srv[m] \in {"acked", "exhausted"} THEN srv[m] ELSE "open"],
  tries   <- dc,
  handled <- {m \in Msgs : handled[m] > 0},
  copies  <- [m \in Msgs |-> Len(dlq[m])],
  lost    <- lostDLQ

\* A JetStream route with a positive MaxDeliver implements its contract: whatever
\* goes wrong, each step is one the contract allows, or none (consumer.go:151-242).
ImplementsDelivery == Contract!Spec

\* The same line the other way round: a message that has used up its deliveries
\* and is out of the client's hands was handled or is on the DLQ subject
\* (consumer.go:198-242, 256-263).
NoMessageLost ==
  \A m \in Msgs : srv[m] = "exhausted" /\ ~InFlight(m) => HasOutcome(m)

\* That holds when the only thing that goes wrong is AckWait: the last delivery
\* still ends in the handler's success or on the DLQ subject (consumer.go:206).
SlownessLosesNothing == faults \subseteq {"slow"} => NoMessageLost

\* While nobody is slow or crashes, no packet is lost and no send returns an error,
\* one worker at a time works on a message: the callback acknowledges as its last
\* step (consumer.go:187-195).
NoConcurrentHandling ==
  faults \subseteq {"panic", "stop"} =>
    \A v, w \in Workers :
      v # w /\ pc[v] # "idle" /\ pc[w] # "idle" => job[v].msg # job[w].msg

\* Under the same conditions (no slow handler, crash, lost packet or send error) a
\* message has one outcome: no second success, and never a success and a DLQ copy
\* (consumer.go:187-195, 206-209).
OneOutcome ==
  faults \subseteq {"panic", "stop"} => \A m \in Msgs : handled[m] + Len(dlq[m]) <= 1

\* Unless the consume contexts are stopped over and over, every message is
\* settled: panics, slow handlers and failed sends use deliveries up but never
\* block a consume context (consumer.go:251-267).
EverythingSettles == \A m \in Msgs : <>[]("stop" \in faults \/ Settled(m))

\* When nothing but AckWait goes wrong, every message is handled or reaches the
\* DLQ subject (consumer.go:198-242).
EventualOutcome ==
  \A m \in Msgs : <>(faults \subseteq {"slow"} => HasOutcome(m))

=============================================================================
