------------------------------- MODULE Router -------------------------------
(***************************************************************************)
(* router.New (router/route.go): the options fill a config in the order    *)
(* they are given, then the config is validated for the type of the route  *)
(* and completed with defaults.  Consumer.Start later hands the fields on  *)
(* to NATS according to the same type (consumer/consumer.go).              *)
(***************************************************************************)
EXTENDS Integers

CONSTANTS
  Names,       \* names a subject, group, stream or durable may have
  Delivers,    \* arguments of WithMaxDeliver, integers
  Waits        \* arguments of WithAckWait, in seconds, integers

VARIABLES
  type,    \* the routeType argument; there is one the package does not define
  cfg,     \* the config the options fill
  given,   \* history: the config as the options left it
  result   \* what New returned: {} before, then {error}, "nil" for a route

vars == <<type, cfg, given, result>>

Types == {"PubSub", "Queue", "RequestReply", "JetStream", "undefined"}

Strings == Names \union {""}

Policies == {"all", "last", "new", "byStartSequence", "byStartTime", "lastPerSubject"}

defaultMaxDeliveries == 10
defaultAckWait       == 30

Init ==
  /\ type \in Types
  /\ \E s \in Strings :
       cfg = [subject |-> s, queueGroup |-> "", stream |-> "", durable |-> "",
              maxDeliver |-> 0, ackWait |-> 0, deliveryPolicy |-> "all"]
  /\ given = cfg /\ result = {}

-----------------------------------------------------------------------------

\* An option sets one field; a later one overrides an earlier one.
WithOption(field, values) ==
  /\ result = {}
  /\ \E v \in values : cfg' = [cfg EXCEPT ![field] = v]
  /\ given' = cfg'
  /\ UNCHANGED <<type, result>>

WithDeliveryPolicy == WithOption("deliveryPolicy", Policies)

Option ==
  \/ \E field \in {"queueGroup", "stream", "durable"} : WithOption(field, Strings)
  \/ WithOption("maxDeliver", Delivers)
  \/ WithOption("ackWait", Waits)
  \/ WithDeliveryPolicy

\* Mutant: the durable is not looked at.
ValidateNoDurable(t, c) ==
  IF c.subject = "" THEN "ErrMissingSubject"
  ELSE CASE t \in {"Queue", "RequestReply"} ->
              IF c.queueGroup = "" THEN "ErrMissingQueueGroup" ELSE "nil"
         [] t = "JetStream" ->
              IF c.stream = "" THEN "ErrMissingStream" ELSE "nil"
         [] t = "PubSub" -> "nil"
         [] OTHER -> "ErrUnsupportedType"

\* Mutant: RequestReply needs a stream like JetStream.
ValidateReplyAsStream(t, c) ==
  IF c.subject = "" THEN "ErrMissingSubject"
  ELSE CASE t \in {"Queue", "RequestReply"} ->
              IF c.queueGroup = "" THEN "ErrMissingQueueGroup"
              ELSE IF t = "RequestReply" /\ c.stream = "" THEN "ErrMissingStream"
              ELSE "nil"
         [] t = "JetStream" ->
              IF c.stream = "" THEN "ErrMissingStream"
              ELSE IF c.durable = "" THEN "ErrMissingDurable" ELSE "nil"
         [] t = "PubSub" -> "nil"
         [] OTHER -> "ErrUnsupportedType"

\* The checks of New, in their order.
Validate(t, c) ==
  IF c.subject = "" THEN "ErrMissingSubject"
  ELSE CASE t \in {"Queue", "RequestReply"} ->
              IF c.queueGroup = "" THEN "ErrMissingQueueGroup" ELSE "nil"
         [] t = "JetStream" ->
              IF c.stream = "" THEN "ErrMissingStream"
              ELSE IF c.durable = "" THEN "ErrMissingDurable" ELSE "nil"
         [] t = "PubSub" -> "nil"
         [] OTHER -> "ErrUnsupportedType"

\* The defaults a JetStream config is completed with.
Defaults(c) ==
  [c EXCEPT !.maxDeliver = IF @ = 0 THEN defaultMaxDeliveries ELSE @,
            !.ackWait    = IF @ = 0 THEN defaultAckWait ELSE @]

\* New after its options: validate, then complete.
New ==
  /\ result = {}
  /\ result' = {Validate(type, cfg)}
  /\ cfg' = IF type = "JetStream" /\ Validate(type, cfg) = "nil"
            THEN Defaults(cfg) ELSE cfg
  /\ UNCHANGED <<type, given>>

Returned == result # {} /\ UNCHANGED vars

Next == Option \/ New \/ Returned

Spec == Init /\ [][Next]_vars

-----------------------------------------------------------------------------
(* Properties *)

\* What startJetStream puts in the config of the consumer it creates.
ConsumerConfig == {"subject", "stream", "durable", "maxDeliver", "ackWait", "deliveryPolicy"}

\* The cases of Consumer.Start, and what of the route each of them hands on to
\* NATS: to Subscribe, QueueSubscribe and CreateOrUpdateConsumer.
Handed(t) ==
  CASE t = "PubSub" -> {"subject"}
    [] t \in {"Queue", "RequestReply"} -> {"subject", "queueGroup"}
    [] t = "JetStream" -> ConsumerConfig
    [] OTHER -> {}

Texts == {"subject", "queueGroup", "stream", "durable"}

\* The texts Start hands on are there, none is empty.
Complete(t, c) == \A field \in Handed(t) \intersect Texts : c[field] # ""

\* NATS creates no consumer that starts at a sequence or a time it is not told.
NeedsStart == {"byStartSequence", "byStartTime"}

Startable(t, c) ==
  /\ Handed(t) # {} /\ Complete(t, c)
  /\ t = "JetStream" => /\ c.maxDeliver # 0 /\ c.ackWait # 0
                        /\ c.deliveryPolicy \notin NeedsStart

\* A route that New has accepted can be started, with one exception: a JetStream
\* route whose caller chose, last, one of the two delivery policies that need a
\* start, which no option sets and startJetStream does not hand on
\* (route.go:85-119, types.go:38-44, consumer.go:152-159).  Other route types may
\* have such a policy: Start ignores it.
OnlyPolicyPreventsStart ==
  result = {"nil"} =>
    (Startable(type, cfg) <=> ~(type = "JetStream" /\ given.deliveryPolicy \in NeedsStart))

\* And only what cannot be started is refused (route.go:85-119).
StartableAccepted ==
  result # {} /\ Handed(type) # {} /\ Complete(type, given) => result = {"nil"}

=============================================================================
