# A TLA+ model of loafer-natsx

loafer-natsx is a Go library over NATS: a *router* describes what to consume, a
*consumer* subscribes and runs the handler, a *broker* runs many routes with several
workers each in one process, a *producer* publishes and makes requests, and *typed*
wraps all of it with codecs. This directory holds TLA+ modules for the parts with
behaviour worth checking, TLC configurations for them, and proofs for TLAPS.
References such as `consumer.go:206` are to the package of that name
(`consumer/consumer.go`).

## The system

| Component | State | Operations | What makes it correct |
|---|---|---|---|
| broker (`broker/broker.go`, `route.go`, `option.go`) | per call of `Run`: derived context, `errCh` (capacity 1); per route: `errCh` (capacity 1), `errOnce`, `wg`, `done`; the goroutines | `New`, `Run`, `runRoute` | the result has a real cause, no goroutine or subscription outlives `Run` for ever, no send blocks, a failing route is reported and stops the others |
| JetStream consumer (`consumer.go:151-242`) | the durable on the server, the deliveries a consume context has buffered, what is on the wire | `startJetStream`, callback: handler, Ack, Nak, DLQ publish; `Stop` on cancel | a message is acknowledged only with an outcome, goes to the DLQ once and only after its last delivery, nothing blocks |
| request and reply (`consumer.go:93-149`, `producer.go:94-119`, `core_strategy.go`, `typed/requester.go`, `reply/reply.go`) | the call's context, inbox and subscription buffers | `Request`, `handleRequestReplyMessage`, `defaultReply`, `JSON`, drain on cancel | success is only reported when the handler succeeded, a request runs once, every call returns |
| core subscriptions (`consumer.go:56-91`) | subscription buffers | `startPubSub`, `startQueue`, drain on cancel | a queue group shares messages, what was received is handled |
| metrics (`broker/instrumentation.go`, `metrics.go`) | a gauge, two counters, a histogram per subject, shared by all workers | the instrumented handler; a scrape | the books balance after errors and panics, a scrape shows no result without its duration |
| router (`router/route.go`, `options.go`) | a config while it is built | options, `New` | what is accepted can be started (it can, but for two delivery policies, see below) |
| producer, publish side (`producer.go:57-85`, `jetstream_strategy.go`) | none of its own; the header map of the caller, the stream, its duplicate window | `Publish` | a retry with the same MsgID stores once, a result is about what is stored |
| typed wrappers, codecs, `reply` formats | none | adapters | stateless |
| programs (`examples/`, with `conn/conn.go`) | where `main` is, its wait group, its context and its connection; what earlier runs left on the stream | `main`, its handlers, exit, kill, restart | a program that says it is done has handled its messages, it ends, a service catches up with what was not acknowledged |
| logger, error values | none | - | - |

How they interact. `Broker.Run` starts a goroutine per registration; `runRoute` makes
a `Consumer` and starts `workers` goroutines, each of which calls `Consumer.Start`.
`Start` subscribes, leaves a goroutine behind (`drainOnCancel`) that waits for the
context and then closes the subscription, and returns at once: a worker goroutine
ends while its route is serving. Messages arrive on callbacks of the NATS client,
each run under `safeHandle`, which recovers panics. The broker and its routes talk
over channels and a shared context; the consumer, the producer and the server over
the NATS connection.

Hard parts: `select` statements with several ready cases; bounded channels with
non-blocking and blocking sends; work that starts after the context ended; AckWait
expiring under a running handler; acknowledgements and DLQ publishes that share a
connection and may be lost; crashes between the two; deadlines racing late replies;
drains with full buffers; a process that exits behind an asynchronous drain and is run
again on the same stream.

## Modules

`Broker` models one call of `Run`. Its variables are the locals of `Run` and
`runRoute` and a program counter per goroutine. One action is one statement that
another goroutine can observe: an iteration of a loop that launches a goroutine
(`RunLoop`, `SpawnWorker`), a send (`RouteReport`, `WorkerReport`), a select
(`RunSelect`, `RouteSelect`), a cancel (`RouteCancel`, `RunReturn`, `CallerCancel`), a
close (`CloseDone`). A Go select with several ready cases takes any of them; without a
ready case it parks its goroutine, which then leaves through the first case that
becomes ready, within the step that makes it ready (`ReleaseRun`, `ReleaseRoutes`, the
hand-over in `RouteReport` and `SendWorkerErr`). The difference between arriving at a
select and being parked in it matters: a parked `Run` cannot lose the error, one that
arrives late can. `consumer.New` and `Start` may succeed or fail; a panic in a worker
takes the same way as an error (`reportErr`).

`BrokerLifecycle` is the contract of `Run` without goroutines or channels: a set of
subscriptions that open at most once, close only after a stop, and are all closed in
the end; one result. `Broker!Lifecycle` is the refinement mapping and
`ImplementsLifecycle` the property.

The modules `...Proofs` hold the TLAPS proofs, see below.

`JetStreamConsumer` models a JetStream route: the workers' consume contexts over one
durable. The server (`Deliver`, `Exhaust`, `AckWaitExpires`, `ServerReceive`) and the
connection (`wire`) are external. The callback is split where something else can
happen in between: the handler, the acknowledgement, the DLQ publish. `publishToDLQ`
is two steps, its publish and its Ack, because a crash fits between them.
`StartJetStream` may return an error (of `CreateOrUpdateConsumer` or of `Consume`,
`consumer.go:162`, `171`): the consume context is not there, with or without its durable,
and nothing else has changed for the route; what the broker then does is in `Broker`. The
set `faults` says what may go wrong in a behaviour; a configuration gives the sets to
choose from. The two history variables record successful handler runs and
DLQ packets a reconnect lost.

`Delivery` is the contract of a JetStream route for a message: a bounded number of
tries, an acknowledgement only after a handler's success or a DLQ copy, one such copy and
only after the last try. `JetStreamConsumer!Contract` maps the workers, buffers and packets
away; `ImplementsDelivery` is the property. It is about routes with a positive MaxDeliver.

`RequestReply` models calls of `typed.Requester.Request` down to the core strategy, a
queue group of workers that reply with `reply.JSON` (the `ReplyFunc` all programs of
`examples/` use, one of them through `typed.WrapReply`) or have no `ReplyFunc`, and the way
back. A reply names its inbox and the request it answers; its status is the `X-Status` header. `Request`
classifies an error by looking at its context afterwards (`Classify`), a step of its
own, as the context may end in between. The set `faults` says what may go wrong in a
behaviour, as in `JetStreamConsumer`; `OneSideFails` of the MC module takes losses with a
stop, and connection errors with a cancel. An `ErrorDecoder` may return nil (result
"zero").

`Call` is the contract of a call: the handler runs at most once for it, what the caller is
told agrees with what the handler did, and the call returns. `RequestReply!Contract` is the
refinement mapping (every program counter between "idle" and "returned" is "open") and
`ImplementsCall` the property, with its fairness.

`CoreConsumer` models a PubSub or Queue route with metrics: subscription, callback
under `safeHandle` with the instrumented handler, and each update of a metric as a
step. A scrape is no snapshot: the registry reads the metrics one after the other, in any
order, while workers go on. `Gather` reads one of the two counters and keeps the value in
`seen`; the other readings of the scrape come at some later state, up to `Answer`, so
ScrapeConsistent compares `seen` with the metrics of every such state.

`JetStreamPublish` models calls of `typed.Producer.Publish` through the JetStream
strategy by an application that calls again after an error, with options chosen once
per message in `Init`. The strategy sets the MsgID in the header map of the message, and
that map is the caller's own when it gave one (`Publish`, `SetMsgID`); the message is
encoded and sent later (`Send`), and calls that share a map may interleave between the
two. What Go's runtime does when it notices two writers of a map (it aborts the process)
is left out. The server with its duplicate window (`Store`, `WindowEnds`) and the
connection are external; `expired` remembers the ids that left the window.

`Router` models `router.New` as a little machine: options in any order and number
fill the config, then `New` validates and completes it. `Handed` says what of a route
`Start` hands on to NATS for its type, and `Startable` what the server needs of that.

`Routes` puts the two together as a program does. It extends `CoreConsumer` and has an
instance `Maker` of `Router`, whose result is `made`: `New` makes a route, and when it is
accepted and of type PubSub or Queue, `Hand` passes it to `Start` and `CoreConsumer` goes on
with it. `Hand` keeps of the config what `Start` reads. (The other two types go on in
`JetStreamConsumer` and `RequestReply`, whose instances start from an accepted route.)

`Program` models the programs of `examples/`. They are alike, so a program is a record:
the steps its `main` takes (`steps`) and what it does on the way (does an error of `Start`
return or is it ignored, what is added to the wait group, which context, how many reconnects,
`Drain` or `Close` in the defer). The actions work the steps off: `Connect`, `Start`,
`Publish`, `Request`, `Wait`, `Pass`, `Exit`; the callbacks run beside them
(`HandlerReturns`, `HandlerFails`, `DLQReceived`, with `Done` for `wg.Done`). A wait group is
modelled with what it does at its edges: a `Done` that reaches zero releases a `main` that is
parked in `Wait`; one below zero panics. In a handler `safeHandle` recovers it and the
counter stays negative, so a later `Wait` parks for good; in the DLQ program's own
subscription (`dlq/main.go:62-66`) nothing recovers it and the process dies
(`DLQReceived`). That program ignores an error of its `Subscribe`, which needs a closed
connection or a bad subject: it has just connected, and its connection never gives up.
Every delivery of a JetStream message counts against the MaxDeliver of the route,
whether a handler failed or a process was killed, a buffer discarded or an
acknowledgement lost. The consumer, the producer and the broker are
taken at the level of what they promise (`Delivery`, `Call`, `BrokerLifecycle`); the server,
the connection (`Drop`, `Reconnect`, `GiveUp`) and the operating system (`Begin`, `Killed`)
surround them. Messages outlive a run on a stream and do not on a core subject. Programs
that differ only in data share a record (`TypedConsumer`, `TypedProducer`).

The MC modules add only sets for the configurations. An operator marked "Mutant" is a
plausible bug in the definition after it; it is not part of the specification. Each
property of a passing run is shown to notice one of them (PROJECT.json, "mutants").

## Runs

| Run | Instance | Shows |
|---|---|---|
| BrokerSafety | up to 2 routes, nil registrations included, 2 workers each | TypeOK; an error `Run` returns for a route is that route's and has a real cause (GenuineError); nil only after a cancel or a reported error (NoSpuriousReturn); a dropped error never was the only one (ErrorNeverDroppedAlone); a failing worker never blocks (ReportNeverBlocks) |
| BrokerLiveness | up to 2 routes, 1 worker, fair | after `Run` returned every goroutine ends and every subscription is closed, those of late workers included (NoGoroutineLeak); a cancel or a returned error brings the end (StopsOnCause); ImplementsLifecycle |
| BrokerSilentFailure | 2 routes, 2 workers | violation, see below |
| BrokerFailFast | 1 route, 2 workers, fair | violation, see below |
| JetStreamFaults | 2 messages, 2 workers, MaxDeliver 2, every fault at once | an acknowledged message was handled or is on the DLQ subject, except when the connection lost that one packet (AckedHasOutcome); once at most (DLQAtMostOnce); only with no delivery left (DLQOnlyAtLimit); ImplementsDelivery |
| JetStreamFair | the same size, fair; one trouble at a time: slow, or panics and restarts, or panics and failing sends | no two workers on one message and no second outcome unless somebody is slow or crashes, a packet is lost or a send returns an error (NoConcurrentHandling, OneOutcome); slowness loses nothing and every message gets its outcome (SlownessLosesNothing, EventualOutcome); every message is settled (EverythingSettles) |
| JetStreamPanic | 1 message, 1 worker | violation, see below |
| RequestCalls | 2 requests, 2 workers, with reply.JSON and without a ReplyFunc, fair; loss and stop, or connection errors and cancels | success and reply errors tell the truth about the handler (NoFalseSuccess, ReplyErrorIsHandlerError); no request runs twice (HandledAtMostOnce); every call returns (CallReturns), and implements its contract (ImplementsCall); received requests are handled although the broker stops (ReceivedIsHandled) |
| PublishRetries | 2 messages, 2 ids, 1 header map, 2 attempts each; losses, errors, late publishes, the window's end | a retry under a MsgID stores once within the window (RetryStoresOnce); a result's sequence holds what the result says (ResultIsStored) |
| PublishSharedHeaders | 2 messages, 1 id, 1 header map, 1 attempt | violation, see below |
| CoreRoutes | all types and one more, all delivery policies, one name, numbers around 0; then 2 messages, 2 workers, PubSub and Queue, fair | a route `New` accepts can be started unless it is a JetStream route with a policy that needs a start (OnlyPolicyPreventsStart); `New` refuses only what lacks something `Start` needs (StartableAccepted); the metrics balance at rest (BooksBalance), the gauge counts each running handler and no more than the workers (GaugeCountsHandlers), and a scrape, reading in any order, combines no more results than there are durations by its last reading (ScrapeConsistent); QueueSharesWork; ReceivedIsHandled |
| ProgramRuns | 16 programs, 2 publishes each, run twice, one broken connection, killed and signalled at any point, fair | a program that is done has handled its messages (DoneMeansHandled); a run without faults ends, and one that waits for deadlines only ends in any case (RunEnds); a service that stays up handles everything stored, also what earlier runs left, unless ended runs and broken connections could use up all deliveries of a message (ServiceHandlesAll) |

Why the bounds are enough. Two routes give a first and a second error for the one
slot of `errCh`, a nil registration before, between and after routes that run, and a
route that must be stopped by another's failure. Two workers give a first and a second
failure for `errOnce`, and partial failure of a route; the wait group and the closer
see none, one and all ended. MaxDeliver 2 is the smallest limit with a first and a
last delivery that differ. Two messages and two consume contexts give a redelivery
that overtakes, and a full buffer (BufferCap 1). Counters are bounded without help: a
delivery count by MaxDeliver (DeliveryBound takes its place for a route without a
limit), what is on the wire by the deliveries. Requests are made once each; MaxAttempts 2
is one retry of a publish, which the first attempt, delayed, can overtake. In `Program`, N = 2
stands for the 5, 10 or 100 of the loops (one message in flight and one behind it),
MaxDeliver 2 for the 3, 5 and 10 of the routes; two runs are one that leaves something behind
and one that finds it; one broken connection (MaxDrops) meets every state. Together a killed
run and a broken connection use both deliveries of a message up, so the run does have
messages that a service never handles: ServiceHandlesAll without its exception is violated,
and so it is with an exception that asks for one fault more.
Safety runs of interchangeable workers, messages and requests
use symmetry; runs with a temporal property do not.

### Fairness

- `Broker`: every goroutine that can run eventually runs (the Go scheduler), and
  `Start` returns, because the one blocking call in it, `CreateOrUpdateConsumer`, has a
  deadline in the client library. Weak fairness per goroutine is enough: once a
  goroutine's step is possible it stays possible. The caller never has to cancel. A select is
  not assumed to take every case it could take.
- `JetStreamConsumer`: the server serves every message, reads the connection and its
  AckWait timers expire; a consume context runs its callback and a handler returns (or
  panics). A route that is not running is started again until its start succeeds, by this
  process or a later one. No fairness on faults.
- `RequestReply`: the caller runs, its deadline passes, the server routes, the workers
  run. Nothing is assumed about losses, cancels or the stop.
- `CoreConsumer`: subscriptions run their callbacks and end their drains.
- `Program`: `main` and the callbacks run, deadlines pass, the server delivers and its timers
  expire, and the server comes back after a connection broke. Nobody has to start, kill or
  signal a process, to publish for a service, or to answer a request elsewhere.
- `JetStreamPublish` and `Router` have safety properties only and no fairness.

### What the code does otherwise than its documents say

1. *A route's failure may be silent.* The route's goroutine sends its error and then
   cancels (`broker.go:66-71`). If `Run` reaches its select (`broker.go:76`) after both,
   two cases are ready and half of the time it returns nil. README.md:121 promises
   "No silent route failures". What does hold is NoSpuriousReturn.
2. *A failing worker may not stop the broker.* When all workers have ended before
   `runRoute` reaches its select (`broker.go:147`), `done` is closed and the error
   waits in `errCh`; the select may take `done`, and the error is dropped without a
   cancel. README.md:112 promises "Fail-fast behavior (if one route fails, all are
   stopped)". What does hold is StopsOnCause, for errors `runRoute` returned.
3. *A panic on the last delivery loses the message for the DLQ.* `safeHandle`
   (`consumer.go:251`) recovers it outside the function that would publish to the DLQ.
   README.md:170 says "Messages exceeding MaxDeliver are published to `dlq.<subject>`".
   EventualOutcome holds for handlers that return.
4. *A message without a MsgID may be dropped as a duplicate.* `NewMessage` keeps the
   caller's header map (`producer.go:74`) and the client library writes the MsgID into it.
   A later call that is given the same map and no MsgID carries the earlier call's id; the
   server answers it as a duplicate and does not store it. README.md:179 says
   "Deduplication occurs during publish when a MsgID is provided". RetryStoresOnce and
   ResultIsStored hold for messages whose map no other message's calls are given.

Seen while modelling, without a run:

- A cancelled call is reported as a timeout (`producer.go:111`), although `error.go:37`
  says ErrRequestTimeout "indicates that a request-reply operation exceeded its
  deadline".
- A negative MaxDeliver, JetStream's "no limit", passes `router.New`; with the DLQ
  enabled the comparison at `consumer.go:206` is then true on the first failure. A MaxDeliver
  or AckWait of 0, chosen or not, becomes the default (`route.go:102-107`).
- `DeliverByStartSequencePolicy` and `DeliverByStartTimePolicy` speak of `OptStartSeq` and
  `OptStartTime` "in ConsumerConfig" (`types.go:38-44`). No option sets them and
  `startJetStream` does not hand them on, so the server refuses the consumer: such a route
  passes `New` and never starts. OnlyPolicyPreventsStart says that it is the only such case
  among the fields of the config. (What the server makes of a negative AckWait is left open.)
- When the DLQ publish fails on the last delivery, the Nak that follows cannot bring the
  message back.
- `loafer_requests_total` counts successes only and a panic leaves no count at all
  (BooksBalance says exactly what is counted), and each of the N workers of a PubSub
  route handles and counts every message.
- `HandlerTimeout` is stored and never read, so nothing keeps a handler from outlasting AckWait
  (the fault "slow" of `JetStreamConsumer`).
- A service without a DLQ may lose a message no handler ever failed on: each killed process,
  discarded buffer or lost acknowledgement uses up one of its deliveries (MaxDeliver 5 in
  `infinite_consumer/main.go:58`, the default 10 elsewhere), and after the last one the server
  gives it up. ServiceHandlesAll says that this takes as many such faults.
- An `ErrorDecoder` that returns nil turns an error reply into a zero value without an
  error (ReplyErrorIsHandlerError says that only a handler's error gets that far).
- The programs that wait on a wait group count deliveries, not their own messages. When an
  acknowledgement of the last run was lost (`defer nc.Drain()` returns at once), its message
  is delivered into the next run, and `main` may leave before its own messages are handled, or
  the counter goes below zero before `Wait` (`durable/main.go:66-95`, the same in `replay`;
  in `dlq` the process dies of it, `dlq/main.go:65`). DoneMeansHandled and RunEnds are therefore about runs that find nothing left over.
- A failed publish or `Start` is skipped or ignored by several programs and the wait group
  still counts it: they then wait for good (`durable/main.go:90`, `replay/main.go:44`,
  `queue/main.go:59`). The queue program's context ends after 5 s and drains its subscriptions
  while `main` may still wait for them.
- `Run` does not wait for callbacks that are running (BrokerLifecycle says what it does
  promise), and `main` leaves behind it: README.md:115 says "Safe shutdown without partial
  execution states". Such a message is redelivered while it has deliveries left
  (ServiceHandlesAll).
- A restarted producer counts from 1 again; within the duplicate window its orders are
  dropped as duplicates of the last run (`broker/producer/main.go:70`).

## Proofs

Every invariant of a passing run is also a theorem, for every value of the constants, and
the three refinements are proved as far as safety goes. (Names are those of
PROJECT.json, "theorems".)

| Module | About | Proved |
|---|---|---|
| `BrokerProofs` | `Broker` | `TypeCorrect`; GenuineError, NoSpuriousReturn, ErrorNeverDroppedAlone, ReportNeverBlocks; `Spec => Lifecycle!Spec` |
| `JetStreamProofs` | `JetStreamConsumer`, any MaxDeliver | `TypeCorrect`; AckedHasOutcome |
| `JetStreamDLQProofs` | the same, MaxDeliver > 0 | DLQAtMostOnce, DLQOnlyAtLimit, ImplementsDelivery |
| `JetStreamCalmProofs` | the same, when little goes wrong | NoConcurrentHandling, OneOutcome; SlownessLosesNothing (with the DLQ) |
| `RequestReplyProofs` | `RequestReply` | `TypeCorrect`; HandledAtMostOnce, NoFalseSuccess, ReplyErrorIsHandlerError; `Spec => Contract!Spec` |
| `RoutesProofs` | `Routes` with `Router` and `CoreConsumer` | `TypeCorrect`; BooksBalance, GaugeCountsHandlers, ScrapeConsistent, QueueSharesWork; OnlyPolicyPreventsStart, StartableAccepted |
| `PublishProofs` | `JetStreamPublish` | `TypeCorrect`; RetryStoresOnce, ResultIsStored |
| `ProgramProofs` | `Program` | `TypeCorrect`; DoneMeansHandled |

### Assumptions

Those the modules declare: `Broker` has at least one worker per route (`WithWorkers` refuses
n <= 0) and any number of routes; `JetStreamConsumer` any MaxDeliver but 0 (`router.New`
completes 0) and any sets of faults; `RequestReply` any sets of faults, with and without a
timeout; `CoreConsumer` finitely many workers and `JetStreamPublish` finitely many messages
(both are counted); `Routes` integers for MaxDeliver and AckWait; `Program` at least two
publishes per loop, one delivery, run and broken connection, and programs out of
`AllPrograms`. `Workers`, `Msgs`, `Requests` and the other sets are arbitrary otherwise.

Two theorems have hypotheses of their own. What is promised about the DLQ subject needs
`MaxDeliver > 0`: with a negative MaxDeliver every failing delivery passes the comparison at
`consumer.go:206` and is copied, so DLQAtMostOnce is false there. SlownessLosesNothing needs
`DLQEnabled`: without the DLQ the last failure has no outcome but the log.

### The arguments

Hardly any of the properties is inductive. Each module has an `IInv` (or `RoutesInv`,
`DLQInv`, `CalmInv`) that is; TLC checked them on the instances above before they were
proved. Their parts are predicates about one goroutine, delivery, request or message, so
that a step is looked at once for the one it concerns, and lemmas about quiet steps do the
rest.

- *Broker*: a route has an error exactly while it reports it and afterwards, and whatever is
  in one of its channels is that error (`RouteShape`: `errOnce` has fired before anything is
  in the channel, without which a second failing worker could block); an error has a cause
  among the route's own workers, or `consumer.New` failed and there are none
  (`FailureShape`); what `Run` holds is its own error or a route's (`RunShape`); routes after
  the loop's position are untouched (`LaunchOrder`). For the contract also: a call that is
  refused never started a route (`RefuseShape`).
- *JetStreamConsumer*: the client's places are each worker's callback and the positions of
  its buffer. A delivery (message and number) is in one place and its number is at most the
  server's count (`Held`). An Ack on the wire, or about to be sent, has an outcome or a copy
  for the DLQ subject before it (`AcksVouched`): that is where the order of the two sends in
  `publishToDLQ` matters. A copy is sent for the delivery with the number MaxDeliver; then
  no place holds that delivery any more, and the copy is on the wire, arrived, or lost, one
  of the three (`CopyInv`). With that every step is one of `Delivery` or a stutter. While
  nobody is slow or crashes, no packet is lost and no send fails, one place holds a delivery of the message, the
  server waits for just that one, and it has sent nothing yet except the copy an Ack is to
  follow (`CalmAt`). When AckWait alone goes wrong, the last delivery is held until there is
  an outcome (`LastKept`).
- *RequestReply*: a request is in one place (on its way, in one buffer, in one callback)
  until its handler runs (`Ahead`), a reply names the request of the inbox it goes to and
  tells what its handler did (`Honest`), and so does what a call was given and what it
  returns (`GotHonest`, `ResultHonest`).
- *Routes*: each metric equals a number of finished handlers plus or minus the workers that
  are between the updates of the instrumented handler (`Books`), and counts of workers
  change by one with a step (`CountFacts`). What a scrape has read of a counter was covered
  by durations when it was read and the metrics only grow (`ReadBefore`). A subscription gets a message once (`Fresh`), and
  of a queue group one member does (`Shared`). Of the config, what `New` has done to what
  the options left (`NewInv`).
- *JetStreamPublish*: the stream, the wire and the calls about to send hold no more messages
  than attempts were made (`Counted`: this bounds the sequence numbers); a message whose
  header map is its own carries its own MsgID, in the map, on the wire and in the stream
  (`Labelled`; it fails for shared maps, which is what PublishSharedHeaders shows); the
  window knows the only place of an id that never left it (`Remembered`).
- *Program*: `main`'s list is what is left of the program's steps, with one publish step and
  the waiting step at its end (`Planned`); what `main` has not published is nowhere (`Fresh`);
  nothing of a process survives it (`Process`); a message the server may deliver has a
  delivery left, and an unpublished one has all of them (`Budget`). In a run without faults that found nothing left over, the
  messages handled and the wait group's counter add up to what was added, all messages about
  are among those awaited (`Counting`), and a request is asked until it is handled
  (`Answering`). A counter at zero then means that the handled messages are all that are
  awaited (`AllHandled`), which is DoneMeansHandled, and also that no callback is left that
  could take the counter below zero.

What only TLC checks. Liveness under fairness is out of the prover's reach: NoGoroutineLeak,
StopsOnCause, EverythingSettles, EventualOutcome, CallReturns, ReceivedIsHandled (of
`RequestReply` and of `CoreConsumer`), RunEnds, ServiceHandlesAll, and the fairness in
ImplementsLifecycle and ImplementsCall, whose safety parts are the two `ContractHolds`
theorems. The four violations are TLC's too.

## Not modelled

- `ReplyFunc`s an application writes itself, with `reply.WithStatus` or `WithError` or by hand
  (`reply.go:78-97`): they may give any status to any outcome, so what `RequestReply` says of
  replies (NoFalseSuccess, ReplyErrorIsHandlerError) is about `reply.JSON` and the default
  reply.
- Handlers' and codecs' data, header contents, wording of errors, logging.
- What `conn.Connect` passes on beside the number of reconnects; `logger`; the metrics server
  of the broker program.
- Panics of `MustRegister` when two brokers share a registerer.
- What the server offers under each delivery policy (`Program` has "new" and "all"); the
  policy changes nothing in what the consumer does with a message. `Router` has all of them.
- A race on a header map that two goroutines write at once (`JetStreamPublish` has the
  sequential outcomes).

## Plan

1. `Broker` with its contract, runs and first theorems (done).
2. `JetStreamConsumer`, `RequestReply`, `CoreConsumer`, `JetStreamPublish`, `Router` (done).
3. Contracts: `Delivery`, implemented by `JetStreamConsumer`; `Call`, implemented by
   `RequestReply` (done).
4. Compositions: `Routes` (router and core subscriptions) and `Program` (a process over the
   contracts, with restarts) (done).
5. Proofs: the safety part of the three refinements and every invariant of the runs (done).
6. What is left to prove: that in a run without faults no `wg.Done` panics is part of
   `Counting` in `ProgramProofs` and could be a property of its own; so could the step
   properties of the histories (no outcome is taken back) that the proofs of
   `JetStreamConsumer` have as lemmas.
