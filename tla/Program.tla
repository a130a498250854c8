------------------------------- MODULE Program -------------------------------
(***************************************************************************)
(* The programs of examples/: a process that connects, publishes and       *)
(* consumes, waits and exits, and may be run again on the same stream.     *)
(* A program is the list of steps its main function takes and the choices  *)
(* it makes on the way; the actions work the list off while the callbacks  *)
(* of the consumer run.  Consumer, producer and broker are taken at the    *)
(* level of what they promise; their details are modules of their own.     *)
(*                                                                         *)
(* External: the server keeps the messages of a JetStream subject with     *)
(* their delivery counts and forgets those of a core subject; nats.Conn    *)
(* reconnects by itself; Drain of a connection returns at once, so what a  *)
(* program has sent may be lost when it exits behind it; Close flushes.    *)
(***************************************************************************)
EXTENDS Integers, Sequences, FiniteSets

CONSTANTS
  Programs,     \* the programs to look at
  N,            \* how often a program's loop publishes
  MaxDeliver,   \* of a JetStream route: 3, 5 or the default 10
  MaxRuns,      \* bound on how often a program is run
  MaxDrops      \* bound on the connections that break

ASSUME BoundsAssumption ==
  {MaxDeliver, MaxRuns, MaxDrops} \subseteq Nat \ {0} /\ N \in Nat \ {0, 1}

-----------------------------------------------------------------------------
(* The programs.  "wait" is a wait group, "signal" a context that ends with *)
(* a signal, "sleep" a time.  An error of Start, Publish or Request either  *)
(* returns from main or is ignored; the broker may do either with Start's.  *)
(* Requests are made by so many callers at a time.                          *)

defaultMaxReconnects == -1

Durable ==
  [route |-> "jetstream", policy |-> "new", steps |-> <<"start", "publish", "wait">>,
   consumers |-> 1, startError |-> "return", handler |-> "ok",
   messages |-> N, ids |-> "none", publishError |-> "ignore", add |-> N, callers |-> 0,
   ctx |-> "background", maxReconnects |-> defaultMaxReconnects, end |-> "Drain"]

\* Mutant: the durable is created for new messages only.
ReplayDeliverNew ==
  [Durable EXCEPT !.steps = <<"publish", "start", "wait">>, !.startError = "ignore"]

Replay ==
  [Durable EXCEPT !.steps = <<"publish", "start", "wait">>, !.policy = "all",
                  !.startError = "ignore"]

Deduplication ==
  [Replay EXCEPT !.messages = 2, !.ids = "constant", !.publishError = "return",
                 !.add = 1, !.startError = "return"]

DLQ ==
  [Durable EXCEPT !.policy = "all", !.handler = "fails", !.startError = "ignore",
                  !.messages = 1, !.add = 1]

\* Mutant: the wait group is one short.
QueueAddShort ==
  [Durable EXCEPT !.route = "core", !.consumers = 2, !.startError = "ignore",
                  !.ctx = "timeout", !.add = N - 1]

Queue ==
  [Durable EXCEPT !.route = "core", !.consumers = 2, !.startError = "ignore",
                  !.ctx = "timeout"]

PubSub ==
  [Durable EXCEPT !.route = "core", !.steps = <<"start", "publish", "sleep">>,
                  !.add = 0, !.end = "Close"]

TypedConsumer == PubSub

InfiniteConsumer ==
  [Durable EXCEPT !.steps = <<"start", "signal">>, !.messages = 0, !.add = 0,
                  !.ctx = "signal"]

\* A broker has two routes; they are alike, and one of each program is looked at.
BrokerService ==
  [InfiniteConsumer EXCEPT !.policy = "all", !.consumers = 2, !.startError = "broker"]

TypedBroker == [BrokerService EXCEPT !.policy = "new"]

CoreProducer ==
  [PubSub EXCEPT !.steps = <<"publish">>, !.consumers = 0, !.maxReconnects = 3]

TypedProducer == CoreProducer

JetStreamProducer == [CoreProducer EXCEPT !.route = "jetstream", !.ids = "counter"]

\* Its loop has no end, and no signal is caught.
BrokerProducer ==
  [JetStreamProducer EXCEPT !.steps = <<"publish", "signal">>, !.end = "Drain",
                            !.maxReconnects = defaultMaxReconnects]

RequestAndReply ==
  [PubSub EXCEPT !.steps = <<"start", "request">>, !.messages = 1, !.callers = 1,
                 !.publishError = "return", !.end = "Drain"]

TypedRequestAndReply == [RequestAndReply EXCEPT !.messages = 2]

RequestService == [InfiniteConsumer EXCEPT !.route = "core"]

\* A pool of workers calls a service of another process.
RequestPool ==
  [RequestAndReply EXCEPT !.steps = <<"request">>, !.consumers = 0, !.messages = N,
                          !.callers = 2, !.publishError = "ignore"]

AllPrograms == {Durable, Replay, Deduplication, DLQ, Queue, PubSub, InfiniteConsumer,
                BrokerService, TypedBroker, CoreProducer, JetStreamProducer,
                BrokerProducer, RequestAndReply, TypedRequestAndReply, RequestService,
                RequestPool}

ASSUME ProgramsAssumption == Programs \subseteq AllPrograms

-----------------------------------------------------------------------------

VARIABLES
  prog,     \* the program
  run,      \* how often it has been started
  up,       \* the process runs
  todo,     \* the steps main still has to take; "parked" is inside wg.Wait
  sent,     \* the publishes or requests of this run
  asking,   \* the requests that have not returned
  ctx,      \* main's context, which Start was given
  group,    \* the counter of the wait group
  conn,     \* the connection
  drops,    \* how often it has broken
  active,   \* the subscriptions or consume contexts that are open
  durable,  \* the durable consumer exists
  window,   \* the message ids in the duplicate window
  msg,      \* where each message is
  dc,       \* its deliveries
  copies,   \* the copies for the DLQ subject on their way
  handled,  \* history: what was handled in this run
  smooth    \* history: nothing left over from before and nothing failed in this run

mainVars == <<run, up, todo, sent, asking, ctx, group>>
connVars == <<conn, drops>>
srvVars  == <<durable, window>>
msgVars  == <<msg, dc, copies, handled>>
vars     == <<prog, mainVars, connVars, active, srvVars, msgVars, smooth>>

Runs == 1..MaxRuns
Msgs == Runs \X (1..N)
IDs  == 0..N
Steps == {"connect", "start", "publish", "request", "wait", "parked", "signal",
          "sleep"}

\* "out": the server or the subscription has it; "held": in the process, not yet
\* handled; "acking": its acknowledgement is on the way; "pending": delivered,
\* and nobody has it any more; "gone": not stored, or lost with a core subject.
MsgStates == {"unsent", "out", "held", "acking", "pending", "done", "exhausted", "gone"}

TypeOK ==
  /\ prog \in Programs /\ run \in 0..MaxRuns /\ up \in BOOLEAN
  /\ todo \in Seq(Steps) /\ sent \in 0..N /\ asking \subseteq Msgs
  /\ ctx \in {"live", "done"} /\ group \in -1..N
  /\ conn \in {"none", "up", "down", "closed"} /\ drops \in 0..MaxDrops
  /\ active \in 0..2 /\ durable \in BOOLEAN /\ window \subseteq IDs
  /\ msg \in [Msgs -> MsgStates] /\ dc \in [Msgs -> 0..MaxDeliver]
  /\ copies \subseteq Msgs /\ handled \subseteq Msgs
  /\ smooth \in BOOLEAN

Init ==
  /\ prog \in Programs /\ run = 0 /\ up = FALSE
  /\ todo = <<>> /\ sent = 0 /\ asking = {} /\ ctx = "live" /\ group = 0
  /\ conn = "none" /\ drops = 0 /\ active = 0 /\ durable = FALSE /\ window = {}
  /\ msg = [m \in Msgs |-> "unsent"] /\ dc = [m \in Msgs |-> 0]
  /\ copies = {} /\ handled = {} /\ smooth = FALSE

JetStream == prog.route = "jetstream"
In(s)     == {m \in Msgs : msg[m] = s}
Move(ms, s) == msg' = [m \in Msgs |-> IF m \in ms THEN s ELSE msg[m]]

\* The deliveries of a process that is gone: the server waits for its AckWait.
Abandoned == IF JetStream THEN "pending" ELSE "gone"

-----------------------------------------------------------------------------
(* main *)

At(s) == up /\ todo # <<>> /\ Head(todo) = s
Step  == todo' = Tail(todo)
Leave == todo' = <<>>     \* return from main

\* The process starts.  Since the last run the duplicate window may have ended.
Begin ==
  /\ ~up /\ run < MaxRuns
  /\ run' = run + 1 /\ up' = TRUE /\ todo' = <<"connect">> \o prog.steps
  /\ group' = prog.add
  /\ window' \in {window, {}}
  /\ smooth' = (window' = {} /\ In("out") \union In("pending") = {})
  /\ UNCHANGED <<prog, sent, asking, ctx, handled, connVars, active, durable, msg, dc, copies>>

Connect ==
  /\ At("connect")
  /\ \/ conn' = "up" /\ Step /\ UNCHANGED smooth
     \/ conn' = "none" /\ Leave /\ smooth' = FALSE
  /\ UNCHANGED <<prog, run, up, sent, asking, ctx, group, drops, active, srvVars, msgVars>>

\* Start for each consumer; the first one creates the durable, which under the
\* policy "new" skips what the stream already has.
Start ==
  /\ At("start")
  /\ \E k \in 0..prog.consumers :
       /\ conn = "closed" => k = 0
       /\ active' = k
       /\ smooth' = (smooth /\ k = prog.consumers)
       /\ \/ (k = prog.consumers \/ prog.startError # "return") /\ Step
          \/ (k < prog.consumers /\ prog.startError # "ignore") /\ Leave
       /\ durable' = (durable \/ (JetStream /\ k > 0))
       /\ IF durable' /\ ~durable /\ prog.policy = "new"
          THEN Move(In("out"), "gone") ELSE UNCHANGED msg
  /\ UNCHANGED <<prog, run, up, sent, asking, ctx, group, connVars, window, dc, copies, handled>>

ID == CASE prog.ids = "constant" -> {0} [] prog.ids = "counter" -> {sent + 1}
        [] prog.ids = "none" -> {}

\* The message the program publishes next.
Current == <<run, sent + 1>>

\* The service that the requests go to runs elsewhere, if at all.
Elsewhere == prog.callers > 0 /\ prog.consumers = 0

\* Where a message goes that Publish or Request has handed over.
Stored == IF JetStream \/ active > 0 \/ Elsewhere THEN "out" ELSE "gone"

\* Mutant: the loop publishes once more.
PublishNextOneMore ==
  sent' = sent + 1 /\ IF sent' > prog.messages THEN Step ELSE UNCHANGED todo

\* The loop goes on, or is over.
PublishNext ==
  sent' = sent + 1 /\ IF sent' = prog.messages THEN Step ELSE UNCHANGED todo

\* A publish to a stream is answered: stored, or a duplicate.  A core publish is
\* buffered, also while the connection is being restored.
Publish ==
  /\ At("publish")
  /\ IF JetStream THEN conn = "up" ELSE conn # "closed"
  /\ Move({Current}, IF ID \cap window = {} THEN Stored ELSE "gone")
  /\ window' = window \union ID
  /\ PublishNext
  /\ UNCHANGED <<prog, run, up, asking, ctx, group, connVars, active, durable, dc, copies,
                 handled, smooth>>

\* The publish fails; one to a stream may have been stored all the same.
PublishFails ==
  /\ At("publish") /\ (JetStream \/ conn = "closed")
  /\ \/ Move({Current}, "gone") /\ UNCHANGED window
     \/ /\ JetStream /\ conn = "up" /\ ID \cap window = {}
        /\ Move({Current}, "out") /\ window' = window \union ID
  /\ IF prog.publishError = "return" THEN Leave /\ UNCHANGED sent ELSE PublishNext
  /\ smooth' = FALSE
  /\ UNCHANGED <<prog, run, up, asking, ctx, group, connVars, active, durable, dc, copies,
                 handled>>

\* main, or a worker of the pool, makes the next request.
Request ==
  /\ At("request") /\ sent < prog.messages /\ Cardinality(asking) < prog.callers
  /\ sent' = sent + 1 /\ asking' = asking \union {Current}
  /\ Move({Current}, IF conn = "closed" THEN "gone" ELSE Stored)
  /\ UNCHANGED <<prog, run, up, todo, ctx, group, connVars, active, srvVars, dc, copies,
                 handled, smooth>>

Replied(m) ==
  /\ m \in asking /\ msg[m] = "done" /\ conn = "up" /\ asking' = asking \ {m}
  /\ UNCHANGED <<prog, run, up, todo, sent, ctx, group, connVars, active, srvVars, msgVars,
                 smooth>>

\* The deadline passes, nobody listens, or the connection is closed.
RequestFails(m) ==
  /\ m \in asking /\ asking' = asking \ {m}
  /\ IF prog.publishError = "return" THEN Leave ELSE UNCHANGED todo
  /\ smooth' = FALSE
  /\ UNCHANGED <<prog, run, up, sent, ctx, group, connVars, active, srvVars, msgVars>>

\* wg.Wait returns at once when the counter is zero and parks main otherwise,
\* also when the counter is negative.
Wait ==
  /\ At("wait")
  /\ todo' = IF group = 0 THEN Tail(todo) ELSE <<"parked">> \o Tail(todo)
  /\ UNCHANGED <<prog, run, up, sent, asking, ctx, group, connVars, active, srvVars,
                 msgVars, smooth>>

\* time.Sleep is over, or the signal has come (in a broker service Run has
\* returned), or every request has returned.
Pass ==
  /\ \/ At("sleep") \/ (At("signal") /\ ctx = "done")
     \/ At("request") /\ sent = prog.messages /\ asking = {}
  /\ Step
  /\ UNCHANGED <<prog, run, up, sent, asking, ctx, group, connVars, active, srvVars,
                 msgVars, smooth>>

\* The process ends.  Of the acknowledgements that it has not waited for, those
\* in "lost" have not left it.
End(lost) ==
  /\ up' = FALSE /\ todo' = <<>> /\ active' = 0 /\ conn' = "none" /\ copies' = {}
  /\ sent' = 0 /\ asking' = {} /\ ctx' = "live" /\ group' = 0 /\ handled' = {} /\ smooth' = FALSE
  /\ msg' = [m \in Msgs |->
               CASE m \in lost \union In("held") -> Abandoned
                 [] msg[m] = "acking" /\ m \notin lost -> "done"
                 [] msg[m] = "out" /\ ~JetStream -> "gone"
                 [] OTHER -> msg[m]]
  /\ UNCHANGED <<prog, run, drops, srvVars, dc>>

\* main returns: the deferred Drain does not wait, Close flushes.
Exit ==
  /\ up /\ todo = <<>>
  /\ \E lost \in IF prog.end = "Drain" THEN SUBSET In("acking") ELSE {{}} : End(lost)

Killed == up /\ todo # <<>> /\ \E lost \in SUBSET In("acking") : End(lost)

-----------------------------------------------------------------------------
(* The context and the connection *)

\* The signal comes, or the timeout of the context passes.
ContextEnds ==
  /\ up /\ ctx = "live" /\ prog.ctx # "background"
  /\ ctx' = "done" /\ smooth' = FALSE
  /\ UNCHANGED <<prog, run, up, todo, sent, asking, group, connVars, active, srvVars, msgVars>>

\* drainOnCancel: a consume context discards what no callback has begun, a core
\* subscription works its buffer off.
DrainOnCancel ==
  /\ up /\ ctx = "done" /\ active > 0
  /\ active' = 0
  /\ \E discarded \in IF JetStream THEN SUBSET In("held") ELSE {{}} :
       Move(discarded, "pending")
  /\ UNCHANGED <<prog, mainVars, connVars, srvVars, dc, copies, handled, smooth>>

\* The connection breaks; what was on it may be lost.
Drop ==
  /\ conn = "up" /\ drops < MaxDrops
  /\ conn' = "down" /\ drops' = drops + 1 /\ smooth' = FALSE
  /\ \E lost \in SUBSET (In("acking") \union IF JetStream THEN {} ELSE In("out")) :
       Move(lost, Abandoned)
  /\ copies' \in SUBSET copies
  /\ UNCHANGED <<prog, mainVars, active, srvVars, dc, handled>>

Reconnect ==
  /\ conn = "down" /\ conn' = "up"
  /\ UNCHANGED <<prog, mainVars, drops, active, srvVars, msgVars, smooth>>

\* Mutant: a negative number of reconnects is no reconnects.
GiveUpAlways ==
  /\ conn = "down" /\ conn' = "closed"
  /\ UNCHANGED <<prog, mainVars, drops, active, srvVars, msgVars, smooth>>

\* After the last attempt the connection is closed for good; a negative number
\* of attempts has no last one.
GiveUp ==
  /\ conn = "down" /\ prog.maxReconnects >= 0 /\ conn' = "closed"
  /\ UNCHANGED <<prog, mainVars, drops, active, srvVars, msgVars, smooth>>

-----------------------------------------------------------------------------
(* The subject and the callbacks *)

\* For a service somebody else publishes, at any time.
OthersPublish(i) ==
  /\ prog.messages = 0 /\ msg[<<1, i>>] = "unsent"
  /\ Move({<<1, i>>}, Stored)
  /\ UNCHANGED <<prog, mainVars, connVars, active, srvVars, dc, copies, handled, smooth>>

\* The service elsewhere handles a request and replies.
OthersReply(m) ==
  /\ Elsewhere /\ msg[m] = "out" /\ conn = "up" /\ Move({m}, "done")
  /\ handled' = handled \union {m}
  /\ UNCHANGED <<prog, mainVars, connVars, active, srvVars, dc, copies, smooth>>

\* Every delivery counts, whatever becomes of it.
Deliver(m) ==
  /\ msg[m] = "out" /\ conn = "up" /\ active > 0
  /\ Move({m}, "held") /\ dc' = [dc EXCEPT ![m] = IF JetStream THEN @ + 1 ELSE @]
  /\ UNCHANGED <<prog, mainVars, connVars, active, srvVars, copies, handled, smooth>>

\* A message that was not acknowledged comes back, unless that was its last delivery.
AckWaitExpires(m) ==
  /\ msg[m] = "pending"
  /\ Move({m}, IF dc[m] = MaxDeliver THEN "exhausted" ELSE "out")
  /\ UNCHANGED <<prog, mainVars, connVars, active, srvVars, dc, copies, handled, smooth>>

\* wg.Done: the one that reaches zero releases a parked main; one too many
\* panics, the counter stays below zero.
Done ==
  /\ group' = IF group < 0 THEN group ELSE group - 1
  /\ IF group = 1 /\ At("parked") THEN Step ELSE UNCHANGED todo

\* The handler returns nil and the message is acknowledged.  A panic of wg.Done
\* is recovered and leaves the message unacknowledged.
HandlerReturns(m) ==
  /\ up /\ msg[m] = "held" /\ prog.handler = "ok"
  /\ IF prog.add > 0 THEN Done ELSE UNCHANGED <<group, todo>>
  /\ IF prog.add > 0 /\ group <= 0
     THEN Move({m}, Abandoned) /\ UNCHANGED handled
     ELSE /\ Move({m}, IF JetStream THEN "acking" ELSE "done")
          /\ handled' = handled \union {m}
  /\ UNCHANGED <<prog, run, up, sent, asking, ctx, connVars, active, srvVars, dc, copies, smooth>>

\* The handler fails: a Nak, and after the last delivery a copy for the DLQ
\* subject and an acknowledgement.
HandlerFails(m) ==
  /\ up /\ msg[m] = "held" /\ prog.handler = "fails"
  /\ \/ dc[m] < MaxDeliver /\ Move({m}, "out") /\ UNCHANGED copies
     \/ dc[m] >= MaxDeliver /\ Move({m}, "acking") /\ copies' = copies \union {m}
  /\ UNCHANGED <<prog, mainVars, connVars, active, srvVars, dc, handled, smooth>>

AckArrives(m) ==
  /\ msg[m] = "acking" /\ conn = "up" /\ Move({m}, "done")
  /\ UNCHANGED <<prog, mainVars, connVars, active, srvVars, dc, copies, handled, smooth>>

\* The program's own subscription to the DLQ subject, made while its connection
\* cannot be closed yet.  Nothing recovers a panic of its callback: a wg.Done too
\* many ends the process.
DLQReceived(m) ==
  /\ m \in copies /\ conn = "up"
  /\ \/ /\ group > 0 /\ Done
        /\ copies' = copies \ {m} /\ handled' = handled \union {m}
        /\ UNCHANGED <<prog, run, up, sent, asking, ctx, connVars, active, srvVars, msg, dc,
                       smooth>>
     \/ group <= 0 /\ \E lost \in SUBSET In("acking") : End(lost)

-----------------------------------------------------------------------------

Main == Connect \/ Start \/ Publish \/ PublishFails \/ Request \/ Wait \/ Pass \/ Exit

Caller(m) == Replied(m) \/ RequestFails(m)

Callback(m) == HandlerReturns(m) \/ HandlerFails(m)

\* The program is not run again.
Finished == ~up /\ run = MaxRuns /\ UNCHANGED vars

Next ==
  \/ Begin \/ Main \/ Killed
  \/ ContextEnds \/ DrainOnCancel \/ Drop \/ Reconnect \/ GiveUp
  \/ \E i \in 1..N : OthersPublish(i)
  \/ \E m \in Msgs : Deliver(m) \/ AckWaitExpires(m) \/ Callback(m) \/ AckArrives(m)
                     \/ DLQReceived(m) \/ Caller(m) \/ OthersReply(m)
  \/ Finished

Spec == Init /\ [][Next]_vars

\* main and the callbacks run, deadlines pass, the server delivers, its timers
\* expire, and it comes back after a connection broke.  Nobody has to start, kill
\* or signal the process, to publish or to answer elsewhere.
Fairness ==
  /\ WF_vars(Main) /\ WF_vars(DrainOnCancel) /\ WF_vars(Reconnect)
  /\ \A m \in Msgs : /\ WF_vars(Deliver(m)) /\ WF_vars(AckWaitExpires(m))
                     /\ WF_vars(Callback(m)) /\ WF_vars(AckArrives(m))
                     /\ WF_vars(DLQReceived(m)) /\ WF_vars(Caller(m))

FairSpec == Spec /\ Fairness

-----------------------------------------------------------------------------
(* Properties *)

\* A program that has left wg.Wait, or Request, in a run without faults, on a
\* stream with nothing left over, has handled every message of this run, in the
\* DLQ program by way of the DLQ subject ("Wait for all messages to be
\* processed", examples/consumer/jetstream/durable/main.go:94).
DoneMeansHandled ==
  up /\ todo = <<>> /\ smooth /\ prog.add + prog.callers > 0 =>
    \A m \in Msgs : m[1] = run /\ msg[m] \notin {"unsent", "gone"} => m \in handled

\* Every such run ends: the wait group reaches zero before main parks or after,
\* and no message is published where nobody gets it
\* (examples/consumer/jetstream/replay/main.go:42-74).  A program that waits for
\* requests and times only ends whatever fails
\* (examples/producer/request_reply/main.go:45-66).
Endless == prog.messages = 0 \/ prog = BrokerProducer
Timed   == prog.add = 0

RunEnds == up /\ ~Endless /\ (smooth \/ Timed) ~> ~up \/ ~(smooth \/ Timed)

Serving == up /\ active > 0

\* The process of the current run was ended before, or its connection broke, as
\* often as a message is delivered.
DeliveriesLost == MaxDeliver <= run - 1 + drops

\* A service that stays up in the end handles everything stored for its durable,
\* what earlier runs were given and did not acknowledge included, although
\* processes were killed, acknowledgements lost and connections restored; a
\* message is given up unhandled or unacknowledged only when the ends of runs and
\* the broken connections could use up all its deliveries, one each
\* (examples/consumer/jetstream/infinite_consumer/main.go:31-86, conn/conn.go:16).
ServiceHandlesAll ==
  prog.messages = 0 /\ <>[]Serving =>
    <>[]\A m \in Msgs : \/ msg[m] \in {"unsent", "done", "gone"}
                        \/ msg[m] = "exhausted" /\ DeliveriesLost

=============================================================================
