---------------------------- MODULE RequestReply ----------------------------
(***************************************************************************)
(* A request from typed.Requester.Request through producer.Request and the *)
(* core strategy to a RequestReply route (consumer.startRequestReply) and  *)
(* back: the timeout, what the caller is told, and the workers of the      *)
(* route that drain their subscription when the broker stops.              *)
(*                                                                         *)
(* External, modelled by what the code relies on: the server gives a       *)
(* request to one member of the queue group or answers that there is no    *)
(* responder; messages may be lost; the client matches a reply to the      *)
(* request by its inbox; a drained subscription gets nothing new and works *)
(* its buffer off.                                                         *)
(***************************************************************************)
EXTENDS Naturals, Sequences

CONSTANTS
  Requests,         \* the calls of Request, each made once
  Workers,          \* the workers of the route, one queue group
  RequestTimeout,   \* the producer has a positive requestTimeout
  FaultSets         \* what may go wrong in a call: one of these sets of faults

ASSUME TimeoutAssumption == RequestTimeout \in BOOLEAN

\* "lost"        a request or a reply is lost
\* "connection"  the client cannot send: RequestWithContext or PublishMsg fails
\* "cancel"      the caller cancels its context
\* "stop"        the broker stops
FaultKinds == {"lost", "connection", "cancel", "stop"}

ASSUME FaultsAssumption == FaultSets \subseteq SUBSET FaultKinds

VARIABLES
  pc,        \* per request: where Request is
  ctxEnd,    \* per request: why its context is done, "live" when it is not
  got,       \* per request: the replies Request took, {} or one
  result,    \* per request: what Request returned
  requests,  \* requests the server has not routed yet
  replies,   \* what is on its way to the inboxes
  faults,    \* what may go wrong in this behaviour, chosen once
  replyFunc, \* the route's ReplyFunc: "json" for reply.JSON, "default" for none
  sub,       \* per worker: its subscription
  queue,     \* per worker: the requests its subscription has buffered
  job,       \* per worker: the request its callback works on, {} if none
  handled,   \* per worker: what the handler did with it
  runs,      \* history: how often a handler was run for a request
  outcome    \* history: what the handler did with a request

callerVars == <<pc, ctxEnd, got, result>>
routeVars  == <<faults, replyFunc>>
workerVars == <<routeVars, sub, queue, job, handled>>
history    == <<runs, outcome>>
vars       == <<callerVars, requests, replies, workerVars, history>>

Results  == {"none", "ok", "encodeError", "timeout", "transportError",
             "replyError", "zero", "decodeError"}

\* For typed.WrapHandler a message that it cannot decode is an error.
Outcomes == {"none", "success", "error", "panic"}

\* A reply names the inbox it goes to and the request it answers.  Status is the
\* X-Status header; "503" is the server's answer that nobody listens.
Replies == [to : Requests, of : Requests,
            status : {"absent", "success", "error", "503"}]

TypeOK ==
  /\ pc \in [Requests -> {"idle", "waiting", "classify", "decode", "returned"}]
  /\ ctxEnd \in [Requests -> {"live", "deadline", "cancelled"}]
  /\ got \in [Requests -> SUBSET Replies] /\ result \in [Requests -> Results]
  /\ requests \subseteq Requests /\ replies \subseteq Replies
  /\ faults \in FaultSets /\ replyFunc \in {"default", "json"}
  /\ sub \in [Workers -> {"open", "draining", "closed"}]
  /\ queue \in [Workers -> Seq(Requests)]
  /\ job \in [Workers -> SUBSET Requests]
  /\ handled \in [Workers -> Outcomes]
  /\ runs \in [Requests -> Nat] /\ outcome \in [Requests -> Outcomes]

Init ==
  /\ pc = [q \in Requests |-> "idle"]
  /\ ctxEnd = [q \in Requests |-> "live"]
  /\ got = [q \in Requests |-> {}]
  /\ result = [q \in Requests |-> "none"]
  /\ requests = {} /\ replies = {}
  /\ faults \in FaultSets /\ replyFunc \in {"default", "json"}
  /\ sub = [w \in Workers |-> "open"]
  /\ queue = [w \in Workers |-> <<>>]
  /\ job = [w \in Workers |-> {}]
  /\ handled = [w \in Workers |-> "none"]
  /\ runs = [q \in Requests |-> 0]
  /\ outcome = [q \in Requests |-> "none"]

-----------------------------------------------------------------------------
(* The caller: Requester.Request and Producer.Request *)

Return(q, r) ==
  /\ pc' = [pc EXCEPT ![q] = "returned"]
  /\ result' = [result EXCEPT ![q] = r]

\* Encode the message, set the deadline and publish with a fresh inbox, unless
\* the context is done already.
SendRequest(q) ==
  /\ pc[q] = "idle"
  /\ \/ Return(q, "encodeError") /\ UNCHANGED requests
     \/ /\ ctxEnd[q] # "live" /\ pc' = [pc EXCEPT ![q] = "classify"]
        /\ UNCHANGED <<requests, result>>
     \/ /\ ctxEnd[q] = "live" /\ pc' = [pc EXCEPT ![q] = "waiting"]
        /\ requests' = requests \union {q}
        /\ UNCHANGED result
  /\ UNCHANGED <<ctxEnd, got, replies, workerVars, history>>

\* The deadline of context.WithTimeout, as long as Request has not returned.
DeadlinePasses(q) ==
  /\ RequestTimeout /\ pc[q] \in {"waiting", "classify"} /\ ctxEnd[q] = "live"
  /\ ctxEnd' = [ctxEnd EXCEPT ![q] = "deadline"]
  /\ UNCHANGED <<pc, got, result, requests, replies, workerVars, history>>

\* The caller's own context ends.
CallerCancels(q) ==
  /\ "cancel" \in faults /\ pc[q] # "returned" /\ ctxEnd[q] = "live"
  /\ ctxEnd' = [ctxEnd EXCEPT ![q] = "cancelled"]
  /\ UNCHANGED <<pc, got, result, requests, replies, workerVars, history>>

\* RequestWithContext returns with an error, which the caller then classifies:
\* the context is done, nobody listens, or the connection is gone.
Fail(q) ==
  /\ pc' = [pc EXCEPT ![q] = "classify"]
  /\ UNCHANGED <<ctxEnd, got, result, requests, workerVars, history>>

\* Mutant: the context with the deadline is shadowed, the wait does not see it.
ContextDoneShadowed(q) ==
  /\ pc[q] = "waiting" /\ ctxEnd[q] = "cancelled"
  /\ Fail(q) /\ UNCHANGED replies

ContextDone(q) ==
  /\ pc[q] = "waiting" /\ ctxEnd[q] # "live"
  /\ Fail(q) /\ UNCHANGED replies

NatsError(q) ==
  /\ pc[q] = "waiting"
  /\ \/ \E p \in replies : /\ p.to = q /\ p.status = "503"
                            /\ replies' = replies \ {p}
     \/ "connection" \in faults /\ UNCHANGED replies
  /\ Fail(q)

\* ... or with a reply.
TakeReply(q) ==
  /\ pc[q] = "waiting"
  /\ \E p \in replies :
       /\ p.to = q /\ p.status # "503"
       /\ replies' = replies \ {p}
       /\ got' = [got EXCEPT ![q] = {p}]
  /\ pc' = [pc EXCEPT ![q] = "decode"]
  /\ UNCHANGED <<ctxEnd, result, requests, workerVars, history>>

\* Mutant: the context's error is returned as it is, not as ErrRequestTimeout.
ClassifyRaw(q) ==
  /\ pc[q] = "classify"
  /\ Return(q, IF ctxEnd[q] # "live" THEN ctxEnd[q] ELSE "transportError")
  /\ UNCHANGED <<ctxEnd, got, requests, replies, workerVars, history>>

\* An error is a timeout when the context is done by now.
Classify(q) ==
  /\ pc[q] = "classify"
  /\ Return(q, IF ctxEnd[q] # "live" THEN "timeout" ELSE "transportError")
  /\ UNCHANGED <<ctxEnd, got, requests, replies, workerVars, history>>

\* Mutant: the status header is not looked at; an error body decodes as well.
DecodeIgnoresStatus(q) ==
  /\ pc[q] = "decode"
  /\ \E r \in {"ok", "decodeError"} : Return(q, r)
  /\ UNCHANGED <<ctxEnd, got, requests, replies, workerVars, history>>

\* An error status becomes an error, unless the ErrorDecoder returns nil: then
\* the caller gets the zero result.  Any other reply is decoded.
Decode(q) ==
  /\ pc[q] = "decode"
  /\ IF \E p \in got[q] : p.status = "error"
     THEN \E r \in {"replyError", "zero"} : Return(q, r)
     ELSE \E r \in {"ok", "decodeError"} : Return(q, r)
  /\ UNCHANGED <<ctxEnd, got, requests, replies, workerVars, history>>

-----------------------------------------------------------------------------
(* The server *)

NoResponder(q) == [to |-> q, of |-> q, status |-> "503"]

Open == {w \in Workers : sub[w] = "open"}

\* Mutant: Subscribe for QueueSubscribe.
RecipientsAll == {Open}

\* Who may get a request: QueueSubscribe makes the workers one group.
Recipients == {{w} : w \in Open}

\* A request goes to one open member of the group, or comes back unanswered.
RouteRequest(q) ==
  /\ q \in requests /\ requests' = requests \ {q}
  /\ \/ /\ Open # {}
        /\ \E ws \in Recipients :
             queue' = [w \in Workers |-> IF w \in ws THEN Append(queue[w], q)
                                                     ELSE queue[w]]
        /\ UNCHANGED replies
     \/ /\ Open = {}
        /\ replies' = replies \union {NoResponder(q)}
        /\ UNCHANGED queue
  /\ UNCHANGED <<callerVars, routeVars, sub, job, handled, history>>

\* Core NATS delivers at most once.
Lose ==
  /\ "lost" \in faults
  /\ \/ \E q \in requests : requests' = requests \ {q} /\ UNCHANGED replies
     \/ \E p \in replies : replies' = replies \ {p} /\ UNCHANGED requests
  /\ UNCHANGED <<callerVars, workerVars, history>>

-----------------------------------------------------------------------------
(* The workers of the route *)

\* The subscription's callback starts on its next message.
TakeRequest(w) ==
  /\ job[w] = {} /\ queue[w] # <<>>
  /\ job' = [job EXCEPT ![w] = {Head(queue[w])}]
  /\ queue' = [queue EXCEPT ![w] = Tail(@)]
  /\ UNCHANGED <<callerVars, requests, replies, routeVars, sub, handled, history>>

\* The handler returns a result or an error, or panics and is recovered.
RunHandler(w, q) ==
  /\ job[w] = {q} /\ handled[w] = "none"
  /\ \E o \in Outcomes \ {"none"} :
       /\ outcome' = [outcome EXCEPT ![q] = o]
       /\ IF o = "panic" THEN /\ job' = [job EXCEPT ![w] = {}]
                              /\ UNCHANGED handled
          ELSE /\ handled' = [handled EXCEPT ![w] = o]
               /\ UNCHANGED job
  /\ runs' = [runs EXCEPT ![q] = @ + 1]
  /\ UNCHANGED <<callerVars, requests, replies, routeVars, sub, queue>>

\* Mutant: the error status is set before the error is looked at.
JSONAlwaysError(o) == {"error"}

\* reply.JSON, the ReplyFunc every program of examples/ uses: the status header
\* follows the handler's error; a result that cannot be marshalled gives no reply.
JSON(o) == IF o = "error" THEN {"error"} ELSE {"success", "none"}

\* typed.WrapReply hands an error on as it is and refuses a result of another type.
WrapReply(o) == IF o = "error" THEN JSON(o) ELSE JSON(o) \union {"none"}

\* Without a ReplyFunc a handler error is only logged.
defaultReply(o) == IF o = "error" THEN {"none"} ELSE {"absent"}

\* The reply handleRequestReplyMessage builds, or "none".
ReplyStatuses(o) == IF replyFunc = "default" THEN defaultReply(o) ELSE WrapReply(o)

\* The callback publishes the reply to msg.Reply, which may fail, and ends.
SendReply(w, q) ==
  /\ job[w] = {q} /\ handled[w] # "none"
  /\ \E s \in ReplyStatuses(handled[w]) :
       \/ s # "none" /\ replies' = replies \union {[to |-> q, of |-> q, status |-> s]}
       \/ (s = "none" \/ "connection" \in faults) /\ UNCHANGED replies
  /\ job' = [job EXCEPT ![w] = {}]
  /\ handled' = [handled EXCEPT ![w] = "none"]
  /\ UNCHANGED <<callerVars, requests, routeVars, sub, queue, history>>

\* Mutant: Unsubscribe for Drain.
DrainDiscards(w) ==
  /\ "stop" \in faults /\ sub[w] = "open"
  /\ sub' = [sub EXCEPT ![w] = "closed"]
  /\ queue' = [queue EXCEPT ![w] = <<>>]
  /\ UNCHANGED <<callerVars, requests, replies, routeVars, job, handled, history>>

\* drainOnCancel: the broker's context ends and sub.Drain() is called.
Drain(w) ==
  /\ "stop" \in faults /\ sub[w] = "open"
  /\ sub' = [sub EXCEPT ![w] = "draining"]
  /\ UNCHANGED <<callerVars, requests, replies, routeVars, queue, job, handled, history>>

\* A drained subscription is removed once its buffer is worked off.
DrainEnds(w) ==
  /\ sub[w] = "draining" /\ queue[w] = <<>> /\ job[w] = {}
  /\ sub' = [sub EXCEPT ![w] = "closed"]
  /\ UNCHANGED <<callerVars, requests, replies, routeVars, queue, job, handled, history>>

-----------------------------------------------------------------------------

CallerStep(q) ==
  \/ SendRequest(q) \/ ContextDone(q) \/ NatsError(q) \/ TakeReply(q)
  \/ Classify(q) \/ Decode(q)

WorkerStep(w) ==
  \/ TakeRequest(w) \/ DrainEnds(w)
  \/ \E q \in Requests : RunHandler(w, q) \/ SendReply(w, q)

\* Every call has returned or waits for a reply that no timeout bounds.
Finished ==
  /\ \A q \in Requests : pc[q] = "returned" \/ (pc[q] = "waiting" /\ ~RequestTimeout)
  /\ requests = {} /\ \A w \in Workers : job[w] = {} /\ queue[w] = <<>>
  /\ UNCHANGED vars

Next ==
  \/ \E q \in Requests :
       CallerStep(q) \/ DeadlinePasses(q) \/ CallerCancels(q) \/ RouteRequest(q)
  \/ Lose
  \/ \E w \in Workers : WorkerStep(w) \/ Drain(w)
  \/ Finished

Spec == Init /\ [][Next]_vars

\* The caller runs, its deadline passes, the server routes, the workers run.
\* Nobody has to cancel, stop or lose anything.
Fairness ==
  /\ \A q \in Requests : /\ WF_vars(CallerStep(q)) /\ WF_vars(DeadlinePasses(q))
                         /\ WF_vars(RouteRequest(q))
  /\ \A w \in Workers : WF_vars(WorkerStep(w))

FairSpec == Spec /\ Fairness

-----------------------------------------------------------------------------
(* Properties *)

\* Request succeeds only when the handler did, for this very request: an error
\* status never decodes into a result, and a missing reply is never taken for
\* one (typed/requester.go:98-107, consumer.go:116-119, 140-144); for routes
\* that reply with reply.JSON or have no ReplyFunc.
NoFalseSuccess ==
  \A q \in Requests : result[q] = "ok" => outcome[q] = "success"

\* The workers share the requests out: no request is handled twice
\* (consumer.go:94).
HandledAtMostOnce == \A q \in Requests : runs[q] <= 1

\* On a route that replies with reply.JSON, or without a ReplyFunc, a reply error
\* tells the caller that the handler failed: no lost, late or foreign reply, no
\* transport error and no panic reaches the ErrorDecoder, which may turn a reply
\* error into a zero result (reply/reply.go:53-67, typed/requester.go:100-118).  What
\* a ReplyFunc of the application makes of a result is its own affair.
ReplyErrorIsHandlerError ==
  \A q \in Requests : result[q] \in {"replyError", "zero"} => outcome[q] = "error"

\* With a request timeout every call returns, whatever is lost and although a
\* panic, a handler error or a failing ReplyFunc leaves it without a reply
\* (producer.go:103-107, consumer.go:122-125, 141-144).
CallReturns == \A q \in Requests : pc[q] = "waiting" ~> pc[q] = "returned"

\* The contract of a call, see Call.
Contract == INSTANCE Call WITH
  phase <- [q \in Requests |-> IF pc[q] \in {"idle", "returned"} THEN pc[q] ELSE "open"]

\* A call implements its contract, and with a request timeout it returns
\* (typed/requester.go:87-118, producer.go:94-118, consumer.go:93-149).
ImplementsCall == Contract!FairSpec

\* "Core subscriptions are drained" (README.md:196): a request a worker has
\* received is handled although the broker stops (consumer.go:103, 244-249).
ReceivedIsHandled ==
  \A q \in Requests, w \in Workers :
    (\E i \in 1..Len(queue[w]) : queue[w][i] = q) ~> outcome[q] # "none"

=============================================================================
