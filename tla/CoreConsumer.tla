---------------------------- MODULE CoreConsumer ----------------------------
(***************************************************************************)
(* A PubSub or Queue route (consumer.startPubSub, startQueue) under a      *)
(* broker with metrics: every worker has a subscription of its own whose   *)
(* callback runs the instrumented handler (broker/instrumentation.go), and *)
(* drains it when the broker stops.  The workers share the four metrics of *)
(* the route's subject, which a scrape reads one by one.                   *)
(*                                                                         *)
(* External: the server copies a message to every subscription, or to one  *)
(* member of the queue group; a subscription runs its callback on one      *)
(* message at a time; a drained one works its buffer off.  Each update of  *)
(* a metric is atomic, and so is each reading; the registry gathers the    *)
(* metrics in any order, each at a moment of its own.                      *)
(***************************************************************************)
EXTENDS Naturals, Sequences, FiniteSets

CONSTANTS
  Msgs,       \* the messages published to the subject, each once
  Workers     \* the workers of the route

\* b.workers is an int.
ASSUME WorkersAssumption == IsFiniteSet(Workers)

VARIABLES
  routeType,  \* the type of the route, "PubSub" or "Queue"
  published,  \* the messages published so far
  sub,        \* per worker: its subscription
  queue,      \* per worker: the buffered messages
  pc,         \* per worker: what its callback does
  job,        \* per worker: the message it works on, {} if none
  result,     \* per worker: what the handler did, "none" before
  inflight, requestsTotal, errorsTotal, duration,  \* the metrics
  seen,       \* per counter: its value if the scrape under way has read it first
  runs        \* history: the handler runs, as <<message, worker, result>>

subVars    == <<routeType, sub, queue>>
workerVars == <<pc, job, result>>
metrics    == <<inflight, requestsTotal, errorsTotal, duration>>
vars       == <<published, subVars, workerVars, metrics, seen, runs>>

Results == {"success", "error", "panic"}
Counters == {"requestsTotal", "errorsTotal"}

TypeOK ==
  /\ routeType \in {"PubSub", "Queue"}
  /\ published \subseteq Msgs
  /\ sub \in [Workers -> {"none", "open", "draining", "closed"}]
  /\ queue \in [Workers -> Seq(Msgs)]
  /\ pc \in [Workers -> {"idle", "enter", "handler", "observe", "count", "leave"}]
  /\ job \in [Workers -> SUBSET Msgs]
  /\ result \in [Workers -> Results \union {"none"}]
  /\ inflight \in Nat /\ requestsTotal \in Nat /\ errorsTotal \in Nat
  /\ duration \in Nat
  /\ seen \in [Counters -> SUBSET Nat]
  /\ runs \subseteq Msgs \X Workers \X Results

Init ==
  /\ routeType \in {"PubSub", "Queue"}
  /\ published = {}
  /\ sub = [w \in Workers |-> "none"]
  /\ queue = [w \in Workers |-> <<>>]
  /\ pc = [w \in Workers |-> "idle"]
  /\ job = [w \in Workers |-> {}]
  /\ result = [w \in Workers |-> "none"]
  /\ inflight = 0 /\ requestsTotal = 0 /\ errorsTotal = 0 /\ duration = 0
  /\ seen = [x \in Counters |-> {}]
  /\ runs = {}

-----------------------------------------------------------------------------
(* Publishing and subscribing *)

Open == {w \in Workers : sub[w] = "open"}

\* Mutant: Subscribe for QueueSubscribe.
RecipientsAll == {Open}

\* Who gets a message: every subscription made by Subscribe; one member of the
\* group when QueueSubscribe made them; nobody when none is open.
Recipients ==
  IF routeType = "PubSub" \/ Open = {} THEN {Open} ELSE {{w} : w \in Open}

\* Publish to whoever is subscribed at this moment; nobody keeps the message.
Publish(m) ==
  /\ m \notin published /\ published' = published \union {m}
  /\ \E ws \in Recipients :
       queue' = [w \in Workers |-> IF w \in ws THEN Append(queue[w], m) ELSE queue[w]]
  /\ UNCHANGED <<routeType, sub, workerVars, metrics, seen, runs>>

\* startPubSub or startQueue: Subscribe, QueueSubscribe.
Start(w) ==
  /\ sub[w] = "none"
  /\ sub' = [sub EXCEPT ![w] = "open"]
  /\ UNCHANGED <<published, routeType, queue, workerVars, metrics, seen, runs>>

\* Mutant: Unsubscribe for Drain.
DrainDiscards(w) ==
  /\ sub[w] = "open"
  /\ sub' = [sub EXCEPT ![w] = "closed"]
  /\ queue' = [queue EXCEPT ![w] = <<>>]
  /\ UNCHANGED <<published, routeType, workerVars, metrics, seen, runs>>

\* drainOnCancel: sub.Drain() when the context ends.
Drain(w) ==
  /\ sub[w] = "open"
  /\ sub' = [sub EXCEPT ![w] = "draining"]
  /\ UNCHANGED <<published, routeType, queue, workerVars, metrics, seen, runs>>

DrainEnds(w) ==
  /\ sub[w] = "draining" /\ queue[w] = <<>> /\ pc[w] = "idle"
  /\ sub' = [sub EXCEPT ![w] = "closed"]
  /\ UNCHANGED <<published, routeType, queue, workerVars, metrics, seen, runs>>

-----------------------------------------------------------------------------
(* The callback: safeHandle around the instrumented handler *)

Goto(w, label) == pc' = [pc EXCEPT ![w] = label]

Take(w) ==
  /\ pc[w] = "idle" /\ queue[w] # <<>>
  /\ job' = [job EXCEPT ![w] = {Head(queue[w])}]
  /\ queue' = [queue EXCEPT ![w] = Tail(@)]
  /\ Goto(w, "enter")
  /\ UNCHANGED <<published, routeType, sub, result, metrics, seen, runs>>

InflightInc(w) ==
  /\ pc[w] = "enter"
  /\ inflight' = inflight + 1
  /\ Goto(w, "handler")
  /\ UNCHANGED <<published, subVars, job, result, requestsTotal, errorsTotal,
                 duration, seen, runs>>

\* Mutant: the decrement is not deferred, a panic leaves without it.
HandlerPanicSkipsDec(w) ==
  /\ pc[w] = "handler"
  /\ \E m \in job[w], r \in Results :
       /\ runs' = runs \union {<<m, w, r>>}
       /\ IF r = "panic"
          THEN /\ Goto(w, "idle")
               /\ job' = [job EXCEPT ![w] = {}] /\ UNCHANGED result
          ELSE /\ Goto(w, "observe")
               /\ result' = [result EXCEPT ![w] = r] /\ UNCHANGED job
  /\ UNCHANGED <<published, subVars, metrics, seen>>

\* The handler ends.  A panic unwinds to the deferred decrement.
Handler(w) ==
  /\ pc[w] = "handler"
  /\ \E m \in job[w], r \in Results :
       /\ runs' = runs \union {<<m, w, r>>}
       /\ result' = [result EXCEPT ![w] = r]
       /\ Goto(w, IF r = "panic" THEN "leave" ELSE "observe")
  /\ UNCHANGED <<published, subVars, job, metrics, seen>>

\* Mutant: the gauge is decremented here and again by the defer.
ObserveAndDec(w) ==
  /\ pc[w] = "observe"
  /\ duration' = duration + 1 /\ inflight' = inflight - 1
  /\ Goto(w, "count")
  /\ UNCHANGED <<published, subVars, job, result, requestsTotal, errorsTotal, seen, runs>>

ObserveDuration(w) ==
  /\ pc[w] = "observe"
  /\ duration' = duration + 1
  /\ Goto(w, "count")
  /\ UNCHANGED <<published, subVars, job, result, inflight, requestsTotal,
                 errorsTotal, seen, runs>>

\* Mutant: no return after incError.
CountFallsThrough(w) ==
  /\ pc[w] = "count"
  /\ errorsTotal' = IF result[w] = "error" THEN errorsTotal + 1 ELSE errorsTotal
  /\ requestsTotal' = requestsTotal + 1
  /\ Goto(w, "leave")
  /\ UNCHANGED <<published, subVars, job, result, inflight, duration, seen, runs>>

\* incError for an error, incRequest for a success.
Count(w) ==
  /\ pc[w] = "count"
  /\ \/ /\ result[w] = "error" /\ errorsTotal' = errorsTotal + 1
        /\ UNCHANGED requestsTotal
     \/ /\ result[w] = "success" /\ requestsTotal' = requestsTotal + 1
        /\ UNCHANGED errorsTotal
  /\ Goto(w, "leave")
  /\ UNCHANGED <<published, subVars, job, result, inflight, duration, seen, runs>>

\* The deferred inflightDec; safeHandle recovers a panic.
InflightDec(w) ==
  /\ pc[w] = "leave"
  /\ inflight' = inflight - 1
  /\ Goto(w, "idle")
  /\ job' = [job EXCEPT ![w] = {}]
  /\ result' = [result EXCEPT ![w] = "none"]
  /\ UNCHANGED <<published, subVars, requestsTotal, errorsTotal, duration, seen, runs>>

-----------------------------------------------------------------------------
(* A scrape, any time *)

\* The registry reads one of the two counters.
Gather(x) ==
  /\ \A y \in Counters : seen[y] = {}
  /\ seen' = [seen EXCEPT ![x] = {IF x = "errorsTotal" THEN errorsTotal ELSE requestsTotal}]
  /\ UNCHANGED <<published, subVars, workerVars, metrics, runs>>

\* Later it reads the other one and the scrape is answered.  That reading and those
\* of the gauge and the durations are not kept: what they can be, the properties
\* ask of every state.
Answer ==
  /\ \E y \in Counters : seen[y] # {}
  /\ seen' = [y \in Counters |-> {}]
  /\ UNCHANGED <<published, subVars, workerVars, metrics, runs>>

Scrape == (\E x \in Counters : Gather(x)) \/ Answer

-----------------------------------------------------------------------------

Callback(w) ==
  \/ Take(w) \/ InflightInc(w) \/ Handler(w) \/ ObserveDuration(w) \/ Count(w)
  \/ InflightDec(w)

AtRest == \A w \in Workers : pc[w] = "idle"

\* Everything is published and every subscription has been closed.
Finished ==
  /\ published = Msgs /\ AtRest /\ \A w \in Workers : sub[w] = "closed"
  /\ UNCHANGED vars

Next ==
  \/ \E m \in Msgs : Publish(m)
  \/ \E w \in Workers : Start(w) \/ Drain(w) \/ DrainEnds(w) \/ Callback(w)
  \/ Scrape
  \/ Finished

Spec == Init /\ [][Next]_vars

\* A subscription runs its callback and ends its drain.
Fairness == \A w \in Workers : WF_vars(Callback(w) \/ DrainEnds(w))

FairSpec == Spec /\ Fairness

-----------------------------------------------------------------------------
(* Properties *)

Runs(P(_)) == Cardinality({r \in runs : P(r)})

\* Whatever the handlers did, the metrics agree with each other and with the
\* handlers once all callbacks are over: nobody is in flight, a panic included,
\* and every handler that returned left one duration and one count
\* (instrumentation.go:21-38).
BooksBalance ==
  AtRest =>
    /\ inflight = 0
    /\ duration = requestsTotal + errorsTotal
    /\ errorsTotal = Runs(LAMBDA r : r[3] = "error")
    /\ requestsTotal = Runs(LAMBDA r : r[3] = "success")

\* At every moment, and so in every reading of the gauge alone, each running
\* handler is counted and there are no more than workers (instrumentation.go:24-25).
GaugeCountsHandlers ==
  /\ Cardinality({w \in Workers : pc[w] = "handler"}) <= inflight
  /\ inflight <= Cardinality(Workers)

\* A scrape reads the counters at different moments while workers go on.  What it
\* has read of one and reads of the other now is no more than the durations
\* observed by now: a scrape that reads the durations last never shows more
\* results than durations, and one that has read them earlier misses only those
\* observed since (instrumentation.go:29-36).
ScrapeConsistent ==
  /\ \A r \in seen["requestsTotal"] : r + errorsTotal <= duration
  /\ \A e \in seen["errorsTotal"] : e + requestsTotal <= duration

\* Members of a queue group share the messages, none is handled twice
\* (consumer.go:76).
QueueSharesWork ==
  routeType = "Queue" => \A r, s \in runs : r[1] = s[1] => r = s

\* "Core subscriptions are drained" (README.md:196): what a subscription has
\* received when the broker stops is still handled (consumer.go:70, 88).
ReceivedIsHandled ==
  \A m \in Msgs, w \in Workers :
    (\E i \in 1..Len(queue[w]) : queue[w][i] = m)
      ~> (\E r \in Results : <<m, w, r>> \in runs)

=============================================================================
