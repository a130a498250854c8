------------------------- MODULE RequestReplyProofs -------------------------
(***************************************************************************)
(* Proofs of the safety properties of RequestReply, for any requests, any  *)
(* workers, any sets of faults, with and without a request timeout, and of *)
(* the safety part of its refinement of Call.                              *)
(***************************************************************************)
EXTENDS RequestReply, SequenceTheorems, TLAPS

-----------------------------------------------------------------------------
(* Type correctness *)

\* The replies the steps make.
LEMMA ReplyFacts ==
  ASSUME NEW q \in Requests
  PROVE  /\ NoResponder(q) \in Replies
         /\ \A s \in {"absent", "success", "error"} :
              [to |-> q, of |-> q, status |-> s] \in Replies
PROOF
  BY DEF NoResponder, Replies

LEMMA StatusFacts ==
  \A o \in Outcomes : ReplyStatuses(o) \subseteq {"none", "absent", "success", "error"}
PROOF
  BY DEF ReplyStatuses, defaultReply, WrapReply, JSON

LEMMA TypeInit == Init => TypeOK
PROOF
  BY EmptySeq DEF Init, TypeOK, Results, Outcomes

LEMMA TypeCaller ==
  ASSUME TypeOK, NEW q \in Requests,
         CallerStep(q) \/ DeadlinePasses(q) \/ CallerCancels(q)
  PROVE  TypeOK'
PROOF
<1> USE DEF callerVars, routeVars, workerVars, history, vars
<1>1. UNCHANGED <<faults, replyFunc, sub, queue, job, handled, runs, outcome>>
  BY DEF CallerStep, SendRequest, ContextDone, NatsError, TakeReply, Classify,
         Decode, DeadlinePasses, CallerCancels, Fail
<1>2. replies' \subseteq replies /\ requests' \subseteq Requests
  BY DEF TypeOK, CallerStep, SendRequest, ContextDone, NatsError, TakeReply, Classify,
         Decode, DeadlinePasses, CallerCancels, Fail
<1>3. pc' \in [Requests -> {"idle", "waiting", "classify", "decode", "returned"}]
  <2>1. \/ pc' = pc
        \/ \E s \in {"waiting", "classify", "decode", "returned"} :
             pc' = [pc EXCEPT ![q] = s]
    BY DEF CallerStep, SendRequest, ContextDone, NatsError, TakeReply, Classify,
           Decode, DeadlinePasses, CallerCancels, Fail, Return
  <2> QED
    BY <2>1 DEF TypeOK
<1>6. ctxEnd' \in [Requests -> {"live", "deadline", "cancelled"}]
  BY DEF TypeOK, CallerStep, SendRequest, ContextDone, NatsError, TakeReply, Classify,
         Decode, DeadlinePasses, CallerCancels, Fail
<1>4. result' \in [Requests -> Results]
  <2>1. result' = result \/ \E r \in Results : result' = [result EXCEPT ![q] = r]
    BY DEF CallerStep, SendRequest, ContextDone, NatsError, TakeReply, Classify,
           Decode, DeadlinePasses, CallerCancels, Fail, Return, Results
  <2> QED
    BY <2>1 DEF TypeOK
<1>5. got' \in [Requests -> SUBSET Replies]
  <2>1. got' = got \/ \E p \in Replies : got' = [got EXCEPT ![q] = {p}]
    BY DEF TypeOK, CallerStep, SendRequest, ContextDone, NatsError, TakeReply, Classify,
           Decode, DeadlinePasses, CallerCancels, Fail
  <2>2. got \in [Requests -> SUBSET Replies]
    BY DEF TypeOK
  <2>3. ASSUME NEW p \in Replies, got' = [got EXCEPT ![q] = {p}]
        PROVE  got' \in [Requests -> SUBSET Replies]
    <3>1. {p} \in SUBSET Replies
      OBVIOUS
    <3> HIDE DEF Replies
    <3> QED
      BY <2>2, <2>3, <3>1, Zenon
  <2> QED
    BY <2>1, <2>2, <2>3
<1> QED
  BY <1>1, <1>2, <1>3, <1>4, <1>5, <1>6 DEF TypeOK

LEMMA TypeWorker ==
  ASSUME TypeOK, NEW w \in Workers, WorkerStep(w) \/ Drain(w)
  PROVE  TypeOK'
PROOF
<1> USE DEF callerVars, routeVars, workerVars, history, vars
<1>1. CASE TakeRequest(w)
  <2>1. queue[w] \in Seq(Requests) /\ queue[w] # <<>>
    BY <1>1 DEF TakeRequest, TypeOK
  <2>2. Head(queue[w]) \in Requests /\ Tail(queue[w]) \in Seq(Requests)
    BY <2>1, HeadTailProperties
  <2> QED
    BY <1>1, <2>2 DEF TakeRequest, TypeOK
<1>2. CASE DrainEnds(w) \/ Drain(w)
  BY <1>2 DEF DrainEnds, Drain, TypeOK
<1>3. ASSUME NEW q \in Requests, RunHandler(w, q)
      PROVE  TypeOK'
  <2>1. runs' \in [Requests -> Nat]
    BY <1>3 DEF RunHandler, TypeOK
  <2>2. outcome' \in [Requests -> Outcomes]
    BY <1>3 DEF RunHandler, TypeOK
  <2>3. handled' \in [Workers -> Outcomes]
    <3>1. handled' = handled \/ \E o \in Outcomes : handled' = [handled EXCEPT ![w] = o]
      BY <1>3 DEF RunHandler
    <3> QED
      BY <3>1 DEF TypeOK
  <2>4. job' \in [Workers -> SUBSET Requests]
    BY <1>3 DEF RunHandler, TypeOK
  <2> QED
    BY <1>3, <2>1, <2>2, <2>3, <2>4 DEF RunHandler, TypeOK
<1>4. ASSUME NEW q \in Requests, SendReply(w, q)
      PROVE  TypeOK'
  <2>1. replies' \subseteq Replies
    BY <1>4, ReplyFacts, StatusFacts DEF SendReply, TypeOK
  <2> QED
    BY <1>4, <2>1 DEF SendReply, TypeOK, Outcomes
<1> QED
  BY <1>1, <1>2, <1>3, <1>4 DEF WorkerStep

LEMMA TypeNext == TypeOK /\ [Next]_vars => TypeOK'
PROOF
<1> SUFFICES ASSUME TypeOK, [Next]_vars PROVE TypeOK'
  OBVIOUS
<1> USE DEF callerVars, routeVars, workerVars, history, vars
<1>1. ASSUME NEW q \in Requests, RouteRequest(q)
      PROVE  TypeOK'
  <2>1. queue' \in [Workers -> Seq(Requests)]
    <3>1. \A w \in Workers : queue[w] \in Seq(Requests) /\ Append(queue[w], q) \in Seq(Requests)
      BY AppendProperties DEF TypeOK
    <3> QED
      BY <1>1, <3>1 DEF RouteRequest, TypeOK
  <2>2. replies' \subseteq Replies
    BY <1>1, ReplyFacts DEF RouteRequest, TypeOK
  <2> QED
    BY <1>1, <2>1, <2>2 DEF RouteRequest, TypeOK
<1>2. CASE Lose
  BY <1>2 DEF Lose, TypeOK
<1>3. CASE UNCHANGED vars
  BY <1>3 DEF TypeOK
<1> QED
  BY <1>1, <1>2, <1>3, TypeCaller, TypeWorker DEF Next, Finished

\* Every variable keeps its type; what a caller is given is a reply of the route or the
\* server's 503 (producer/core_strategy.go, consumer/consumer.go:93-149).
THEOREM TypeCorrect == Spec => []TypeOK
PROOF
  BY TypeInit, TypeNext, PTL DEF Spec

-----------------------------------------------------------------------------
(* The inductive invariant *)

\* The places of a worker hold the requests no handler has run for: 0 is its
\* callback until the handler returns, the others its subscription's buffer.
Held(w, i, q) == IF i = 0 THEN job[w] = {q} /\ handled[w] = "none"
                          ELSE queue[w][i] = q

HeldSomewhere(q) == \E w \in Workers : \E i \in 0..Len(queue[w]) : Held(w, i, q)

HeldOnce(q) ==
  \A v, w \in Workers : \A i \in 0..Len(queue[v]), j \in 0..Len(queue[w]) :
    Held(v, i, q) /\ Held(w, j, q) => v = w /\ i = j

\* The caller has sent its request.
Asked(q) == pc[q] # "idle" /\ result[q] # "encodeError"

\* A request that its handler is ahead of is in one place only.
Ahead(q) ==
  /\ HeldOnce(q)
  /\ q \in requests => ~HeldSomewhere(q)
  /\ q \in requests \/ HeldSomewhere(q) => runs[q] = 0 /\ Asked(q)

RunsOnce(q) ==
  /\ runs[q] <= 1
  /\ outcome[q] # "none" <=> runs[q] = 1
  /\ outcome[q] # "none" => Asked(q)

\* A callback that is to reply knows what the handler did with its request.
WorkerShape(w) ==
  /\ job[w] = {} \/ \E q \in Requests : job[w] = {q}
  /\ handled[w] # "none" =>
       /\ handled[w] # "panic"
       /\ \E q \in Requests : job[w] = {q} /\ outcome[q] = handled[w]

\* A reply tells what the handler did with the request of the inbox it goes to.
Honest(p) ==
  /\ p.to = p.of
  /\ p.status \in {"success", "absent"} => outcome[p.of] = "success"
  /\ p.status = "error" => outcome[p.of] = "error"

GotHonest(q) ==
  /\ \A p \in got[q] : p.to = q /\ p.status # "503" /\ Honest(p)
  /\ pc[q] = "decode" => got[q] # {}

ResultHonest(q) ==
  /\ result[q] = "ok" => outcome[q] = "success"
  /\ result[q] \in {"replyError", "zero"} => outcome[q] = "error"
  /\ pc[q] # "returned" => result[q] = "none"

Handling == \A q \in Requests : Ahead(q) /\ RunsOnce(q)
Replying == (\A w \in Workers : WorkerShape(w)) /\ (\A p \in replies : Honest(p))
Calling  == \A q \in Requests : GotHonest(q) /\ ResultHonest(q)

IInv == TypeOK /\ Handling /\ Replying /\ Calling

LEMMA IInvInit == Init => IInv
PROOF
<1> SUFFICES ASSUME Init PROVE IInv
  OBVIOUS
<1>1. TypeOK
  BY TypeInit
<1>2. ASSUME NEW w \in Workers, NEW i \in 0..Len(queue[w]), NEW q \in Requests
      PROVE  ~Held(w, i, q)
  <2>1. Len(queue[w]) = 0 /\ job[w] = {}
    BY EmptySeq DEF Init
  <2> QED
    BY <2>1 DEF Held
<1>3. Handling
  <2>1. \A q \in Requests : HeldOnce(q) /\ ~HeldSomewhere(q)
    BY <1>2 DEF HeldOnce, HeldSomewhere
  <2>2. \A q \in Requests : q \notin requests /\ runs[q] = 0 /\ outcome[q] = "none"
    BY DEF Init
  <2>3. ASSUME NEW q \in Requests PROVE Ahead(q)
    BY <2>1, <2>2 DEF Ahead
  <2>4. ASSUME NEW q \in Requests PROVE RunsOnce(q)
    BY <2>2 DEF RunsOnce
  <2> QED
    BY <2>3, <2>4 DEF Handling
<1>4. Replying /\ Calling
  BY DEF Init, Replying, WorkerShape, Calling, GotHonest, ResultHonest
<1> QED
  BY <1>1, <1>3, <1>4 DEF IInv

-----------------------------------------------------------------------------
(* What has happened stays *)

\* An outcome never changes and a request that was sent stays sent.
Kept == \A q \in Requests : /\ outcome[q] # "none" => outcome'[q] = outcome[q]
                            /\ Asked(q) => Asked(q)'

\* The handler runs only for a request it has not run for.
LEMMA RunFacts ==
  ASSUME IInv, NEW w \in Workers, NEW q \in Requests, RunHandler(w, q)
  PROVE  /\ Held(w, 0, q) /\ 0 \in 0..Len(queue[w])
         /\ runs[q] = 0 /\ outcome[q] = "none" /\ Asked(q) /\ q \notin requests
         /\ runs' = [runs EXCEPT ![q] = 1] /\ outcome'[q] # "none"
         /\ \A r \in Requests \ {q} : outcome'[r] = outcome[r] /\ runs'[r] = runs[r]
PROOF
<1>1. queue[w] \in Seq(Requests) /\ Len(queue[w]) \in Nat
  BY LenProperties DEF IInv, TypeOK
<1>2. Held(w, 0, q) /\ 0 \in 0..Len(queue[w])
  BY <1>1 DEF RunHandler, Held
<1>3. HeldSomewhere(q)
  BY <1>2 DEF HeldSomewhere
<1>4. runs[q] = 0 /\ Asked(q) /\ q \notin requests /\ outcome[q] = "none"
  BY <1>3 DEF IInv, Handling, Ahead, RunsOnce
<1>5. /\ runs' = [runs EXCEPT ![q] = @ + 1]
      /\ \E o \in Outcomes \ {"none"} : outcome' = [outcome EXCEPT ![q] = o]
      /\ runs \in [Requests -> Nat] /\ outcome \in [Requests -> Outcomes]
  BY DEF RunHandler, IInv, TypeOK
<1>6. runs' = [runs EXCEPT ![q] = 1]
  BY <1>4, <1>5
<1>7. /\ outcome'[q] # "none"
      /\ \A r \in Requests \ {q} : outcome'[r] = outcome[r]
  BY <1>5
<1>8. \A r \in Requests \ {q} : runs'[r] = runs[r]
  BY <1>5
<1> QED
  BY <1>2, <1>4, <1>6, <1>7, <1>8

LEMMA KeptNext == IInv /\ [Next]_vars => Kept
PROOF
<1> SUFFICES ASSUME IInv, [Next]_vars PROVE Kept
  OBVIOUS
<1> USE DEF callerVars, routeVars, workerVars, history, vars
<1>1. ASSUME UNCHANGED <<pc, result>>
      PROVE  \A q \in Requests : Asked(q) => Asked(q)'
  BY <1>1 DEF Asked
<1>2. ASSUME UNCHANGED <<pc, result, outcome>>
      PROVE  Kept
  BY <1>2 DEF Kept, Asked
<1>3. ASSUME NEW q \in Requests, CallerStep(q)
      PROVE  Kept
  <2>1. pc \in [Requests -> {"idle", "waiting", "classify", "decode", "returned"}]
        /\ result \in [Requests -> Results] /\ UNCHANGED outcome
    BY <1>3 DEF IInv, TypeOK, CallerStep, SendRequest, ContextDone, NatsError, TakeReply,
            Classify, Decode, Fail
  <2>2. \/ pc[q] = "idle"
        \/ /\ \E s \in {"classify", "decode", "returned"} : pc' = [pc EXCEPT ![q] = s]
           /\ \/ result' = result
              \/ \E r \in Results \ {"encodeError"} : result' = [result EXCEPT ![q] = r]
    BY <1>3 DEF CallerStep, SendRequest, ContextDone, NatsError, TakeReply,
            Classify, Decode, Fail, Return, Results
  <2>3. pc[q] = "idle" => \A r \in Requests \ {q} : pc'[r] = pc[r] /\ result'[r] = result[r]
    BY <1>3, <2>1 DEF CallerStep, SendRequest, ContextDone, NatsError, TakeReply,
            Classify, Decode, Fail, Return
  <2>4. ASSUME NEW r \in Requests, Asked(r)
        PROVE  Asked(r)'
    <3>1. CASE pc[q] = "idle"
      BY <2>3, <2>4, <3>1 DEF Asked
    <3>2. CASE pc[q] # "idle"
      <4>1. pc'[r] # "idle"
        BY <2>1, <2>2, <2>4, <3>2 DEF Asked
      <4>2. result'[r] # "encodeError"
        BY <2>1, <2>2, <2>4, <3>2 DEF Asked
      <4> QED
        BY <4>1, <4>2 DEF Asked
    <3> QED
      BY <3>1, <3>2
  <2> QED
    BY <2>1, <2>4 DEF Kept
<1>4. ASSUME NEW q \in Requests, DeadlinePasses(q) \/ CallerCancels(q) \/ RouteRequest(q)
      PROVE  Kept
  BY <1>2, <1>4 DEF DeadlinePasses, CallerCancels, RouteRequest
<1>5. ASSUME NEW w \in Workers, TakeRequest(w) \/ DrainEnds(w) \/ Drain(w)
      PROVE  Kept
  BY <1>2, <1>5 DEF TakeRequest, DrainEnds, Drain
<1>6. ASSUME NEW w \in Workers, NEW q \in Requests, SendReply(w, q)
      PROVE  Kept
  BY <1>2, <1>6 DEF SendReply
<1>7. ASSUME NEW w \in Workers, NEW q \in Requests, RunHandler(w, q)
      PROVE  Kept
  <2>1. UNCHANGED <<pc, result>>
    BY <1>7 DEF RunHandler
  <2> QED
    BY <1>1, <1>7, <2>1, RunFacts DEF Kept
<1>8. CASE Lose \/ UNCHANGED vars
  BY <1>2, <1>8 DEF Lose
<1> QED
  BY <1>3, <1>4, <1>5, <1>6, <1>7, <1>8 DEF Next, WorkerStep, Finished

-----------------------------------------------------------------------------
(* A request waits in one place until its handler runs *)

LEMMA QueueFacts ==
  ASSUME TypeOK, NEW w \in Workers
  PROVE  /\ queue[w] \in Seq(Requests) /\ Len(queue[w]) \in Nat
         /\ 0 \in 0..Len(queue[w])
PROOF
  BY LenProperties DEF TypeOK

\* What is in a place after the step was k[w] places behind it.
Shifted(k, q) ==
  \A w \in Workers : \A i \in 0..Len(queue'[w]) :
    Held(w, i, q)' => i + k[w] \in 0..Len(queue[w]) /\ Held(w, i + k[w], q)

\* A shift keeps a request in one place.
LEMMA ShiftAhead ==
  ASSUME TypeOK, TypeOK', NEW k \in [Workers -> {0, 1}], NEW q \in Requests,
         Shifted(k, q), Ahead(q), q \in requests' => q \in requests,
         runs'[q] = runs[q], Asked(q) => Asked(q)'
  PROVE  Ahead(q)'
PROOF
<1>1. ASSUME NEW v \in Workers, NEW w \in Workers,
             NEW i \in 0..Len(queue'[v]), NEW j \in 0..Len(queue'[w]),
             Held(v, i, q)', Held(w, j, q)'
      PROVE  v = w /\ i = j
  <2>1. /\ i + k[v] \in 0..Len(queue[v]) /\ Held(v, i + k[v], q)
        /\ j + k[w] \in 0..Len(queue[w]) /\ Held(w, j + k[w], q)
    BY <1>1 DEF Shifted
  <2>2. v = w /\ i + k[v] = j + k[w]
    BY <2>1 DEF Ahead, HeldOnce
  <2>3. i \in Int /\ j \in Int /\ k[v] \in Int
    BY QueueFacts
  <2> QED
    BY <2>2, <2>3
<1>2. HeldOnce(q)'
  BY <1>1 DEF HeldOnce
<1>3. HeldSomewhere(q)' => HeldSomewhere(q)
  <2>1. ASSUME NEW w \in Workers, NEW i \in 0..Len(queue'[w]), Held(w, i, q)'
        PROVE  HeldSomewhere(q)
    BY <2>1 DEF Shifted, HeldSomewhere
  <2> QED
    BY <2>1 DEF HeldSomewhere
<1> QED
  BY <1>2, <1>3 DEF Ahead

\* Whoever leaves the buffers alone and hands no request to a callback.
LEMMA StillAhead ==
  ASSUME IInv, TypeOK', Kept, UNCHANGED <<queue, runs>>,
         \A w \in Workers, q \in Requests : Held(w, 0, q)' => Held(w, 0, q),
         requests' \subseteq requests
  PROVE  \A q \in Requests : Ahead(q)'
PROOF
<1> TAKE q \in Requests
<1> DEFINE k == [w \in Workers |-> 0]
<1>1. ASSUME NEW w \in Workers, NEW i \in 0..Len(queue'[w]), Held(w, i, q)'
      PROVE  i + k[w] \in 0..Len(queue[w]) /\ Held(w, i + k[w], q)
  <2>1. i + k[w] = i /\ i \in 0..Len(queue[w])
    BY QueueFacts DEF IInv
  <2>2. Held(w, i, q)
    BY <1>1 DEF Held
  <2> QED
    BY <2>1, <2>2
<1>2. Shifted(k, q)
  BY <1>1 DEF Shifted
<1>3. k \in [Workers -> {0, 1}]
  OBVIOUS
<1> HIDE DEF k
<1> QED
  BY <1>2, <1>3, ShiftAhead DEF IInv, Handling, Kept

LEMMA TakeAhead ==
  ASSUME IInv, TypeOK', Kept, NEW w \in Workers, TakeRequest(w)
  PROVE  \A q \in Requests : Ahead(q)'
PROOF
<1> USE DEF callerVars, routeVars, history
<1> TAKE q \in Requests
<1> DEFINE k == [v \in Workers |-> IF v = w THEN 1 ELSE 0]
<1>1. /\ queue[w] # <<>> /\ queue[w] \in Seq(Requests)
      /\ queue'[w] = Tail(queue[w]) /\ job'[w] = {Head(queue[w])}
      /\ \A v \in Workers \ {w} : queue'[v] = queue[v] /\ job'[v] = job[v]
      /\ UNCHANGED <<handled, runs, requests>>
  BY DEF TakeRequest, IInv, TypeOK
<1>2. /\ Len(queue'[w]) = Len(queue[w]) - 1 /\ Len(queue[w]) \in Nat
      /\ \A j \in 1..Len(queue'[w]) : queue'[w][j] = queue[w][j + 1]
      /\ job'[w] = {queue[w][1]}
  BY <1>1, HeadTailProperties, QueueFacts DEF IInv
<1>3. ASSUME NEW v \in Workers, NEW i \in 0..Len(queue'[v]), Held(v, i, q)'
      PROVE  i + k[v] \in 0..Len(queue[v]) /\ Held(v, i + k[v], q)
  <2>1. CASE v = w
    <3>1. i \in Int /\ k[v] = 1 /\ i + 1 \in 1..Len(queue[w])
      BY <1>2, <2>1
    <3>2. queue[w][i + 1] = q
      <4>1. CASE i = 0
        <5>1. {queue[w][1]} = {q}
          BY <1>2, <1>3, <2>1, <4>1 DEF Held
        <5> QED
          BY <4>1, <5>1
      <4>2. CASE i # 0
        BY <1>2, <1>3, <2>1, <4>2 DEF Held
      <4> QED
        BY <4>1, <4>2
    <3> QED
      BY <2>1, <3>1, <3>2 DEF Held
  <2>2. CASE v # w
    <3>1. k[v] = 0 /\ i + k[v] = i /\ i \in 0..Len(queue[v])
      BY <1>1, <2>2, QueueFacts DEF IInv
    <3>2. Held(v, i, q)
      BY <1>1, <1>3, <2>2 DEF Held
    <3> QED
      BY <3>1, <3>2
  <2> QED
    BY <2>1, <2>2
<1>4. Shifted(k, q)
  BY <1>3 DEF Shifted
<1>5. k \in [Workers -> {0, 1}]
  OBVIOUS
<1> HIDE DEF k
<1> QED
  BY <1>1, <1>4, <1>5, ShiftAhead DEF IInv, Handling, Kept

\* The server hands a request that is nowhere else to one worker.
LEMMA RouteAhead ==
  ASSUME IInv, TypeOK', Kept, NEW r \in Requests, RouteRequest(r)
  PROVE  \A q \in Requests : Ahead(q)'
PROOF
<1> USE DEF callerVars, routeVars, history
<1>0. r \in requests /\ requests' = requests \ {r} /\ UNCHANGED <<job, handled, runs, pc, result>>
  BY DEF RouteRequest
<1>1. CASE UNCHANGED queue
  <2>1. \A w \in Workers, q \in Requests : Held(w, 0, q)' => Held(w, 0, q)
    BY <1>0 DEF Held
  <2> QED
    BY <1>0, <1>1, <2>1, StillAhead
<1>2. ASSUME NEW w \in Workers,
             queue' = [v \in Workers |-> IF v \in {w} THEN Append(queue[v], r) ELSE queue[v]],
             NEW q \in Requests
      PROVE  Ahead(q)'
  <2>1. /\ Len(queue'[w]) = Len(queue[w]) + 1 /\ Len(queue[w]) \in Nat
        /\ \A j \in 1..Len(queue[w]) : queue'[w][j] = queue[w][j]
        /\ queue'[w][Len(queue[w]) + 1] = r
        /\ \A v \in Workers \ {w} : queue'[v] = queue[v]
    <3>1. queue'[w] = Append(queue[w], r) /\ queue[w] \in Seq(Requests)
          /\ \A v \in Workers \ {w} : queue'[v] = queue[v]
      BY <1>2, QueueFacts DEF IInv
    <3> QED
      BY <3>1, AppendProperties, QueueFacts DEF IInv
  <2>2. ASSUME NEW v \in Workers, NEW i \in 0..Len(queue'[v]), Held(v, i, q)'
        PROVE  \/ i \in 0..Len(queue[v]) /\ Held(v, i, q)
               \/ v = w /\ i = Len(queue[w]) + 1 /\ q = r
    <3>1. CASE v = w
      <4>1. i \in Int /\ (i \in 0..Len(queue[w]) \/ i = Len(queue[w]) + 1)
        BY <2>1, <3>1
      <4> QED
        BY <1>0, <2>1, <2>2, <3>1, <4>1 DEF Held
    <3>2. CASE v # w
      BY <1>0, <2>1, <2>2, <3>2 DEF Held
    <3> QED
      BY <3>1, <3>2
  <2>3. CASE q # r
    <3> DEFINE k == [v \in Workers |-> 0]
    <3>1. ASSUME NEW v \in Workers, NEW i \in 0..Len(queue'[v]), Held(v, i, q)'
          PROVE  i + k[v] \in 0..Len(queue[v]) /\ Held(v, i + k[v], q)
      <4>1. i \in 0..Len(queue[v]) /\ Held(v, i, q)
        BY <2>2, <2>3, <3>1
      <4>2. i + k[v] = i
        BY <4>1, QueueFacts DEF IInv
      <4> QED
        BY <4>1, <4>2
    <3>2. Shifted(k, q)
      BY <3>1 DEF Shifted
    <3>3. k \in [Workers -> {0, 1}]
      OBVIOUS
    <3> HIDE DEF k
    <3> QED
      BY <1>0, <3>2, <3>3, ShiftAhead DEF IInv, Handling, Kept
  <2>4. CASE q = r
    <3>1. ~HeldSomewhere(q) /\ runs[q] = 0 /\ Asked(q)
      BY <1>0, <2>4 DEF IInv, Handling, Ahead
    <3>2. ASSUME NEW v \in Workers, NEW i \in 0..Len(queue'[v]), Held(v, i, q)'
          PROVE  v = w /\ i = Len(queue[w]) + 1
      BY <2>2, <3>1, <3>2 DEF HeldSomewhere
    <3>3. HeldOnce(q)'
      BY <3>2 DEF HeldOnce
    <3>4. q \notin requests' /\ runs'[q] = 0 /\ Asked(q)'
      BY <1>0, <2>4, <3>1 DEF Asked
    <3> QED
      BY <3>3, <3>4 DEF Ahead
  <2> QED
    BY <2>3, <2>4
<1>3. \/ UNCHANGED queue
      \/ \E w \in Workers : queue' = [v \in Workers |-> IF v \in {w} THEN Append(queue[v], r)
                                                                      ELSE queue[v]]
  BY DEF RouteRequest, Recipients, Open
<1> QED
  BY <1>1, <1>2, <1>3

\* A request is sent once, before anything else has happened to it.
LEMMA SendAhead ==
  ASSUME IInv, TypeOK', Kept, NEW r \in Requests, SendRequest(r)
  PROVE  \A q \in Requests : Ahead(q)'
PROOF
<1> USE DEF workerVars, routeVars, history
<1>1. UNCHANGED <<queue, job, handled, runs>>
  BY DEF SendRequest
<1>2. \A w \in Workers, q \in Requests : Held(w, 0, q)' => Held(w, 0, q)
  BY <1>1 DEF Held
<1>3. CASE requests' \subseteq requests
  BY <1>1, <1>2, <1>3, StillAhead
<1>4. CASE /\ requests' = requests \union {r} /\ UNCHANGED result
           /\ pc[r] = "idle" /\ pc' = [pc EXCEPT ![r] = "waiting"]
  <2>1. ~Asked(r) /\ Asked(r)'
    <3>1. pc \in [Requests -> {"idle", "waiting", "classify", "decode", "returned"}]
          /\ result[r] = "none"
      BY <1>4 DEF IInv, TypeOK, Calling, ResultHonest
    <3> QED
      BY <1>4, <3>1 DEF Asked
  <2>2. ~HeldSomewhere(r) /\ runs[r] = 0
    <3>1. Ahead(r) /\ RunsOnce(r) /\ runs[r] \in Nat
      BY DEF IInv, Handling, TypeOK
    <3> QED
      BY <2>1, <3>1 DEF Ahead, RunsOnce
  <2>3. ASSUME NEW q \in Requests
        PROVE  Ahead(q)'
    <3>1. Ahead(q) /\ (HeldOnce(q)' <=> HeldOnce(q)) /\ (HeldSomewhere(q)' <=> HeldSomewhere(q))
      BY <1>1 DEF IInv, Handling, HeldOnce, HeldSomewhere, Held
    <3>2. CASE q = r
      BY <1>1, <2>1, <2>2, <3>1, <3>2 DEF Ahead
    <3>3. CASE q # r
      <4>1. q \in requests' <=> q \in requests
        BY <1>4, <3>3
      <4>2. Asked(q) => Asked(q)'
        BY DEF Kept
      <4> QED
        BY <1>1, <3>1, <4>1, <4>2 DEF Ahead
    <3> QED
      BY <3>2, <3>3
  <2> QED
    BY <2>3
<1> QED
  BY <1>3, <1>4 DEF SendRequest

\* A request whose handler runs is in no place any more.
LEMMA RunAhead ==
  ASSUME IInv, TypeOK', Kept, NEW w \in Workers, NEW r \in Requests, RunHandler(w, r)
  PROVE  \A q \in Requests : Ahead(q)'
PROOF
<1> USE DEF callerVars, routeVars, history
<1>1. /\ Held(w, 0, r) /\ 0 \in 0..Len(queue[w]) /\ r \notin requests
      /\ \A q \in Requests \ {r} : runs'[q] = runs[q]
  BY RunFacts
<1>2. UNCHANGED <<queue, requests, pc, result>>
  BY DEF RunHandler
<1>3. /\ \A v \in Workers \ {w} : job'[v] = job[v] /\ handled'[v] = handled[v]
      /\ job'[w] = {} \/ handled'[w] # "none"
  <2>1. job \in [Workers -> SUBSET Requests] /\ handled \in [Workers -> Outcomes]
    BY DEF IInv, TypeOK
  <2> QED
    BY <2>1 DEF RunHandler
<1>4. ASSUME NEW v \in Workers, NEW q \in Requests, Held(v, 0, q)'
      PROVE  v # w /\ Held(v, 0, q)
  <2>1. job'[v] = {q} /\ handled'[v] = "none"
    BY <1>4 DEF Held
  <2>2. v # w
    BY <1>3, <2>1
  <2> QED
    BY <1>3, <2>1, <2>2 DEF Held
<1>5. ASSUME NEW v \in Workers, NEW i \in 0..Len(queue'[v]), NEW q \in Requests, Held(v, i, q)'
      PROVE  i \in 0..Len(queue[v]) /\ Held(v, i, q) /\ ~(v = w /\ i = 0)
  <2>1. i \in 0..Len(queue[v])
    BY <1>2
  <2>2. CASE i = 0
    BY <1>4, <1>5, <2>1, <2>2
  <2>3. CASE i # 0
    BY <1>2, <1>5, <2>1, <2>3 DEF Held
  <2> QED
    BY <2>2, <2>3
<1>6. Ahead(r)'
  <2>1. ~HeldSomewhere(r)'
    <3>1. ASSUME NEW v \in Workers, NEW i \in 0..Len(queue'[v]), Held(v, i, r)'
          PROVE  FALSE
      <4>1. i \in 0..Len(queue[v]) /\ Held(v, i, r) /\ ~(v = w /\ i = 0)
        BY <1>5, <3>1
      <4>2. HeldOnce(r)
        BY DEF IInv, Handling, Ahead
      <4> QED
        BY <1>1, <4>1, <4>2 DEF HeldOnce
    <3> QED
      BY <3>1 DEF HeldSomewhere
  <2>2. HeldOnce(r)'
    BY <2>1 DEF HeldOnce, HeldSomewhere
  <2> QED
    BY <1>1, <1>2, <2>1, <2>2 DEF Ahead
<1>7. ASSUME NEW q \in Requests \ {r}
      PROVE  Ahead(q)'
  <2> DEFINE k == [v \in Workers |-> 0]
  <2>1. ASSUME NEW v \in Workers, NEW i \in 0..Len(queue'[v]), Held(v, i, q)'
        PROVE  i + k[v] \in 0..Len(queue[v]) /\ Held(v, i + k[v], q)
    <3>1. i \in 0..Len(queue[v]) /\ Held(v, i, q)
      BY <1>5, <2>1
    <3>2. i + k[v] = i
      BY <3>1, QueueFacts DEF IInv
    <3> QED
      BY <3>1, <3>2
  <2>2. Shifted(k, q)
    BY <2>1 DEF Shifted
  <2>3. k \in [Workers -> {0, 1}]
    OBVIOUS
  <2>4. Ahead(q) /\ (Asked(q) => Asked(q)') /\ TypeOK
    BY DEF IInv, Handling, Kept
  <2> HIDE DEF k
  <2> QED
    BY <1>1, <1>2, <2>2, <2>3, <2>4, ShiftAhead
<1> QED
  BY <1>6, <1>7

LEMMA AheadNext ==
  IInv /\ TypeOK' /\ Kept /\ [Next]_vars => \A q \in Requests : Ahead(q)'
PROOF
<1> SUFFICES ASSUME IInv, TypeOK', Kept, [Next]_vars
             PROVE  \A q \in Requests : Ahead(q)'
  OBVIOUS
<1> USE DEF callerVars, routeVars, workerVars, history, vars
<1>1. ASSUME UNCHANGED <<queue, job, handled, runs>>, requests' \subseteq requests
      PROVE  \A q \in Requests : Ahead(q)'
  <2>1. \A w \in Workers, q \in Requests : Held(w, 0, q)' => Held(w, 0, q)
    BY <1>1 DEF Held
  <2> QED
    BY <1>1, <2>1, StillAhead
<1>2. ASSUME NEW q \in Requests, CallerStep(q) \/ DeadlinePasses(q) \/ CallerCancels(q)
      PROVE  \A r \in Requests : Ahead(r)'
  <2>1. CASE ~SendRequest(q)
    BY <1>1, <1>2, <2>1 DEF CallerStep, ContextDone, NatsError, TakeReply,
       Classify, Decode, Fail, DeadlinePasses, CallerCancels
  <2> QED
    BY <2>1, SendAhead
<1>3. ASSUME NEW w \in Workers, NEW q \in Requests, SendReply(w, q)
      PROVE  \A r \in Requests : Ahead(r)'
  <2>1. /\ UNCHANGED <<queue, runs, requests>>
        /\ job' = [job EXCEPT ![w] = {}] /\ job \in [Workers -> SUBSET Requests]
        /\ handled' = [handled EXCEPT ![w] = "none"] /\ handled \in [Workers -> Outcomes]
    BY <1>3 DEF SendReply, IInv, TypeOK
  <2>2. \A v \in Workers, r \in Requests : Held(v, 0, r)' => Held(v, 0, r)
    BY <2>1 DEF Held
  <2> QED
    BY <2>1, <2>2, StillAhead
<1>4. ASSUME NEW w \in Workers, Drain(w) \/ DrainEnds(w)
      PROVE  \A r \in Requests : Ahead(r)'
  BY <1>1, <1>4 DEF Drain, DrainEnds
<1>5. CASE Lose \/ UNCHANGED vars
  BY <1>1, <1>5 DEF Lose
<1> QED
  BY <1>2, <1>3, <1>4, <1>5, TakeAhead, RouteAhead, RunAhead
     DEF Next, WorkerStep, Finished

LEMMA RunsNext ==
  IInv /\ Kept /\ [Next]_vars => \A q \in Requests : RunsOnce(q)'
PROOF
<1> SUFFICES ASSUME IInv, Kept, [Next]_vars, NEW q \in Requests
             PROVE  RunsOnce(q)'
  OBVIOUS
<1> USE DEF callerVars, routeVars, workerVars, history, vars
<1>0. RunsOnce(q) /\ (Asked(q) => Asked(q)')
  BY DEF IInv, Handling, Kept
<1>1. CASE runs'[q] = runs[q] /\ outcome'[q] = outcome[q]
  BY <1>0, <1>1 DEF RunsOnce
<1>2. CASE UNCHANGED <<runs, outcome>>
  BY <1>1, <1>2
<1>3. ASSUME NEW w \in Workers, NEW r \in Requests, RunHandler(w, r)
      PROVE  RunsOnce(q)'
  <2>1. CASE q # r
    BY <1>1, <1>3, <2>1, RunFacts
  <2>2. CASE q = r
    <3>1. runs'[q] = 1 /\ outcome'[q] # "none" /\ Asked(q)
      BY <1>3, <2>2, RunFacts DEF IInv, TypeOK
    <3> QED
      BY <1>0, <3>1 DEF RunsOnce
  <2> QED
    BY <2>1, <2>2
<1> QED
  BY <1>2, <1>3 DEF Next, CallerStep, SendRequest, ContextDone, NatsError, TakeReply,
     Classify, Decode, Fail, DeadlinePasses, CallerCancels, RouteRequest, Lose,
     WorkerStep, TakeRequest, DrainEnds, SendReply, Drain, Finished

-----------------------------------------------------------------------------
(* What the caller is told agrees with what the handler did *)

LEMMA HonestKept ==
  ASSUME Kept, NEW p, p.of \in Requests, Honest(p)
  PROVE  Honest(p)'
PROOF
  BY DEF Kept, Honest

LEMMA WorkerShapeNext ==
  IInv /\ Kept /\ [Next]_vars => \A w \in Workers : WorkerShape(w)'
PROOF
<1> SUFFICES ASSUME IInv, Kept, [Next]_vars, NEW w \in Workers
             PROVE  WorkerShape(w)'
  OBVIOUS
<1> USE DEF callerVars, routeVars, workerVars, history, vars
<1>0. /\ WorkerShape(w) /\ job \in [Workers -> SUBSET Requests]
      /\ handled \in [Workers -> Outcomes] /\ outcome \in [Requests -> Outcomes]
  BY DEF IInv, TypeOK, Replying
<1>1. CASE job'[w] = job[w] /\ handled'[w] = handled[w]
  BY <1>0, <1>1 DEF WorkerShape, Kept
<1>2. CASE UNCHANGED <<job, handled>>
  BY <1>1, <1>2
<1>3. ASSUME NEW v \in Workers, TakeRequest(v)
      PROVE  WorkerShape(w)'
  <2>1. CASE v = w
    <3>1. /\ job[w] = {} /\ handled'[w] = handled[w] /\ job'[w] = {Head(queue[w])}
          /\ queue[w] # <<>> /\ queue[w] \in Seq(Requests)
      BY <1>0, <1>3, <2>1 DEF TakeRequest, IInv, TypeOK
    <3>2. Head(queue[w]) \in Requests
      BY <3>1, HeadTailProperties
    <3>3. handled[w] = "none"
      BY <1>0, <3>1 DEF WorkerShape
    <3> QED
      BY <3>1, <3>2, <3>3 DEF WorkerShape
  <2>2. CASE v # w
    BY <1>0, <1>1, <1>3, <2>2 DEF TakeRequest
  <2> QED
    BY <2>1, <2>2
<1>4. ASSUME NEW v \in Workers, NEW q \in Requests, RunHandler(v, q)
      PROVE  WorkerShape(w)'
  <2>1. CASE v = w
    <3>1. PICK o \in Outcomes \ {"none"} :
            /\ outcome' = [outcome EXCEPT ![q] = o]
            /\ IF o = "panic" THEN job' = [job EXCEPT ![w] = {}] /\ UNCHANGED handled
               ELSE handled' = [handled EXCEPT ![w] = o] /\ UNCHANGED job
      BY <1>4, <2>1 DEF RunHandler
    <3>2. job[w] = {q} /\ handled[w] = "none" /\ outcome'[q] = o
      BY <1>0, <1>4, <2>1, <3>1 DEF RunHandler
    <3>3. CASE o = "panic"
      <4>1. job'[w] = {} /\ handled'[w] = "none"
        BY <1>0, <3>1, <3>2, <3>3
      <4> QED
        BY <4>1 DEF WorkerShape
    <3>4. CASE o # "panic"
      <4>1. job'[w] = {q} /\ handled'[w] = o
        BY <1>0, <3>1, <3>2, <3>4
      <4> QED
        BY <3>2, <3>4, <4>1 DEF WorkerShape
    <3> QED
      BY <3>3, <3>4
  <2>2. CASE v # w
    BY <1>0, <1>1, <1>4, <2>2 DEF RunHandler
  <2> QED
    BY <2>1, <2>2
<1>5. ASSUME NEW v \in Workers, NEW q \in Requests, SendReply(v, q)
      PROVE  WorkerShape(w)'
  <2>1. CASE v = w
    <3>1. job'[w] = {} /\ handled'[w] = "none"
      BY <1>0, <1>5, <2>1 DEF SendReply
    <3> QED
      BY <3>1 DEF WorkerShape
  <2>2. CASE v # w
    BY <1>0, <1>1, <1>5, <2>2 DEF SendReply
  <2> QED
    BY <2>1, <2>2
<1> QED
  BY <1>2, <1>3, <1>4, <1>5 DEF Next, CallerStep, SendRequest, ContextDone, NatsError,
     TakeReply, Classify, Decode, Fail, DeadlinePasses, CallerCancels, RouteRequest, Lose,
     WorkerStep, DrainEnds, Drain, Finished

\* The reply a route builds.
LEMMA StatusHonest ==
  /\ ReplyStatuses("error") \subseteq {"none", "error"}
  /\ ReplyStatuses("success") \subseteq {"none", "success", "absent"}
PROOF
  BY DEF ReplyStatuses, defaultReply, WrapReply, JSON

LEMMA RepliesNext ==
  IInv /\ Kept /\ [Next]_vars => \A p \in replies' : Honest(p)'
PROOF
<1> SUFFICES ASSUME IInv, Kept, [Next]_vars, NEW p \in replies'
             PROVE  Honest(p)'
  OBVIOUS
<1> USE DEF callerVars, routeVars, workerVars, history, vars
<1>1. CASE p \in replies
  <2>1. p.of \in Requests /\ Honest(p)
    BY <1>1 DEF IInv, TypeOK, Replies, Replying
  <2> QED
    BY <2>1, HonestKept
<1>2. ASSUME NEW q \in Requests, RouteRequest(q), p = NoResponder(q)
      PROVE  Honest(p)'
  BY <1>2 DEF NoResponder, Honest
<1>3. ASSUME NEW w \in Workers, NEW q \in Requests, SendReply(w, q),
             NEW s \in ReplyStatuses(handled[w]), s # "none",
             p = [to |-> q, of |-> q, status |-> s]
      PROVE  Honest(p)'
  <2>1. job[w] = {q} /\ handled[w] # "none" /\ WorkerShape(w) /\ outcome' = outcome
        /\ handled[w] \in Outcomes
    BY <1>3 DEF SendReply, IInv, TypeOK, Replying
  <2>2. outcome[q] = handled[w] /\ handled[w] \in {"success", "error"}
    <3>1. /\ handled[w] \in {"success", "error"}
          /\ \E r \in Requests : job[w] = {r} /\ outcome[r] = handled[w]
      BY <2>1 DEF WorkerShape, Outcomes
    <3>2. PICK r \in Requests : job[w] = {r} /\ outcome[r] = handled[w]
      BY <3>1
    <3>3. r = q
      BY <2>1, <3>2
    <3> QED
      BY <3>1, <3>2, <3>3
  <2>3. p.to = q /\ p.of = q /\ p.status = s
    BY <1>3
  <2>4. s = "error" <=> outcome[q] = "error"
    BY <1>3, <2>2, StatusHonest
  <2> QED
    BY <2>1, <2>2, <2>3, <2>4 DEF Honest
<1>4. ASSUME p \notin replies
      PROVE  \/ \E q \in Requests : RouteRequest(q) /\ p = NoResponder(q)
             \/ \E w \in Workers, q \in Requests :
                  SendReply(w, q) /\ \E s \in ReplyStatuses(handled[w]) :
                                       s # "none" /\ p = [to |-> q, of |-> q, status |-> s]
  <2>1. ASSUME NEW q \in Requests, RouteRequest(q)
        PROVE  p = NoResponder(q)
    BY <1>4, <2>1 DEF RouteRequest
  <2>2. ASSUME NEW w \in Workers, NEW q \in Requests, SendReply(w, q)
        PROVE  \E s \in ReplyStatuses(handled[w]) :
                 s # "none" /\ p = [to |-> q, of |-> q, status |-> s]
    BY <1>4, <2>2 DEF SendReply
  <2>3. \/ \E q \in Requests : RouteRequest(q)
        \/ \E w \in Workers, q \in Requests : SendReply(w, q)
    BY <1>4 DEF Next, CallerStep, SendRequest, ContextDone, NatsError,
       TakeReply, Classify, Decode, Fail, DeadlinePasses, CallerCancels, Lose,
       WorkerStep, TakeRequest, RunHandler, DrainEnds, Drain, Finished
  <2> QED
    BY <2>1, <2>2, <2>3
<1> QED
  BY <1>1, <1>2, <1>3, <1>4

\* A reply is taken for what the contract allows it to be taken for.
LEMMA DecodeAnswers ==
  ASSUME IInv, NEW q \in Requests, Decode(q)
  PROVE  \E r \in Contract!Answers(outcome[q]) : Return(q, r)
PROOF
<1>0. GotHonest(q) /\ pc[q] = "decode" /\ got[q] \subseteq Replies
  BY DEF IInv, TypeOK, Calling, Decode
<1>1. PICK p \in got[q] : TRUE
  BY <1>0 DEF GotHonest
<1>2. \A x \in got[q] : /\ x.to = q /\ x.of = q
                        /\ x.status \in {"absent", "success", "error"} /\ Honest(x)
  BY <1>0 DEF GotHonest, Honest, Replies
<1>3. CASE \E x \in got[q] : x.status = "error"
  <2>1. outcome[q] = "error"
    BY <1>2, <1>3 DEF Honest
  <2> QED
    BY <1>3, <2>1 DEF Decode, Contract!Answers
<1>4. CASE ~\E x \in got[q] : x.status = "error"
  <2>1. outcome[q] = "success"
    BY <1>1, <1>2, <1>4 DEF Honest
  <2> QED
    BY <1>4, <2>1 DEF Decode, Contract!Answers
<1> QED
  BY <1>3, <1>4

LEMMA CallingNext == IInv /\ Kept /\ [Next]_vars => Calling'
PROOF
<1> SUFFICES ASSUME IInv, Kept, [Next]_vars, NEW q \in Requests
             PROVE  GotHonest(q)' /\ ResultHonest(q)'
  BY DEF Calling
<1> USE DEF callerVars, routeVars, workerVars, history, vars
<1>0. /\ GotHonest(q) /\ ResultHonest(q)
      /\ pc \in [Requests -> {"idle", "waiting", "classify", "decode", "returned"}]
      /\ got \in [Requests -> SUBSET Replies] /\ result \in [Requests -> Results]
  BY DEF IInv, TypeOK, Calling
<1>a. \A p \in got[q] : Honest(p) => Honest(p)'
  BY <1>0, HonestKept DEF Replies
<1>1. CASE pc'[q] = pc[q] /\ got'[q] = got[q] /\ result'[q] = result[q]
  <2>1. GotHonest(q)'
    BY <1>0, <1>a, <1>1 DEF GotHonest
  <2> QED
    BY <1>0, <1>1, <2>1 DEF ResultHonest, Kept
<1>2. CASE UNCHANGED <<pc, got, result>>
  BY <1>1, <1>2
<1>3. ASSUME NEW r \in Requests, CallerStep(r), r # q
      PROVE  pc'[q] = pc[q] /\ got'[q] = got[q] /\ result'[q] = result[q]
  BY <1>0, <1>3 DEF CallerStep, SendRequest, ContextDone, NatsError, TakeReply, Classify,
     Decode, Fail, Return
<1>4. ASSUME CallerStep(q)
      PROVE  GotHonest(q)' /\ ResultHonest(q)'
  <2>0. UNCHANGED outcome
    BY <1>4 DEF CallerStep, SendRequest, ContextDone, NatsError, TakeReply, Classify,
       Decode, Fail
  <2>1. CASE SendRequest(q) \/ ContextDone(q) \/ NatsError(q) \/ Classify(q)
    <3>1. /\ got' = got /\ pc'[q] # "decode"
          /\ \/ result'[q] = result[q] /\ pc[q] # "returned"
             \/ /\ result'[q] \in {"encodeError", "timeout", "transportError"}
                /\ pc'[q] = "returned"
      BY <1>0, <2>1 DEF SendRequest, ContextDone, NatsError, Classify, Fail, Return
    <3>2. GotHonest(q)'
      BY <1>0, <1>a, <3>1 DEF GotHonest
    <3>3. ResultHonest(q)'
      BY <1>0, <3>1 DEF ResultHonest
    <3> QED
      BY <3>2, <3>3
  <2>2. CASE TakeReply(q)
    <3>1. PICK p \in replies : /\ p.to = q /\ p.status # "503"
                               /\ got' = [got EXCEPT ![q] = {p}]
      BY <2>2 DEF TakeReply
    <3>2. Honest(p) /\ p.of \in Requests
      BY DEF IInv, TypeOK, Replies, Replying
    <3>3. Honest(p)'
      BY <3>2, HonestKept
    <3>4. got'[q] = {p}
      BY <1>0, <3>1
    <3>5. pc'[q] = "decode" /\ result'[q] = result[q] /\ pc[q] # "returned"
      BY <1>0, <2>2 DEF TakeReply
    <3>6. GotHonest(q)'
      BY <3>1, <3>3, <3>4 DEF GotHonest
    <3>7. ResultHonest(q)'
      BY <1>0, <3>5 DEF ResultHonest
    <3> QED
      BY <3>6, <3>7
  <2>3. CASE Decode(q)
    <3>1. PICK r \in Contract!Answers(outcome[q]) : Return(q, r)
      BY <2>3, DecodeAnswers
    <3>2. pc'[q] = "returned" /\ got' = got /\ result'[q] = r
      BY <1>0, <2>3, <3>1 DEF Decode, Return
    <3>3. GotHonest(q)'
      BY <1>0, <1>a, <3>2 DEF GotHonest
    <3>4. ResultHonest(q)'
      BY <2>0, <3>1, <3>2 DEF ResultHonest, Contract!Answers
    <3> QED
      BY <3>3, <3>4
  <2> QED
    BY <1>4, <2>1, <2>2, <2>3 DEF CallerStep
<1> QED
  BY <1>1, <1>2, <1>3, <1>4 DEF Next, DeadlinePasses, CallerCancels, RouteRequest, Lose,
     WorkerStep, TakeRequest, RunHandler, SendReply, DrainEnds, Drain, Finished

-----------------------------------------------------------------------------
(* The theorems *)

LEMMA IInvNext == IInv /\ [Next]_vars => IInv'
PROOF
<1> SUFFICES ASSUME IInv, [Next]_vars PROVE IInv'
  OBVIOUS
<1>1. TypeOK' /\ Kept
  BY TypeNext, KeptNext DEF IInv
<1>2. Handling'
  BY <1>1, AheadNext, RunsNext DEF Handling
<1>3. Replying'
  BY <1>1, WorkerShapeNext, RepliesNext DEF Replying
<1> QED
  BY <1>1, <1>2, <1>3, CallingNext DEF IInv

\* The inductive invariant holds: a request that no handler has run for is in one place,
\* and a reply, the call that was given it and its result agree with what the handler did
\* (consumer/consumer.go:93-149, typed/requester.go).
THEOREM Invariant == Spec => []IInv
PROOF
  BY IInvInit, IInvNext, PTL DEF Spec

\* The workers of the route share the requests out: no handler runs twice for one.
THEOREM HandledOnce == Spec => []HandledAtMostOnce
PROOF
<1>1. IInv => HandledAtMostOnce
  BY DEF IInv, Handling, RunsOnce, HandledAtMostOnce
<1> QED
  BY <1>1, Invariant, PTL

\* Request returns a result only if the handler succeeded for this very request.
THEOREM SuccessIsReal == Spec => []NoFalseSuccess
PROOF
<1>1. IInv => NoFalseSuccess
  BY DEF IInv, Calling, ResultHonest, NoFalseSuccess
<1> QED
  BY <1>1, Invariant, PTL

\* On a route that replies with reply.JSON, or without a ReplyFunc, what reaches the
\* ErrorDecoder is the error of the handler that had this request.
THEOREM ErrorIsReal == Spec => []ReplyErrorIsHandlerError
PROOF
<1>1. IInv => ReplyErrorIsHandlerError
  BY DEF IInv, Calling, ResultHonest, ReplyErrorIsHandlerError
<1> QED
  BY <1>1, Invariant, PTL

-----------------------------------------------------------------------------
(* The contract of a call *)

LEMMA ContractInit == Init => Contract!Init
PROOF
  BY DEF Init, Contract!Init

\* A caller's steps are the contract's Refuse, Ask and End, or are not seen by it.
LEMMA ContractCaller ==
  ASSUME IInv, NEW q \in Requests, CallerStep(q)
  PROVE  [Contract!Next]_(Contract!vars)
PROOF
<1> USE DEF callerVars, routeVars, workerVars, history, vars
<1>0. /\ UNCHANGED outcome
      /\ pc \in [Requests -> {"idle", "waiting", "classify", "decode", "returned"}]
  BY DEF IInv, TypeOK, CallerStep, SendRequest, ContextDone, NatsError, TakeReply,
     Classify, Decode, Fail
<1> DEFINE phase == [x \in Requests |-> IF pc[x] \in {"idle", "returned"} THEN pc[x]
                                                                         ELSE "open"]
<1>1. ASSUME pc[q] \in {"waiting", "classify", "decode"}, UNCHANGED result,
             \E s \in {"waiting", "classify", "decode"} : pc' = [pc EXCEPT ![q] = s]
      PROVE  UNCHANGED Contract!vars
  <2>1. phase' = phase
    BY <1>0, <1>1
  <2> QED
    BY <1>0, <1>1, <2>1 DEF Contract!vars
<1>2. ASSUME NEW r, Return(q, r)
      PROVE  phase' = [phase EXCEPT ![q] = "returned"]
  BY <1>0, <1>2 DEF Return
<1>3. CASE SendRequest(q)
  <2>1. CASE Return(q, "encodeError")
    <3>1. Contract!Refuse(q)
      BY <1>0, <1>2, <1>3, <2>1 DEF SendRequest, Return, Contract!Refuse, Contract!Return
    <3> QED
      BY <3>1 DEF Contract!Next
  <2>2. CASE ~Return(q, "encodeError")
    <3>1. /\ pc[q] = "idle" /\ UNCHANGED result
          /\ \E s \in {"waiting", "classify"} : pc' = [pc EXCEPT ![q] = s]
      BY <1>3, <2>2 DEF SendRequest
    <3>2. phase' = [phase EXCEPT ![q] = "open"]
      BY <1>0, <3>1
    <3>3. Contract!Ask(q)
      BY <1>0, <3>1, <3>2 DEF Contract!Ask
    <3> QED
      BY <3>3 DEF Contract!Next
  <2> QED
    BY <2>1, <2>2
<1>4. CASE ContextDone(q) \/ NatsError(q) \/ TakeReply(q)
  BY <1>1, <1>4 DEF ContextDone, NatsError, TakeReply, Fail
<1>5. ASSUME NEW r \in Contract!Answers(outcome[q]) \union {"timeout", "transportError"},
             Return(q, r), pc[q] \in {"classify", "decode"}
      PROVE  [Contract!Next]_(Contract!vars)
  <2>1. phase[q] = "open"
    BY <1>5
  <2>2. Contract!Return(q, r)
    BY <1>0, <1>2, <1>5 DEF Return, Contract!Return
  <2>3. Contract!End(q)
    BY <1>5, <2>1, <2>2 DEF Contract!End
  <2> QED
    BY <2>3 DEF Contract!Next
<1>6. CASE Classify(q)
  BY <1>5, <1>6 DEF Classify
<1>7. CASE Decode(q)
  BY <1>5, <1>7, DecodeAnswers DEF Decode
<1> QED
  BY <1>1, <1>3, <1>4, <1>6, <1>7 DEF CallerStep

LEMMA ContractNext == IInv /\ [Next]_vars => [Contract!Next]_(Contract!vars)
PROOF
<1> SUFFICES ASSUME IInv, [Next]_vars PROVE [Contract!Next]_(Contract!vars)
  OBVIOUS
<1> USE DEF callerVars, routeVars, workerVars, history, vars
<1>1. ASSUME UNCHANGED <<pc, result, outcome>>
      PROVE  UNCHANGED Contract!vars
  BY <1>1 DEF Contract!vars
<1>2. ASSUME NEW w \in Workers, NEW q \in Requests, RunHandler(w, q)
      PROVE  Contract!Next
  <2>1. UNCHANGED <<pc, result>> /\ outcome[q] = "none" /\ Asked(q)
    BY <1>2, RunFacts DEF RunHandler
  <2>2. \E o \in {"success", "error", "panic"} : outcome' = [outcome EXCEPT ![q] = o]
    BY <1>2 DEF RunHandler, Outcomes
  <2>3. Contract!Handle(q)
    BY <2>1, <2>2 DEF Asked, Contract!Handle
  <2> QED
    BY <2>3 DEF Contract!Next
<1>3. ASSUME NEW q \in Requests, DeadlinePasses(q) \/ CallerCancels(q) \/ RouteRequest(q)
      PROVE  UNCHANGED Contract!vars
  BY <1>1, <1>3 DEF DeadlinePasses, CallerCancels, RouteRequest
<1>4. ASSUME NEW w \in Workers,
             \/ TakeRequest(w) \/ DrainEnds(w) \/ Drain(w)
             \/ \E q \in Requests : SendReply(w, q)
      PROVE  UNCHANGED Contract!vars
  BY <1>1, <1>4 DEF TakeRequest, DrainEnds, Drain, SendReply
<1>5. CASE Lose \/ UNCHANGED vars
  BY <1>1, <1>5 DEF Lose
<1> QED
  BY <1>2, <1>3, <1>4, <1>5, ContractCaller DEF Next, WorkerStep, Finished

\* A call implements the safety part of its contract: the handler runs at most once
\* for it, after it was sent, and the call ends once, with a result that agrees with
\* what the handler did.
THEOREM ContractHolds == Spec => Contract!Spec
PROOF
  BY ContractInit, ContractNext, Invariant, PTL DEF Spec, Contract!Spec

=============================================================================
