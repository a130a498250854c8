---------------------------- MODULE RoutesProofs ----------------------------
(***************************************************************************)
(* Proofs of the safety properties of Routes, those of CoreConsumer and of *)
(* Router, for any names and numbers, any messages and any finite set of   *)
(* workers.                                                                *)
(***************************************************************************)
EXTENDS Routes, FiniteSetTheorems, SequenceTheorems, TLAPS

-----------------------------------------------------------------------------
(* Counting workers *)

\* Two sets of workers that agree but for one worker.
LEMMA CountFacts ==
  ASSUME NEW A \in SUBSET Workers, NEW B \in SUBSET Workers, NEW w \in Workers,
         \A v \in Workers \ {w} : v \in A <=> v \in B
  PROVE  /\ Cardinality(A) \in Nat /\ Cardinality(B) \in Nat
         /\ (w \in A <=> w \in B) => Cardinality(B) = Cardinality(A)
         /\ w \notin A /\ w \in B => Cardinality(B) = Cardinality(A) + 1
         /\ w \in A /\ w \notin B => Cardinality(A) = Cardinality(B) + 1
PROOF
<1>1. IsFiniteSet(A) /\ IsFiniteSet(B)
  BY WorkersAssumption, FS_Subset
<1>2. Cardinality(A) \in Nat /\ Cardinality(B) \in Nat
  BY <1>1, FS_CardinalityType
<1>3. (w \in A <=> w \in B) => A = B
  OBVIOUS
<1>4. ASSUME w \notin A, w \in B
      PROVE  Cardinality(B) = Cardinality(A) + 1
  <2>1. B = A \union {w}
    BY <1>4
  <2> QED
    BY <1>1, <1>4, <2>1, FS_AddElement
<1>5. ASSUME w \in A, w \notin B
      PROVE  Cardinality(A) = Cardinality(B) + 1
  <2>1. A = B \union {w}
    BY <1>5
  <2> QED
    BY <1>1, <1>5, <2>1, FS_AddElement
<1> QED
  BY <1>2, <1>3, <1>4, <1>5

-----------------------------------------------------------------------------
(* The inductive invariant of the callbacks and the metrics *)

\* The places of a worker hold the messages its handler has not run for: 0 is its
\* callback until the handler returns, the others its subscription's buffer.
Held(w, i, m) == IF i = 0 THEN job[w] = {m} /\ pc[w] \in {"enter", "handler"}
                          ELSE queue[w][i] = m

Ran(m, w) == \E r \in Results : <<m, w, r>> \in runs

JobShape(w) ==
  /\ pc[w] = "idle" => job[w] = {}
  /\ pc[w] # "idle" => \E m \in Msgs : job[w] = {m}
  /\ pc[w] \in {"observe", "count"} => result[w] \in {"success", "error"}

\* A subscription gets a message once, and its handler has not run for it before.
Fresh(m) ==
  /\ \A w \in Workers : \A i, j \in 0..Len(queue[w]) :
       Held(w, i, m) /\ Held(w, j, m) => i = j
  /\ \A w \in Workers : \A i \in 0..Len(queue[w]) :
       Held(w, i, m) => m \in published /\ ~Ran(m, w)
  /\ \A w \in Workers : Ran(m, w) => m \in published

\* Only one member of a queue group gets a message.
Shared(m) ==
  routeType = "Queue" =>
    \A v, w \in Workers :
      /\ \A i \in 0..Len(queue[v]), j \in 0..Len(queue[w]) :
           Held(v, i, m) /\ Held(w, j, m) => v = w
      /\ \A i \in 0..Len(queue[v]) : Held(v, i, m) => ~Ran(m, w)
      /\ \A r, s \in Results :
           <<m, v, r>> \in runs /\ <<m, w, s>> \in runs => v = w /\ r = s

\* Who is counted by inflight, who has observed a duration and not counted its
\* result, and who has yet to count an outcome o.
InHandler == {w \in Workers : pc[w] \in {"handler", "observe", "count", "leave"}}
InCount   == {w \in Workers : pc[w] = "count"}
Owing(o)  == {w \in Workers : pc[w] \in {"observe", "count"} /\ result[w] = o}
RunsOf(o) == {r \in runs : r[3] = o}

Books ==
  /\ IsFiniteSet(runs)
  /\ inflight = Cardinality(InHandler)
  /\ duration = requestsTotal + errorsTotal + Cardinality(InCount)
  /\ Cardinality(RunsOf("error")) = errorsTotal + Cardinality(Owing("error"))
  /\ Cardinality(RunsOf("success")) = requestsTotal + Cardinality(Owing("success"))

Sharing == \A m \in Msgs : Fresh(m) /\ Shared(m)

\* The counters have not fallen below what a scrape has read of them.
ReadBefore ==
  /\ \A r \in seen["requestsTotal"] : r <= requestsTotal
  /\ \A e \in seen["errorsTotal"] : e <= errorsTotal

CoreInv == TypeOK /\ (\A w \in Workers : JobShape(w)) /\ Sharing /\ Books /\ ReadBefore

LEMMA CoreInit == Init => CoreInv
PROOF
<1> SUFFICES ASSUME Init PROVE CoreInv
  OBVIOUS
<1>1. TypeOK
  BY EmptySeq DEF Init, TypeOK
<1>2. \A w \in Workers : JobShape(w)
  BY DEF Init, JobShape
<1>3. Sharing
  <2>1. ASSUME NEW w \in Workers, NEW i \in 0..Len(queue[w]), NEW m \in Msgs
        PROVE  ~Held(w, i, m)
    <3>1. Len(queue[w]) = 0 /\ job[w] = {}
      BY EmptySeq DEF Init
    <3> QED
      BY <3>1 DEF Held
  <2>2. runs = {}
    BY DEF Init
  <2>3. ASSUME NEW m \in Msgs, NEW w \in Workers PROVE ~Ran(m, w)
    BY <2>2 DEF Ran
  <2>4. ASSUME NEW m \in Msgs PROVE Fresh(m)
    BY <2>1, <2>3 DEF Fresh
  <2>5. ASSUME NEW m \in Msgs PROVE Shared(m)
    BY <2>1, <2>2, <2>3 DEF Shared
  <2> QED
    BY <2>4, <2>5 DEF Sharing
<1>4. Books
  <2>1. InHandler = {} /\ InCount = {} /\ Owing("error") = {} /\ Owing("success") = {}
    BY DEF Init, InHandler, InCount, Owing
  <2>2. runs = {} /\ RunsOf("error") = {} /\ RunsOf("success") = {}
    BY DEF Init, RunsOf
  <2>3. inflight = 0 /\ duration = 0 /\ requestsTotal = 0 /\ errorsTotal = 0
    BY DEF Init
  <2>4. IsFiniteSet({}) /\ Cardinality({}) = 0
    BY FS_EmptySet
  <2> QED
    BY <2>1, <2>2, <2>3, <2>4 DEF Books
<1>5. ReadBefore
  BY DEF Init, ReadBefore, Counters
<1> QED
  BY <1>1, <1>2, <1>3, <1>4, <1>5 DEF CoreInv

-----------------------------------------------------------------------------
(* Steps and types *)

LEMMA QueueFacts ==
  ASSUME TypeOK, NEW w \in Workers
  PROVE  /\ queue[w] \in Seq(Msgs) /\ Len(queue[w]) \in Nat
         /\ 0 \in 0..Len(queue[w])
PROOF
  BY LenProperties DEF TypeOK

\* The steps of a callback leave the other workers alone.
LEMMA CallbackFrame ==
  ASSUME TypeOK, NEW w \in Workers, Callback(w), NEW v \in Workers \ {w}
  PROVE  pc'[v] = pc[v] /\ job'[v] = job[v] /\ result'[v] = result[v] /\ queue'[v] = queue[v]
PROOF
<1>1. /\ pc \in [Workers -> {"idle", "enter", "handler", "observe", "count", "leave"}]
      /\ job \in [Workers -> SUBSET Msgs] /\ queue \in [Workers -> Seq(Msgs)]
      /\ result \in [Workers -> Results \union {"none"}]
  BY DEF TypeOK
<1> QED
  BY <1>1 DEF Callback, Take, InflightInc, Handler, ObserveDuration, Count, InflightDec,
     Goto, subVars

LEMMA TypeCallback ==
  ASSUME CoreInv, NEW w \in Workers, Callback(w)
  PROVE  TypeOK'
PROOF
<1> USE DEF subVars, workerVars, metrics
<1>0. TypeOK /\ JobShape(w) /\ Books
  BY DEF CoreInv
<1>1. pc' \in [Workers -> {"idle", "enter", "handler", "observe", "count", "leave"}]
  <2>1. \E s \in {"idle", "enter", "handler", "observe", "count", "leave"} :
          pc' = [pc EXCEPT ![w] = s]
    BY DEF Callback, Take, InflightInc, Handler, ObserveDuration, Count, InflightDec, Goto
  <2> QED
    BY <1>0, <2>1 DEF TypeOK
<1>2. result' \in [Workers -> Results \union {"none"}]
  <2>1. result' = result \/ \E r \in Results \union {"none"} : result' = [result EXCEPT ![w] = r]
    BY DEF Callback, Take, InflightInc, Handler, ObserveDuration, Count, InflightDec
  <2> QED
    BY <1>0, <2>1 DEF TypeOK
<1>3. CASE Take(w)
  <2>1. Head(queue[w]) \in Msgs /\ Tail(queue[w]) \in Seq(Msgs)
    BY <1>0, <1>3, QueueFacts, HeadTailProperties DEF Take
  <2>2. queue' \in [Workers -> Seq(Msgs)] /\ job' \in [Workers -> SUBSET Msgs]
    BY <1>0, <1>3, <2>1 DEF Take, TypeOK
  <2> QED
    BY <1>0, <1>1, <1>2, <1>3, <2>2 DEF Take, TypeOK
<1>4. CASE Handler(w)
  <2>1. PICK m \in job[w], r \in Results : runs' = runs \union {<<m, w, r>>}
    BY <1>4 DEF Handler
  <2>2. m \in Msgs
    BY <1>0, <2>1 DEF TypeOK
  <2> QED
    BY <1>0, <1>1, <1>2, <1>4, <2>1, <2>2 DEF Handler, TypeOK
<1>5. CASE InflightDec(w)
  <2>1. inflight' \in Nat
    <3>1. w \in InHandler /\ InHandler \in SUBSET Workers /\ IsFiniteSet(InHandler)
      BY <1>5, WorkersAssumption, FS_Subset DEF InflightDec, InHandler
    <3>2. Cardinality(InHandler) \in Nat /\ Cardinality(InHandler) # 0
      BY <3>1, FS_CardinalityType, FS_EmptySet
    <3> QED
      BY <1>0, <1>5, <3>2 DEF InflightDec, Books
  <2>2. job' \in [Workers -> SUBSET Msgs]
    BY <1>0, <1>5 DEF InflightDec, TypeOK
  <2> QED
    BY <1>0, <1>1, <1>2, <1>5, <2>1, <2>2 DEF InflightDec, TypeOK
<1>6. CASE InflightInc(w) \/ ObserveDuration(w) \/ Count(w)
  BY <1>0, <1>1, <1>2, <1>6 DEF InflightInc, ObserveDuration, Count, TypeOK
<1> QED
  BY <1>3, <1>4, <1>5, <1>6 DEF Callback

LEMMA TypeNext == CoreInv /\ [Next]_vars => TypeOK'
PROOF
<1> SUFFICES ASSUME CoreInv, [Next]_vars PROVE TypeOK'
  OBVIOUS
<1> USE DEF subVars, workerVars, metrics, vars
<1>0. TypeOK
  BY DEF CoreInv
<1>1. ASSUME NEW m \in Msgs, Publish(m)
      PROVE  TypeOK'
  <2>1. \A w \in Workers : queue[w] \in Seq(Msgs) /\ Append(queue[w], m) \in Seq(Msgs)
    BY <1>0, AppendProperties DEF TypeOK
  <2>2. queue' \in [Workers -> Seq(Msgs)]
    BY <1>1, <2>1 DEF Publish
  <2> QED
    BY <1>0, <1>1, <2>2 DEF Publish, TypeOK
<1>2. ASSUME NEW w \in Workers, Start(w) \/ Drain(w) \/ DrainEnds(w)
      PROVE  TypeOK'
  BY <1>0, <1>2 DEF Start, Drain, DrainEnds, TypeOK
<1>3. CASE UNCHANGED vars
  BY <1>0, <1>3 DEF TypeOK
<1>4. CASE Scrape
  <2>1. seen' \in [Counters -> SUBSET Nat]
    <3>1. seen \in [Counters -> SUBSET Nat] /\ requestsTotal \in Nat /\ errorsTotal \in Nat
      BY <1>0 DEF TypeOK
    <3> QED
      BY <1>4, <3>1 DEF Scrape, Gather, Answer
  <2> QED
    BY <1>0, <1>4, <2>1 DEF Scrape, Gather, Answer, TypeOK
<1> QED
  BY <1>1, <1>2, <1>3, <1>4, TypeCallback DEF Next, Finished

LEMMA JobShapeNext ==
  CoreInv /\ [Next]_vars => \A w \in Workers : JobShape(w)'
PROOF
<1> SUFFICES ASSUME CoreInv, [Next]_vars, NEW w \in Workers PROVE JobShape(w)'
  OBVIOUS
<1> USE DEF subVars, workerVars, metrics, vars
<1>0. /\ TypeOK /\ JobShape(w)
      /\ pc \in [Workers -> {"idle", "enter", "handler", "observe", "count", "leave"}]
      /\ job \in [Workers -> SUBSET Msgs]
      /\ result \in [Workers -> Results \union {"none"}]
  BY DEF CoreInv, TypeOK
<1>1. CASE pc'[w] = pc[w] /\ job'[w] = job[w] /\ result'[w] = result[w]
  BY <1>0, <1>1 DEF JobShape
<1>2. CASE Callback(w)
  <2>1. CASE Take(w)
    <3>1. Head(queue[w]) \in Msgs
      BY <1>0, <2>1, QueueFacts, HeadTailProperties DEF Take
    <3>2. job'[w] = {Head(queue[w])} /\ pc'[w] = "enter"
      BY <1>0, <2>1 DEF Take, Goto
    <3> QED
      BY <3>1, <3>2 DEF JobShape
  <2>2. CASE Handler(w)
    <3>1. PICK r \in Results : /\ result' = [result EXCEPT ![w] = r]
                               /\ pc' = [pc EXCEPT ![w] = IF r = "panic" THEN "leave"
                                                                      ELSE "observe"]
      BY <2>2 DEF Handler, Goto
    <3>2. result'[w] = r /\ pc'[w] = (IF r = "panic" THEN "leave" ELSE "observe")
          /\ job' = job /\ pc[w] = "handler"
      BY <1>0, <2>2, <3>1 DEF Handler
    <3> QED
      BY <1>0, <3>2 DEF JobShape, Results
  <2>3. CASE InflightInc(w) \/ ObserveDuration(w) \/ Count(w) \/ InflightDec(w)
    BY <1>0, <2>3 DEF InflightInc, ObserveDuration, Count, InflightDec, Goto, JobShape
  <2> QED
    BY <1>2, <2>1, <2>2, <2>3 DEF Callback
<1>3. ASSUME NEW v \in Workers, Callback(v)
      PROVE  JobShape(w)'
  BY <1>0, <1>1, <1>2, <1>3, CallbackFrame
<1>4. CASE UNCHANGED <<pc, job, result>>
  BY <1>1, <1>4
<1> QED
  BY <1>3, <1>4 DEF Next, Publish, Start, Drain, DrainEnds, Scrape, Gather, Answer, Finished

-----------------------------------------------------------------------------
(* The messages are shared out *)

\* What is in a place after the step was k[w] places behind it.
Shifted(k) ==
  \A m \in Msgs, w \in Workers : \A i \in 0..Len(queue'[w]) :
    Held(w, i, m)' => i + k[w] \in 0..Len(queue[w]) /\ Held(w, i + k[w], m)

\* A shift hands no message out again.
LEMMA ShiftSharing ==
  ASSUME CoreInv, NEW k \in [Workers -> {0, 1}], Shifted(k),
         UNCHANGED <<runs, routeType>>, published \subseteq published', TypeOK'
  PROVE  Sharing'
PROOF
<1> SUFFICES ASSUME NEW m \in Msgs PROVE Fresh(m)' /\ Shared(m)'
  BY DEF Sharing
<1>0. Fresh(m) /\ Shared(m) /\ TypeOK
  BY DEF CoreInv, Sharing
<1>1. \A w \in Workers : Ran(m, w)' <=> Ran(m, w)
  BY DEF Ran
<1>2. ASSUME NEW w \in Workers, NEW i \in 0..Len(queue'[w]), Held(w, i, m)'
      PROVE  i + k[w] \in 0..Len(queue[w]) /\ Held(w, i + k[w], m) /\ i \in Int /\ k[w] \in Int
  BY <1>2, QueueFacts DEF Shifted
<1>3. Fresh(m)'
  <2>1. ASSUME NEW w \in Workers, NEW i \in 0..Len(queue'[w]), NEW j \in 0..Len(queue'[w]),
               Held(w, i, m)', Held(w, j, m)'
        PROVE  i = j
    <3>1. /\ i + k[w] \in 0..Len(queue[w]) /\ Held(w, i + k[w], m) /\ i \in Int
          /\ j + k[w] \in 0..Len(queue[w]) /\ Held(w, j + k[w], m) /\ j \in Int /\ k[w] \in Int
      BY <1>2, <2>1
    <3>2. i + k[w] = j + k[w]
      BY <1>0, <3>1 DEF Fresh
    <3> QED
      BY <3>1, <3>2
  <2>2. ASSUME NEW w \in Workers, NEW i \in 0..Len(queue'[w]), Held(w, i, m)'
        PROVE  m \in published' /\ ~Ran(m, w)'
    BY <1>0, <1>1, <1>2, <2>2 DEF Fresh
  <2>3. \A w \in Workers : Ran(m, w)' => m \in published'
    BY <1>0, <1>1 DEF Fresh
  <2> QED
    BY <2>1, <2>2, <2>3 DEF Fresh
<1>4. Shared(m)'
  <2> SUFFICES ASSUME routeType = "Queue", NEW v \in Workers, NEW w \in Workers
               PROVE  /\ \A i \in 0..Len(queue'[v]), j \in 0..Len(queue'[w]) :
                           Held(v, i, m)' /\ Held(w, j, m)' => v = w
                      /\ \A i \in 0..Len(queue'[v]) : Held(v, i, m)' => ~Ran(m, w)'
                      /\ \A r, s \in Results :
                           <<m, v, r>> \in runs /\ <<m, w, s>> \in runs => v = w /\ r = s
    BY DEF Shared
  <2>1. ASSUME NEW i \in 0..Len(queue'[v]), NEW j \in 0..Len(queue'[w]),
               Held(v, i, m)', Held(w, j, m)'
        PROVE  v = w
    BY <1>0, <1>2, <2>1 DEF Shared
  <2>2. ASSUME NEW i \in 0..Len(queue'[v]), Held(v, i, m)'
        PROVE  ~Ran(m, w)'
    BY <1>0, <1>1, <1>2, <2>2 DEF Shared
  <2> QED
    BY <1>0, <2>1, <2>2 DEF Shared
<1> QED
  BY <1>3, <1>4

\* Whoever leaves the buffers alone and hands no message to a callback.
LEMMA StillSharing ==
  ASSUME CoreInv, TypeOK', UNCHANGED <<queue, runs, routeType, published>>,
         \A m \in Msgs, w \in Workers : Held(w, 0, m)' => Held(w, 0, m)
  PROVE  Sharing'
PROOF
<1> DEFINE k == [w \in Workers |-> 0]
<1>1. ASSUME NEW m \in Msgs, NEW w \in Workers, NEW i \in 0..Len(queue'[w]), Held(w, i, m)'
      PROVE  i + k[w] \in 0..Len(queue[w]) /\ Held(w, i + k[w], m)
  <2>1. i + k[w] = i /\ i \in 0..Len(queue[w])
    BY QueueFacts DEF CoreInv
  <2>2. Held(w, i, m)
    BY <1>1 DEF Held
  <2> QED
    BY <2>1, <2>2
<1>2. Shifted(k)
  BY <1>1 DEF Shifted
<1>3. k \in [Workers -> {0, 1}]
  OBVIOUS
<1> HIDE DEF k
<1> QED
  BY <1>2, <1>3, ShiftSharing

LEMMA TakeSharing ==
  ASSUME CoreInv, TypeOK', NEW w \in Workers, Take(w)
  PROVE  Sharing'
PROOF
<1> DEFINE k == [v \in Workers |-> IF v = w THEN 1 ELSE 0]
<1>1. /\ queue[w] # <<>> /\ queue[w] \in Seq(Msgs)
      /\ queue'[w] = Tail(queue[w]) /\ job'[w] = {Head(queue[w])}
      /\ \A v \in Workers \ {w} : queue'[v] = queue[v] /\ job'[v] = job[v] /\ pc'[v] = pc[v]
      /\ UNCHANGED <<runs, routeType, published>>
  BY DEF Take, Goto, CoreInv, TypeOK
<1>2. /\ Len(queue'[w]) = Len(queue[w]) - 1 /\ Len(queue[w]) \in Nat
      /\ \A j \in 1..Len(queue'[w]) : queue'[w][j] = queue[w][j + 1]
      /\ job'[w] = {queue[w][1]}
  BY <1>1, HeadTailProperties, QueueFacts DEF CoreInv
<1>3. ASSUME NEW m \in Msgs, NEW v \in Workers, NEW i \in 0..Len(queue'[v]), Held(v, i, m)'
      PROVE  i + k[v] \in 0..Len(queue[v]) /\ Held(v, i + k[v], m)
  <2>1. CASE v = w
    <3>1. i \in Int /\ k[v] = 1 /\ i + 1 \in 1..Len(queue[w])
      BY <1>2, <2>1
    <3>2. queue[w][i + 1] = m
      <4>1. CASE i = 0
        <5>1. {queue[w][1]} = {m}
          BY <1>2, <1>3, <2>1, <4>1 DEF Held
        <5> QED
          BY <4>1, <5>1
      <4>2. CASE i # 0
        BY <1>2, <1>3, <2>1, <4>2 DEF Held
      <4> QED
        BY <4>1, <4>2
    <3> QED
      BY <2>1, <3>1, <3>2 DEF Held
  <2>2. CASE v # w
    <3>1. k[v] = 0 /\ i + k[v] = i /\ i \in 0..Len(queue[v])
      BY <1>1, <2>2, QueueFacts DEF CoreInv
    <3>2. Held(v, i, m)
      BY <1>1, <1>3, <2>2 DEF Held
    <3> QED
      BY <3>1, <3>2
  <2> QED
    BY <2>1, <2>2
<1>4. Shifted(k)
  BY <1>3 DEF Shifted
<1>5. k \in [Workers -> {0, 1}]
  OBVIOUS
<1> HIDE DEF k
<1> QED
  BY <1>1, <1>4, <1>5, ShiftSharing

\* The handler runs for a message that its worker holds, and holds no more after.
LEMMA HandlerSharing ==
  ASSUME CoreInv, NEW w \in Workers, Handler(w)
  PROVE  /\ Sharing'
         /\ \E m \in Msgs, r \in Results :
              /\ <<m, w, r>> \notin runs /\ runs' = runs \union {<<m, w, r>>}
              /\ result' = [result EXCEPT ![w] = r]
              /\ pc' = [pc EXCEPT ![w] = IF r = "panic" THEN "leave" ELSE "observe"]
              /\ pc[w] = "handler"
PROOF
<1>0. /\ TypeOK /\ JobShape(w) /\ pc[w] = "handler" /\ 0 \in 0..Len(queue[w])
      /\ pc \in [Workers -> {"idle", "enter", "handler", "observe", "count", "leave"}]
      /\ UNCHANGED <<queue, job, routeType, published>>
  BY QueueFacts DEF CoreInv, Handler, TypeOK, subVars
<1>1. PICK n \in job[w], o \in Results :
        /\ runs' = runs \union {<<n, w, o>>}
        /\ result' = [result EXCEPT ![w] = o]
        /\ pc' = [pc EXCEPT ![w] = IF o = "panic" THEN "leave" ELSE "observe"]
  BY DEF Handler, Goto
<1>2. job[w] = {n} /\ n \in Msgs
  BY <1>0, <1>1 DEF JobShape
<1>3. Held(w, 0, n) /\ n \in published /\ ~Ran(n, w)
  <2>1. Held(w, 0, n)
    BY <1>0, <1>2 DEF Held
  <2> QED
    BY <1>0, <1>2, <2>1 DEF CoreInv, Sharing, Fresh
<1>4. <<n, w, o>> \notin runs
  BY <1>3 DEF Ran
<1>5. pc'[w] \notin {"enter", "handler"} /\ \A v \in Workers \ {w} : pc'[v] = pc[v]
  BY <1>0, <1>1
<1>6. ASSUME NEW m \in Msgs, NEW v \in Workers, NEW i \in 0..Len(queue'[v]), Held(v, i, m)'
      PROVE  i \in 0..Len(queue[v]) /\ Held(v, i, m) /\ ~(v = w /\ i = 0)
  <2>1. i \in 0..Len(queue[v])
    BY <1>0
  <2>2. CASE i = 0
    BY <1>0, <1>5, <1>6, <2>1, <2>2 DEF Held
  <2>3. CASE i # 0
    BY <1>0, <1>6, <2>1, <2>3 DEF Held
  <2> QED
    BY <2>2, <2>3
<1>7. \A m \in Msgs, v \in Workers : Ran(m, v)' <=> Ran(m, v) \/ (m = n /\ v = w)
  BY <1>1 DEF Ran
<1>8. ASSUME NEW m \in Msgs
      PROVE  Fresh(m)' /\ Shared(m)'
  <2>0. Fresh(m) /\ Shared(m)
    BY DEF CoreInv, Sharing
  <2>1. Fresh(m)'
    <3>1. ASSUME NEW v \in Workers, NEW i \in 0..Len(queue'[v]), NEW j \in 0..Len(queue'[v]),
                 Held(v, i, m)', Held(v, j, m)'
          PROVE  i = j
      BY <1>6, <2>0, <3>1 DEF Fresh
    <3>2. ASSUME NEW v \in Workers, NEW i \in 0..Len(queue'[v]), Held(v, i, m)'
          PROVE  m \in published' /\ ~Ran(m, v)'
      <4>1. i \in 0..Len(queue[v]) /\ Held(v, i, m) /\ ~(v = w /\ i = 0)
        BY <1>6, <3>2
      <4>2. m \in published /\ ~Ran(m, v)
        BY <2>0, <4>1 DEF Fresh
      <4>3. ~(m = n /\ v = w)
        BY <1>0, <1>3, <2>0, <4>1 DEF Fresh
      <4> QED
        BY <1>0, <1>7, <4>2, <4>3
    <3>3. \A v \in Workers : Ran(m, v)' => m \in published'
      BY <1>0, <1>3, <1>7, <2>0 DEF Fresh
    <3> QED
      BY <3>1, <3>2, <3>3 DEF Fresh
  <2>2. ASSUME routeType = "Queue", NEW u \in Workers, NEW v \in Workers
        PROVE  /\ \A i \in 0..Len(queue'[u]), j \in 0..Len(queue'[v]) :
                    Held(u, i, m)' /\ Held(v, j, m)' => u = v
               /\ \A i \in 0..Len(queue'[u]) : Held(u, i, m)' => ~Ran(m, v)'
               /\ \A r, s \in Results :
                    <<m, u, r>> \in runs' /\ <<m, v, s>> \in runs' => u = v /\ r = s
    <3>1. ASSUME NEW i \in 0..Len(queue'[u]), NEW j \in 0..Len(queue'[v]),
                 Held(u, i, m)', Held(v, j, m)'
          PROVE  u = v
      BY <1>6, <2>0, <2>2, <3>1 DEF Shared
    <3>2. ASSUME NEW i \in 0..Len(queue'[u]), Held(u, i, m)'
          PROVE  ~Ran(m, v)'
      <4>1. i \in 0..Len(queue[u]) /\ Held(u, i, m) /\ ~(u = w /\ i = 0)
        BY <1>6, <3>2
      <4>2. ~Ran(m, v)
        BY <2>0, <2>2, <4>1 DEF Shared
      <4>3. m # n
        <5>1. m = n => u = w
          BY <1>0, <1>3, <2>0, <2>2, <4>1 DEF Shared
        <5>2. m = n /\ u = w => i = 0
          BY <1>0, <1>3, <2>0, <4>1 DEF Fresh
        <5> QED
          BY <4>1, <5>1, <5>2
      <4> QED
        BY <1>7, <4>2, <4>3
    <3>3. ASSUME NEW r \in Results, NEW s \in Results,
                 <<m, u, r>> \in runs', <<m, v, s>> \in runs'
          PROVE  u = v /\ r = s
      <4>1. CASE m # n
        BY <1>1, <2>0, <2>2, <3>3, <4>1 DEF Shared
      <4>2. CASE m = n
        <5>1. \A x \in Workers : ~Ran(n, x)
          BY <1>0, <1>3, <2>0, <2>2, <4>2 DEF Shared
        <5> QED
          BY <1>1, <3>3, <4>2, <5>1 DEF Ran
      <4> QED
        BY <4>1, <4>2
    <3> QED
      BY <3>1, <3>2, <3>3
  <2>3. Shared(m)'
    BY <1>0, <2>2 DEF Shared
  <2> QED
    BY <2>1, <2>3
<1> QED
  BY <1>0, <1>1, <1>2, <1>4, <1>8 DEF Sharing

\* A message is new to every worker when it is published, and a queue group's
\* members do not both get it.
LEMMA PublishSharing ==
  ASSUME CoreInv, NEW n \in Msgs, Publish(n)
  PROVE  Sharing'
PROOF
<1>0. /\ TypeOK /\ n \notin published /\ published' = published \union {n}
      /\ UNCHANGED <<job, pc, routeType, runs>>
  BY DEF CoreInv, Publish, workerVars
<1>1. PICK ws \in Recipients :
        queue' = [w \in Workers |-> IF w \in ws THEN Append(queue[w], n) ELSE queue[w]]
  BY DEF Publish
<1>2. routeType = "Queue" => \A u, v \in ws : u = v
  BY DEF Recipients
<1>3. ASSUME NEW v \in Workers
      PROVE  ~Ran(n, v) /\ \A i \in 0..Len(queue[v]) : ~Held(v, i, n)
  BY <1>0 DEF CoreInv, Sharing, Fresh
<1>4. ASSUME NEW m \in Msgs, NEW v \in Workers, NEW i \in 0..Len(queue'[v]), Held(v, i, m)'
      PROVE  \/ i \in 0..Len(queue[v]) /\ Held(v, i, m) /\ m # n
             \/ m = n /\ v \in ws /\ i = Len(queue[v]) + 1
  <2>1. CASE v \in ws
    <3>1. queue'[v] = Append(queue[v], n) /\ queue[v] \in Seq(Msgs) /\ Len(queue[v]) \in Nat
      BY <1>0, <1>1, <2>1, QueueFacts
    <3>2. /\ Len(queue'[v]) = Len(queue[v]) + 1
          /\ \A j \in 1..Len(queue[v]) : queue'[v][j] = queue[v][j]
          /\ queue'[v][Len(queue[v]) + 1] = n
      BY <3>1, AppendProperties
    <3>3. i \in 0..Len(queue[v]) \/ i = Len(queue[v]) + 1
      BY <3>1, <3>2
    <3>4. CASE i \in 0..Len(queue[v])
      <4>1. Held(v, i, m)
        BY <1>0, <1>4, <3>2, <3>4 DEF Held
      <4> QED
        BY <1>3, <3>4, <4>1
    <3>5. CASE i = Len(queue[v]) + 1
      <4>1. i # 0
        BY <3>1, <3>5
      <4> QED
        BY <1>4, <2>1, <3>2, <3>5, <4>1 DEF Held
    <3> QED
      BY <3>3, <3>4, <3>5
  <2>2. CASE v \notin ws
    <3>1. queue'[v] = queue[v]
      BY <1>1, <2>2
    <3>2. Held(v, i, m) /\ i \in 0..Len(queue[v])
      BY <1>0, <1>4, <3>1 DEF Held
    <3> QED
      BY <1>3, <3>2
  <2> QED
    BY <2>1, <2>2
<1>5. \A m \in Msgs, v \in Workers : Ran(m, v)' <=> Ran(m, v)
  BY <1>0 DEF Ran
<1>6. ASSUME NEW m \in Msgs
      PROVE  Fresh(m)' /\ Shared(m)'
  <2>0. Fresh(m) /\ Shared(m)
    BY DEF CoreInv, Sharing
  <2>1. Fresh(m)'
    <3>1. ASSUME NEW v \in Workers, NEW i \in 0..Len(queue'[v]), NEW j \in 0..Len(queue'[v]),
                 Held(v, i, m)', Held(v, j, m)'
          PROVE  i = j
      BY <1>4, <2>0, <3>1 DEF Fresh
    <3>2. ASSUME NEW v \in Workers, NEW i \in 0..Len(queue'[v]), Held(v, i, m)'
          PROVE  m \in published' /\ ~Ran(m, v)'
      BY <1>0, <1>3, <1>4, <1>5, <2>0, <3>2 DEF Fresh
    <3>3. \A v \in Workers : Ran(m, v)' => m \in published'
      BY <1>0, <1>5, <2>0 DEF Fresh
    <3> QED
      BY <3>1, <3>2, <3>3 DEF Fresh
  <2>2. ASSUME routeType = "Queue", NEW u \in Workers, NEW v \in Workers
        PROVE  /\ \A i \in 0..Len(queue'[u]), j \in 0..Len(queue'[v]) :
                    Held(u, i, m)' /\ Held(v, j, m)' => u = v
               /\ \A i \in 0..Len(queue'[u]) : Held(u, i, m)' => ~Ran(m, v)'
               /\ \A r, s \in Results :
                    <<m, u, r>> \in runs' /\ <<m, v, s>> \in runs' => u = v /\ r = s
    <3>1. ASSUME NEW i \in 0..Len(queue'[u]), NEW j \in 0..Len(queue'[v]),
                 Held(u, i, m)', Held(v, j, m)'
          PROVE  u = v
      BY <1>2, <1>4, <2>0, <2>2, <3>1 DEF Shared
    <3>2. ASSUME NEW i \in 0..Len(queue'[u]), Held(u, i, m)'
          PROVE  ~Ran(m, v)'
      BY <1>3, <1>4, <1>5, <2>0, <2>2, <3>2 DEF Shared
    <3> QED
      BY <1>0, <2>0, <2>2, <3>1, <3>2 DEF Shared
  <2>3. Shared(m)'
    BY <1>0, <2>2 DEF Shared
  <2> QED
    BY <2>1, <2>3
<1> QED
  BY <1>6 DEF Sharing

LEMMA SharingNext == CoreInv /\ TypeOK' /\ [Next]_vars => Sharing'
PROOF
<1> SUFFICES ASSUME CoreInv, TypeOK', [Next]_vars PROVE Sharing'
  OBVIOUS
<1> USE DEF subVars, workerVars, metrics, vars
<1>0. /\ pc \in [Workers -> {"idle", "enter", "handler", "observe", "count", "leave"}]
      /\ job \in [Workers -> SUBSET Msgs]
  BY DEF CoreInv, TypeOK
<1>1. CASE UNCHANGED <<queue, runs, routeType, published, job, pc>>
  <2>1. \A m \in Msgs, w \in Workers : Held(w, 0, m)' => Held(w, 0, m)
    BY <1>1 DEF Held
  <2> QED
    BY <1>1, <2>1, StillSharing
<1>2. ASSUME NEW w \in Workers,
             InflightInc(w) \/ ObserveDuration(w) \/ Count(w) \/ InflightDec(w)
      PROVE  Sharing'
  <2>1. ASSUME NEW m \in Msgs, NEW v \in Workers, Held(v, 0, m)'
        PROVE  Held(v, 0, m)
    BY <1>0, <1>2, <2>1 DEF Held, InflightInc, ObserveDuration, Count, InflightDec, Goto
  <2>2. UNCHANGED <<queue, runs, routeType, published>>
    BY <1>2 DEF InflightInc, ObserveDuration, Count, InflightDec
  <2> QED
    BY <2>1, <2>2, StillSharing
<1>3. ASSUME NEW w \in Workers, Callback(w)
      PROVE  Sharing'
  BY <1>2, <1>3, TakeSharing, HandlerSharing DEF Callback
<1>4. ASSUME NEW w \in Workers, Start(w) \/ Drain(w) \/ DrainEnds(w)
      PROVE  Sharing'
  BY <1>1, <1>4 DEF Start, Drain, DrainEnds
<1> QED
  BY <1>1, <1>3, <1>4, PublishSharing DEF Next, Scrape, Gather, Answer, Finished

-----------------------------------------------------------------------------
(* The metrics *)

\* What a worker's step adds to the counts of the workers.
LEMMA BookFacts ==
  ASSUME CoreInv, NEW w \in Workers, Callback(w)
  PROVE  /\ Cardinality(InHandler) \in Nat /\ Cardinality(InCount) \in Nat
         /\ \A o \in {"error", "success"} : Cardinality(Owing(o)) \in Nat
         /\ LET In(a)  == a \in {"handler", "observe", "count", "leave"}
                Owe(a) == a \in {"observe", "count"}
            IN  /\ (In(pc[w]) <=> In(pc'[w])) => Cardinality(InHandler') = Cardinality(InHandler)
                /\ ~In(pc[w]) /\ In(pc'[w]) => Cardinality(InHandler') = Cardinality(InHandler) + 1
                /\ In(pc[w]) /\ ~In(pc'[w]) => Cardinality(InHandler) = Cardinality(InHandler') + 1
                /\ (pc[w] = "count" <=> pc'[w] = "count")
                     => Cardinality(InCount') = Cardinality(InCount)
                /\ pc[w] # "count" /\ pc'[w] = "count"
                     => Cardinality(InCount') = Cardinality(InCount) + 1
                /\ pc[w] = "count" /\ pc'[w] # "count"
                     => Cardinality(InCount) = Cardinality(InCount') + 1
                /\ \A o \in {"error", "success"} :
                     /\ (Owe(pc[w]) /\ result[w] = o <=> Owe(pc'[w]) /\ result'[w] = o)
                          => Cardinality(Owing(o)') = Cardinality(Owing(o))
                     /\ ~Owe(pc[w]) /\ Owe(pc'[w]) /\ result'[w] = o
                          => Cardinality(Owing(o)') = Cardinality(Owing(o)) + 1
                     /\ Owe(pc[w]) /\ result[w] = o /\ ~Owe(pc'[w])
                          => Cardinality(Owing(o)) = Cardinality(Owing(o)') + 1
PROOF
<1>0. \A v \in Workers \ {w} : pc'[v] = pc[v] /\ result'[v] = result[v]
  BY CallbackFrame DEF CoreInv
<1>1. /\ InHandler \in SUBSET Workers /\ InHandler' \in SUBSET Workers
      /\ \A v \in Workers \ {w} : v \in InHandler <=> v \in InHandler'
      /\ w \in InHandler <=> pc[w] \in {"handler", "observe", "count", "leave"}
      /\ w \in InHandler' <=> pc'[w] \in {"handler", "observe", "count", "leave"}
  BY <1>0 DEF InHandler
<1>2. /\ InCount \in SUBSET Workers /\ InCount' \in SUBSET Workers
      /\ \A v \in Workers \ {w} : v \in InCount <=> v \in InCount'
      /\ w \in InCount <=> pc[w] = "count"
      /\ w \in InCount' <=> pc'[w] = "count"
  BY <1>0 DEF InCount
<1>3. ASSUME NEW o \in {"error", "success"}
      PROVE  /\ Owing(o) \in SUBSET Workers /\ Owing(o)' \in SUBSET Workers
             /\ \A v \in Workers \ {w} : v \in Owing(o) <=> v \in Owing(o)'
             /\ w \in Owing(o) <=> pc[w] \in {"observe", "count"} /\ result[w] = o
             /\ w \in Owing(o)' <=> pc'[w] \in {"observe", "count"} /\ result'[w] = o
  BY <1>0 DEF Owing
<1>4. ASSUME NEW o \in {"error", "success"}
      PROVE  /\ Cardinality(Owing(o)) \in Nat
             /\ (w \in Owing(o) <=> w \in Owing(o)')
                  => Cardinality(Owing(o)') = Cardinality(Owing(o))
             /\ w \notin Owing(o) /\ w \in Owing(o)'
                  => Cardinality(Owing(o)') = Cardinality(Owing(o)) + 1
             /\ w \in Owing(o) /\ w \notin Owing(o)'
                  => Cardinality(Owing(o)) = Cardinality(Owing(o)') + 1
  BY <1>3, CountFacts
<1> QED
  BY <1>1, <1>2, <1>3, <1>4, CountFacts

LEMMA BooksCallback ==
  ASSUME CoreInv, NEW w \in Workers, Callback(w)
  PROVE  Books'
PROOF
<1> USE DEF subVars, workerVars, metrics
<1> DEFINE E  == Cardinality(Owing("error"))
           S  == Cardinality(Owing("success"))
           RE == Cardinality(RunsOf("error"))
           RS == Cardinality(RunsOf("success"))
           H  == Cardinality(InHandler)
           C  == Cardinality(InCount)
<1>0. /\ TypeOK /\ JobShape(w) /\ IsFiniteSet(runs)
      /\ inflight = H /\ duration = requestsTotal + errorsTotal + C
      /\ RE = errorsTotal + E /\ RS = requestsTotal + S
      /\ requestsTotal \in Nat /\ errorsTotal \in Nat
      /\ H \in Nat /\ C \in Nat /\ E \in Nat /\ S \in Nat
  BY BookFacts DEF CoreInv, Books, TypeOK
<1>a. /\ pc \in [Workers -> {"idle", "enter", "handler", "observe", "count", "leave"}]
      /\ result \in [Workers -> Results \union {"none"}]
  BY <1>0 DEF TypeOK
<1>b. ASSUME runs' = runs
      PROVE  RE' = RE /\ RS' = RS
  BY <1>b DEF RunsOf
<1> SUFFICES /\ IsFiniteSet(runs') /\ inflight' = H'
             /\ duration' = requestsTotal' + errorsTotal' + C'
             /\ RE' = errorsTotal' + E' /\ RS' = requestsTotal' + S'
  BY DEF Books
<1>1. CASE Take(w) \/ InflightInc(w) \/ InflightDec(w)
  <2>1. /\ UNCHANGED <<duration, requestsTotal, errorsTotal, runs>>
        /\ \/ pc[w] = "idle" /\ pc'[w] = "enter" /\ inflight' = inflight
           \/ pc[w] = "enter" /\ pc'[w] = "handler" /\ inflight' = inflight + 1
           \/ pc[w] = "leave" /\ pc'[w] = "idle" /\ inflight' = inflight - 1
    BY <1>a, <1>1 DEF Take, InflightInc, InflightDec, Goto
  <2>2. C' = C /\ E' = E /\ S' = S
    BY <2>1, BookFacts
  <2>3. inflight' = H'
    <3>1. H' \in Nat
      BY WorkersAssumption, FS_Subset, FS_CardinalityType DEF InHandler
    <3> QED
      BY <1>0, <2>1, <3>1, BookFacts
  <2> HIDE DEF E, S, RE, RS, H, C
  <2> QED
    BY <1>0, <1>b, <2>1, <2>2, <2>3
<1>2. CASE Handler(w)
  <2>1. PICK m \in Msgs, r \in Results :
          /\ <<m, w, r>> \notin runs /\ runs' = runs \union {<<m, w, r>>}
          /\ result' = [result EXCEPT ![w] = r]
          /\ pc' = [pc EXCEPT ![w] = IF r = "panic" THEN "leave" ELSE "observe"]
          /\ pc[w] = "handler"
    BY <1>2, HandlerSharing
  <2>2. /\ UNCHANGED <<inflight, duration, requestsTotal, errorsTotal>>
        /\ result'[w] = r /\ pc'[w] = IF r = "panic" THEN "leave" ELSE "observe"
    BY <1>a, <1>2, <2>1 DEF Handler
  <2>3. H' = H /\ C' = C
    BY <2>1, <2>2, BookFacts
  <2>4. /\ r = "error" => E' = E + 1 /\ S' = S
        /\ r = "success" => S' = S + 1 /\ E' = E
        /\ r = "panic" => E' = E /\ S' = S
    <3>1. \A o \in {"error", "success"} :
            Cardinality(Owing(o)') = Cardinality(Owing(o)) + (IF r = o THEN 1 ELSE 0)
      BY <2>1, <2>2, BookFacts DEF Results
    <3>2. Cardinality(Owing("error")') = Cardinality(Owing("error")) + (IF r = "error" THEN 1 ELSE 0)
      BY <3>1
    <3>3. Cardinality(Owing("success")') = Cardinality(Owing("success")) + (IF r = "success" THEN 1 ELSE 0)
      BY <3>1
    <3> QED
      BY <1>0, <3>2, <3>3
  <2>5. IsFiniteSet(runs')
    BY <1>0, <2>1, FS_AddElement
  <2>6. ASSUME NEW o \in {"error", "success"}
        PROVE  Cardinality(RunsOf(o)') = Cardinality(RunsOf(o)) + (IF r = o THEN 1 ELSE 0)
    <3>1. IsFiniteSet(RunsOf(o)) /\ <<m, w, r>> \notin RunsOf(o)
      BY <1>0, <2>1, FS_Subset DEF RunsOf
    <3>2. CASE r = o
      <4>1. RunsOf(o)' = RunsOf(o) \union {<<m, w, r>>}
        BY <2>1, <3>2 DEF RunsOf
      <4> QED
        BY <3>1, <3>2, <4>1, FS_AddElement
    <3>3. CASE r # o
      <4>1. RunsOf(o)' = RunsOf(o)
        BY <2>1, <3>3 DEF RunsOf
      <4>2. Cardinality(RunsOf(o)) \in Nat
        BY <3>1, FS_CardinalityType
      <4> QED
        BY <3>3, <4>1, <4>2
    <3> QED
      BY <3>2, <3>3
  <2>7. RE' = RE + (IF r = "error" THEN 1 ELSE 0) /\ RS' = RS + (IF r = "success" THEN 1 ELSE 0)
    BY <2>6
  <2>8. RE \in Nat /\ RS \in Nat /\ r \in {"success", "error", "panic"}
    BY <1>0 DEF Results
  <2> HIDE DEF E, S, RE, RS, H, C
  <2> QED
    BY <1>0, <2>2, <2>3, <2>4, <2>5, <2>7, <2>8
<1>3. CASE ObserveDuration(w)
  <2>1. /\ UNCHANGED <<inflight, requestsTotal, errorsTotal, runs, result>>
        /\ pc[w] = "observe" /\ pc'[w] = "count" /\ duration' = duration + 1
    BY <1>a, <1>3 DEF ObserveDuration, Goto
  <2>2. C' = C + 1 /\ H' = H
    BY <2>1, BookFacts
  <2>3. \A o \in {"error", "success"} : Cardinality(Owing(o)') = Cardinality(Owing(o))
    BY <2>1, BookFacts
  <2>4. E' = E /\ S' = S
    BY <2>3
  <2> HIDE DEF E, S, RE, RS, H, C
  <2> QED
    BY <1>0, <1>b, <2>1, <2>2, <2>4
<1>4. CASE Count(w)
  <2>1. /\ UNCHANGED <<inflight, duration, runs, result>>
        /\ pc[w] = "count" /\ pc'[w] = "leave"
        /\ \/ /\ result[w] = "error" /\ errorsTotal' = errorsTotal + 1
              /\ UNCHANGED requestsTotal
           \/ /\ result[w] = "success" /\ requestsTotal' = requestsTotal + 1
              /\ UNCHANGED errorsTotal
    BY <1>a, <1>4 DEF Count, Goto
  <2>2. C = C' + 1 /\ H' = H
    BY <2>1, BookFacts
  <2>3. \A o \in {"error", "success"} :
          Cardinality(Owing(o)) = Cardinality(Owing(o)') + (IF result[w] = o THEN 1 ELSE 0)
    <3> TAKE o \in {"error", "success"}
    <3>1. CASE result[w] = o
      BY <2>1, <3>1, BookFacts
    <3>2. CASE result[w] # o
      <4>1. Cardinality(Owing(o)') = Cardinality(Owing(o)) /\ Cardinality(Owing(o)) \in Nat
        BY <2>1, <3>2, BookFacts
      <4> QED
        BY <3>2, <4>1
    <3> QED
      BY <3>1, <3>2
  <2>4. /\ E = E' + (IF result[w] = "error" THEN 1 ELSE 0)
        /\ S = S' + (IF result[w] = "success" THEN 1 ELSE 0)
    BY <2>3
  <2>5. C' \in Nat /\ E' \in Nat /\ S' \in Nat
    BY WorkersAssumption, FS_Subset, FS_CardinalityType DEF InCount, Owing
  <2> HIDE DEF E, S, RE, RS, H, C
  <2> QED
    BY <1>0, <1>b, <2>1, <2>2, <2>4, <2>5
<1> QED
  BY <1>1, <1>2, <1>3, <1>4 DEF Callback

LEMMA CoreNext == CoreInv /\ [Next]_vars => CoreInv'
PROOF
<1> SUFFICES ASSUME CoreInv, [Next]_vars PROVE CoreInv'
  OBVIOUS
<1> USE DEF subVars, workerVars, metrics, vars
<1>1. TypeOK' /\ (\A w \in Workers : JobShape(w)') /\ Sharing'
  BY TypeNext, JobShapeNext, SharingNext
<1>2. Books'
  <2>1. CASE UNCHANGED <<pc, result, metrics, runs>>
    <3>1. /\ InHandler' = InHandler /\ InCount' = InCount
          /\ Owing("error")' = Owing("error") /\ Owing("success")' = Owing("success")
          /\ RunsOf("error")' = RunsOf("error") /\ RunsOf("success")' = RunsOf("success")
      BY <2>1 DEF InHandler, InCount, Owing, RunsOf
    <3>2. UNCHANGED <<inflight, duration, requestsTotal, errorsTotal, runs>>
      BY <2>1
    <3>3. Books
      BY DEF CoreInv
    <3> QED
      BY <3>1, <3>2, <3>3 DEF Books
  <2> QED
    BY <2>1, BooksCallback
       DEF Next, Publish, Start, Drain, DrainEnds, Scrape, Gather, Answer, Finished
<1>3. ReadBefore'
  <2>0. /\ ReadBefore /\ requestsTotal \in Nat /\ errorsTotal \in Nat
        /\ seen \in [Counters -> SUBSET Nat]
    BY DEF CoreInv, TypeOK
  <2>1. CASE Scrape
    <3>1. UNCHANGED <<requestsTotal, errorsTotal>>
      BY <2>1 DEF Scrape, Gather, Answer
    <3>2. seen'["requestsTotal"] \subseteq seen["requestsTotal"] \union {requestsTotal}
      BY <2>0, <2>1 DEF Scrape, Gather, Answer, Counters
    <3>3. seen'["errorsTotal"] \subseteq seen["errorsTotal"] \union {errorsTotal}
      BY <2>0, <2>1 DEF Scrape, Gather, Answer, Counters
    <3>4. requestsTotal <= requestsTotal /\ errorsTotal <= errorsTotal
      BY <2>0
    <3>5. \A r \in seen'["requestsTotal"] : r <= requestsTotal
      BY <2>0, <3>2, <3>4, Zenon DEF ReadBefore
    <3>6. \A e \in seen'["errorsTotal"] : e <= errorsTotal
      BY <2>0, <3>3, <3>4, Zenon DEF ReadBefore
    <3> QED
      BY <3>1, <3>5, <3>6 DEF ReadBefore
  <2>2. ASSUME UNCHANGED seen, requestsTotal' \in {requestsTotal, requestsTotal + 1},
               errorsTotal' \in {errorsTotal, errorsTotal + 1}
        PROVE  ReadBefore'
    <3>1. seen["requestsTotal"] \subseteq Nat /\ seen["errorsTotal"] \subseteq Nat
      BY <2>0 DEF Counters
    <3> QED
      BY <2>0, <2>2, <3>1 DEF ReadBefore
  <2>3. ASSUME NEW w \in Workers, Callback(w)
        PROVE  ReadBefore'
    BY <2>2, <2>3 DEF Callback, Take, InflightInc, Handler, ObserveDuration, Count, InflightDec
  <2> QED
    BY <2>1, <2>2, <2>3 DEF Next, Publish, Start, Drain, DrainEnds, Finished
<1> QED
  BY <1>1, <1>2, <1>3 DEF CoreInv

-----------------------------------------------------------------------------
(* The route that New makes *)

Configs == [subject : Maker!Strings, queueGroup : Maker!Strings, stream : Maker!Strings,
            durable : Maker!Strings, maxDeliver : Int, ackWait : Int,
            deliveryPolicy : Maker!Policies]

\* Until the route is handed over its config is the one the options left, completed
\* when New accepted it; after that it has what Start hands on.
NewInv ==
  /\ type \in Maker!Types
  /\ ~started => cfg \in Configs /\ given \in Configs
  /\ made = {} => ~started /\ given = cfg
  /\ made # {} /\ ~started =>
       /\ made = {Maker!Validate(type, given)}
       /\ cfg = IF type = "JetStream" /\ Maker!Validate(type, given) = "nil"
                THEN Maker!Defaults(given) ELSE given
  /\ started => /\ type \in {"PubSub", "Queue"} /\ made = {"nil"} /\ given = cfg
                /\ Maker!Complete(type, cfg)

\* New's checks ask for exactly the texts that Start hands on.
LEMMA ValidateFacts ==
  ASSUME NEW t \in Maker!Types, NEW c \in Configs
  PROVE  Maker!Validate(t, c) = "nil" <=> Maker!Handed(t) # {} /\ Maker!Complete(t, c)
PROOF
<1>1. CASE t = "PubSub"
  <2>1. Maker!Handed(t) = {"subject"} /\ Maker!Handed(t) \intersect Maker!Texts = {"subject"}
    BY <1>1 DEF Maker!Handed, Maker!Texts
  <2> QED
    BY <1>1, <2>1 DEF Maker!Validate, Maker!Complete
<1>2. CASE t \in {"Queue", "RequestReply"}
  <2>1. /\ Maker!Handed(t) = {"subject", "queueGroup"}
        /\ Maker!Handed(t) \intersect Maker!Texts = {"subject", "queueGroup"}
    BY <1>2 DEF Maker!Handed, Maker!Texts
  <2> QED
    BY <1>2, <2>1 DEF Maker!Validate, Maker!Complete
<1>3. CASE t = "JetStream"
  <2>1. /\ "subject" \in Maker!Handed(t)
        /\ Maker!Handed(t) \intersect Maker!Texts = {"subject", "stream", "durable"}
    BY <1>3 DEF Maker!Handed, Maker!ConsumerConfig, Maker!Texts
  <2> QED
    BY <1>3, <2>1 DEF Maker!Validate, Maker!Complete
<1>4. CASE t = "undefined"
  <2>1. Maker!Handed(t) = {}
    BY <1>4 DEF Maker!Handed
  <2> QED
    BY <1>4, <2>1 DEF Maker!Validate
<1> QED
  BY <1>1, <1>2, <1>3, <1>4 DEF Maker!Types

\* The defaults fill the two numbers where they are zero.
LEMMA DefaultsFacts ==
  ASSUME NEW c \in Configs
  PROVE  /\ Maker!Defaults(c) \in Configs
         /\ \A field \in Maker!Texts : Maker!Defaults(c)[field] = c[field]
         /\ Maker!Defaults(c).maxDeliver # 0 /\ Maker!Defaults(c).ackWait # 0
         /\ Maker!Defaults(c).deliveryPolicy = c.deliveryPolicy
PROOF
<1> DEFINE max == IF c.maxDeliver = 0 THEN 10 ELSE c.maxDeliver
           ack == IF c.ackWait = 0 THEN 30 ELSE c.ackWait
           full == [subject |-> c.subject, queueGroup |-> c.queueGroup, stream |-> c.stream,
                    durable |-> c.durable, maxDeliver |-> max, ackWait |-> ack,
                    deliveryPolicy |-> c.deliveryPolicy]
<1>1. /\ c \in [subject : Maker!Strings, queueGroup : Maker!Strings, stream : Maker!Strings,
                durable : Maker!Strings, maxDeliver : Int, ackWait : Int,
                deliveryPolicy : Maker!Policies]
      /\ c.maxDeliver \in Int /\ c.ackWait \in Int
  BY DEF Configs
<1>2. max \in Int /\ ack \in Int /\ max # 0 /\ ack # 0
  BY <1>1
<1>3. Maker!Defaults(c) = [c EXCEPT !.maxDeliver = max, !.ackWait = ack]
  BY DEF Maker!Defaults, Maker!defaultMaxDeliveries, Maker!defaultAckWait
<1> HIDE DEF max, ack
<1>4. Maker!Defaults(c) = full
  BY <1>1, <1>3
<1>5. full \in Configs
  BY <1>1, <1>2 DEF Configs
<1>6. \A field \in Maker!Texts : full[field] = c[field]
  BY DEF Maker!Texts
<1>7. full.maxDeliver = max /\ full.ackWait = ack /\ full.deliveryPolicy = c.deliveryPolicy
  OBVIOUS
<1> HIDE DEF full
<1> QED
  BY <1>2, <1>4, <1>5, <1>6, <1>7

LEMMA RecordInConfigs ==
  ASSUME NEW s \in Maker!Strings, NEW e \in Maker!Strings, NEW n \in Int
  PROVE  [subject |-> s, queueGroup |-> e, stream |-> e, durable |-> e,
          maxDeliver |-> n, ackWait |-> n, deliveryPolicy |-> "all"] \in Configs
PROOF
  BY DEF Configs, Maker!Policies

LEMMA NewInit == RoutesInit => NewInv
PROOF
<1> SUFFICES ASSUME RoutesInit PROVE NewInv
  OBVIOUS
<1>1. "" \in Maker!Strings
  BY DEF Maker!Strings
<1>2. PICK s \in Maker!Strings :
        cfg = [subject |-> s, queueGroup |-> "", stream |-> "", durable |-> "",
               maxDeliver |-> 0, ackWait |-> 0, deliveryPolicy |-> "all"]
  BY DEF RoutesInit, Maker!Init
<1>3. cfg \in Configs
  <2>1. 0 \in Int
    OBVIOUS
  <2>2. [subject |-> s, queueGroup |-> "", stream |-> "", durable |-> "",
         maxDeliver |-> 0, ackWait |-> 0, deliveryPolicy |-> "all"] \in Configs
    BY ONLY <1>1, <2>1, s \in Maker!Strings, RecordInConfigs, Zenon
  <2> QED
    BY <1>2, <2>2
<1> QED
  BY <1>3 DEF RoutesInit, Maker!Init, NewInv

LEMMA OptionConfig ==
  ASSUME cfg \in Configs, Maker!Option
  PROVE  cfg' \in Configs
PROOF
<1>1. CASE \E field \in {"queueGroup", "stream", "durable"} : Maker!WithOption(field, Maker!Strings)
  <2>1. PICK v \in Maker!Strings : \/ cfg' = [cfg EXCEPT !.queueGroup = v]
                                   \/ cfg' = [cfg EXCEPT !.stream = v]
                                   \/ cfg' = [cfg EXCEPT !.durable = v]
    BY <1>1 DEF Maker!WithOption
  <2> QED
    BY <2>1 DEF Configs
<1>2. CASE Maker!WithOption("maxDeliver", Delivers) \/ Maker!WithOption("ackWait", Waits)
  <2>1. \E v \in Int : \/ cfg' = [cfg EXCEPT !.maxDeliver = v]
                       \/ cfg' = [cfg EXCEPT !.ackWait = v]
    BY <1>2, NumbersAssumption DEF Maker!WithOption
  <2> QED
    BY <2>1 DEF Configs
<1>3. CASE Maker!WithDeliveryPolicy
  <2>1. PICK v \in Maker!Policies : cfg' = [cfg EXCEPT !.deliveryPolicy = v]
    BY <1>3 DEF Maker!WithDeliveryPolicy, Maker!WithOption
  <2> QED
    BY <2>1 DEF Configs
<1> QED
  BY <1>1, <1>2, <1>3 DEF Maker!Option

LEMMA NewNext ==
  NewInv /\ routeType \in {"PubSub", "Queue"} /\ [RoutesNext]_<<newVars, started, vars>>
    => NewInv'
PROOF
<1> SUFFICES ASSUME NewInv, routeType \in {"PubSub", "Queue"},
                    [RoutesNext]_<<newVars, started, vars>>
             PROVE  NewInv'
  OBVIOUS
<1>1. CASE ~started /\ Maker!Option /\ UNCHANGED started
  <2>1. /\ made = {} /\ made' = {} /\ given' = cfg' /\ type' = type /\ ~started'
    BY <1>1 DEF Maker!Option, Maker!WithDeliveryPolicy, Maker!WithOption
  <2>2. cfg' \in Configs
    BY <1>1, OptionConfig DEF NewInv
  <2> QED
    BY <2>1, <2>2 DEF NewInv
<1>2. CASE ~started /\ Maker!New /\ UNCHANGED started
  <2>1. /\ made = {} /\ made' = {Maker!Validate(type, cfg)} /\ given' = given
        /\ type' = type /\ ~started' /\ given = cfg /\ cfg \in Configs
        /\ cfg' = IF type = "JetStream" /\ Maker!Validate(type, cfg) = "nil"
                  THEN Maker!Defaults(cfg) ELSE cfg
    BY <1>2 DEF Maker!New, NewInv
  <2>2. cfg' \in Configs
    BY <2>1, DefaultsFacts
  <2> QED
    BY <2>1, <2>2 DEF NewInv
<1>3. CASE Hand
  <2>1. /\ ~started /\ made = {"nil"} /\ type \in {"PubSub", "Queue"} /\ started' = TRUE
        /\ cfg' = Read(type, cfg) /\ given' = cfg' /\ type' = type /\ made' = made
        /\ cfg = given /\ cfg \in Configs /\ type \in Maker!Types
        /\ Maker!Validate(type, cfg) = "nil"
    BY <1>3 DEF Hand, NewInv
  <2>2. Maker!Complete(type, cfg)
    BY <2>1, ValidateFacts
  <2>3. Maker!Handed(type) \subseteq DOMAIN cfg
    BY <2>1 DEF Maker!Handed, Configs
  <2>4. \A field \in Maker!Handed(type) : cfg'[field] = cfg[field]
    BY <2>1, <2>3 DEF Read
  <2>5. Maker!Complete(type, cfg)'
    BY <2>1, <2>2, <2>4 DEF Maker!Complete
  <2> QED
    BY <2>1, <2>5 DEF NewInv
<1>4. CASE UNCHANGED <<newVars, started>>
  BY <1>4 DEF NewInv, newVars
<1>5. CASE ~started /\ Maker!Returned /\ UNCHANGED started
  BY <1>4, <1>5 DEF Maker!Returned, Maker!vars, newVars
<1> QED
  BY <1>1, <1>2, <1>3, <1>4, <1>5 DEF RoutesNext, Maker!Next

-----------------------------------------------------------------------------
(* The theorems *)

RoutesInv == CoreInv /\ NewInv

\* The inductive invariant holds: each metric counts the callbacks between its updates
\* (broker/instrumentation.go), a subscription has a message once
\* (consumer/consumer.go:56-91), and the config is what the options and New left
\* (router/route.go).
THEOREM Invariant == RoutesSpec => []RoutesInv
PROOF
<1>1. RoutesInit => RoutesInv
  BY CoreInit, NewInit DEF RoutesInit, RoutesInv
<1>2. RoutesInv /\ [RoutesNext]_<<newVars, started, vars>> => RoutesInv'
  <2> SUFFICES ASSUME RoutesInv, [RoutesNext]_<<newVars, started, vars>>
               PROVE  RoutesInv'
    OBVIOUS
  <2>1. [Next]_vars
    BY DEF RoutesNext, Hand
  <2>2. routeType \in {"PubSub", "Queue"}
    BY DEF RoutesInv, CoreInv, TypeOK
  <2> QED
    BY <2>1, <2>2, CoreNext, NewNext DEF RoutesInv
<1> QED
  BY <1>1, <1>2, PTL DEF RoutesSpec

\* Every variable of the running route keeps its type.
THEOREM TypeCorrect == RoutesSpec => []TypeOK
PROOF
<1>1. RoutesInv => TypeOK
  BY DEF RoutesInv, CoreInv
<1> QED
  BY <1>1, Invariant, PTL

\* At rest the metrics agree with each other and with the handlers, panics included.
THEOREM BooksAgree == RoutesSpec => []BooksBalance
PROOF
<1>1. RoutesInv => BooksBalance
  <2> SUFFICES ASSUME RoutesInv, AtRest PROVE BooksBalance
    BY DEF BooksBalance
  <2>1. InHandler = {} /\ InCount = {} /\ Owing("error") = {} /\ Owing("success") = {}
    BY DEF AtRest, InHandler, InCount, Owing
  <2>2. Cardinality({}) = 0
    BY FS_EmptySet
  <2>3. /\ Cardinality(InHandler) = 0 /\ Cardinality(InCount) = 0
        /\ Cardinality(Owing("error")) = 0 /\ Cardinality(Owing("success")) = 0
    BY <2>1, <2>2
  <2>4. /\ Books /\ requestsTotal \in Nat /\ errorsTotal \in Nat
    BY DEF RoutesInv, CoreInv, TypeOK
  <2>5. /\ inflight = Cardinality(InHandler)
        /\ duration = requestsTotal + errorsTotal + Cardinality(InCount)
        /\ Cardinality(RunsOf("error")) = errorsTotal + Cardinality(Owing("error"))
        /\ Cardinality(RunsOf("success")) = requestsTotal + Cardinality(Owing("success"))
    BY <2>4 DEF Books
  <2>6. /\ inflight = 0 /\ duration = requestsTotal + errorsTotal
        /\ errorsTotal = Cardinality(RunsOf("error"))
        /\ requestsTotal = Cardinality(RunsOf("success"))
    BY <2>3, <2>4, <2>5
  <2> QED
    BY <2>6 DEF BooksBalance, Runs, RunsOf
<1> QED
  BY <1>1, Invariant, PTL

\* The gauge covers the running handlers and never exceeds the number of workers, at
\* every moment it can be read (broker/instrumentation.go:24-25).
THEOREM GaugeBounds == RoutesSpec => []GaugeCountsHandlers
PROOF
<1>1. RoutesInv => GaugeCountsHandlers
  <2> SUFFICES ASSUME RoutesInv PROVE GaugeCountsHandlers
    OBVIOUS
  <2>1. inflight = Cardinality(InHandler)
    BY DEF RoutesInv, CoreInv, Books
  <2>2. IsFiniteSet(InHandler) /\ Cardinality(InHandler) <= Cardinality(Workers)
    BY WorkersAssumption, FS_Subset DEF InHandler
  <2>3. Cardinality({w \in Workers : pc[w] = "handler"}) <= Cardinality(InHandler)
    BY <2>2, FS_Subset DEF InHandler
  <2> QED
    BY <2>1, <2>2, <2>3 DEF GaugeCountsHandlers
<1> QED
  BY <1>1, Invariant, PTL

\* Whatever the workers do between the readings of a scrape, in either order of the
\* counters, the results it has read and reads are among the durations observed by
\* then (broker/instrumentation.go:29-36).
THEOREM ScrapeAgrees == RoutesSpec => []ScrapeConsistent
PROOF
<1>1. RoutesInv => ScrapeConsistent
  <2> SUFFICES ASSUME RoutesInv PROVE ScrapeConsistent
    OBVIOUS
  <2>1. /\ ReadBefore /\ requestsTotal \in Nat /\ errorsTotal \in Nat
        /\ duration = requestsTotal + errorsTotal + Cardinality(InCount)
        /\ seen["requestsTotal"] \subseteq Nat /\ seen["errorsTotal"] \subseteq Nat
    BY DEF RoutesInv, CoreInv, TypeOK, Books, Counters
  <2>2. Cardinality(InCount) \in Nat
    BY WorkersAssumption, FS_Subset, FS_CardinalityType DEF InCount
  <2> QED
    BY <2>1, <2>2 DEF ReadBefore, ScrapeConsistent
<1> QED
  BY <1>1, Invariant, PTL

\* No message is handled twice by the members of a queue group.
THEOREM QueueIsShared == RoutesSpec => []QueueSharesWork
PROOF
<1>1. RoutesInv => QueueSharesWork
  <2> SUFFICES ASSUME RoutesInv, routeType = "Queue", NEW r \in runs, NEW s \in runs,
                      r[1] = s[1]
               PROVE  r = s
    BY DEF QueueSharesWork
  <2>1. runs \subseteq Msgs \X Workers \X Results
    BY DEF RoutesInv, CoreInv, TypeOK
  <2>2. PICK m \in Msgs, v \in Workers, a \in Results : r = <<m, v, a>>
    BY <2>1
  <2>3. PICK n \in Msgs, w \in Workers, b \in Results : s = <<n, w, b>>
    BY <2>1
  <2>4. m = n /\ Shared(m)
    BY <2>2, <2>3 DEF RoutesInv, CoreInv, Sharing
  <2> QED
    BY <2>2, <2>3, <2>4 DEF Shared
<1> QED
  BY <1>1, Invariant, PTL

\* What New accepts can be started, with exactly the exception of a JetStream route
\* whose delivery policy needs a start (router/route.go:85-119, types.go:38-44).
THEOREM AcceptedStarts == RoutesSpec => []OnlyPolicyPreventsStart
PROOF
<1>1. RoutesInv => OnlyPolicyPreventsStart
  <2> SUFFICES ASSUME RoutesInv, made = {"nil"}
               PROVE  Maker!Startable(type, cfg) <=>
                        ~(type = "JetStream" /\ given.deliveryPolicy \in Maker!NeedsStart)
    BY DEF OnlyPolicyPreventsStart, Maker!OnlyPolicyPreventsStart
  <2>0. NewInv /\ type \in Maker!Types
    BY DEF RoutesInv, NewInv
  <2>1. CASE started
    <3>1. type \in {"PubSub", "Queue"} /\ Maker!Complete(type, cfg)
      BY <2>0, <2>1 DEF NewInv
    <3>2. Maker!Handed(type) # {}
      BY <3>1 DEF Maker!Handed
    <3> QED
      BY <3>1, <3>2 DEF Maker!Startable
  <2>2. CASE ~started
    <3>1. /\ Maker!Validate(type, given) = "nil" /\ given \in Configs
          /\ cfg = IF type = "JetStream" THEN Maker!Defaults(given) ELSE given
      BY <2>0, <2>2 DEF NewInv
    <3>2. Maker!Handed(type) # {} /\ Maker!Complete(type, given)
      BY <2>0, <3>1, ValidateFacts
    <3>3. Maker!Complete(type, cfg)
      BY <3>1, <3>2, DefaultsFacts DEF Maker!Complete
    <3>4. CASE type = "JetStream"
      <4>1. /\ cfg.maxDeliver # 0 /\ cfg.ackWait # 0
            /\ cfg.deliveryPolicy = given.deliveryPolicy
        BY <3>1, <3>4, DefaultsFacts
      <4> QED
        BY <3>2, <3>3, <3>4, <4>1 DEF Maker!Startable
    <3>5. CASE type # "JetStream"
      BY <3>2, <3>3, <3>5 DEF Maker!Startable
    <3> QED
      BY <3>4, <3>5
  <2> QED
    BY <2>1, <2>2
<1> QED
  BY <1>1, Invariant, PTL

\* New refuses only what Start could not run.
THEOREM RefusedCannotStart == RoutesSpec => []StartableAccepted
PROOF
<1>1. RoutesInv => StartableAccepted
  <2> SUFFICES ASSUME RoutesInv, made # {}, Maker!Handed(type) # {},
                      Maker!Complete(type, given)
               PROVE  made = {"nil"}
    BY DEF StartableAccepted, Maker!StartableAccepted
  <2>0. NewInv /\ type \in Maker!Types
    BY DEF RoutesInv, NewInv
  <2>1. CASE started
    BY <2>0, <2>1 DEF NewInv
  <2>2. CASE ~started
    BY <2>0, <2>2, ValidateFacts DEF NewInv
  <2> QED
    BY <2>1, <2>2
<1> QED
  BY <1>1, Invariant, PTL

=============================================================================
