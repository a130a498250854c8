---------------------------- MODULE ProgramProofs ----------------------------
(***************************************************************************)
(* Proofs about Program, for every N, MaxDeliver and number of runs and    *)
(* for all the programs of examples/.  What main still has to do is a rest *)
(* of its list of steps (Planned); the messages it has not come to are     *)
(* unsent (Fresh); the server only holds messages with a delivery left     *)
(* (Budget).  In a run without faults the wait group counts  *)
(* what has not been handled of the messages it was set up for (Counting), *)
(* and a request that has returned was handled (Answering).                *)
(***************************************************************************)
EXTENDS Program, FiniteSetTheorems, SequenceTheorems, TLAPS

-----------------------------------------------------------------------------
(* The inductive invariant *)

\* Between two runs nothing of the process is left.
Process ==
  /\ up => run > 0
  /\ ~up => /\ todo = <<>> /\ sent = 0 /\ asking = {} /\ conn = "none" /\ active = 0
            /\ copies = {} /\ handled = {} /\ ~smooth
            /\ In("held") = {} /\ In("acking") = {}

\* What is left of the steps: they are steps of the program, its publishes are one
\* step, and its last step is still there.
Planned ==
  /\ \A i \in 1..Len(todo) :
       todo[i] \in {"connect", "parked"} \union {prog.steps[j] : j \in 1..Len(prog.steps)}
  /\ \A i \in 1..Len(todo) : todo[i] = "publish" =>
       /\ sent < prog.messages
       /\ \A j \in 1..Len(todo) : todo[j] = "publish" => j = i
  /\ prog.add > 0 /\ todo # <<>> => todo[Len(todo)] \in {"wait", "parked"}
  /\ prog.callers > 0 /\ todo # <<>> => todo[Len(todo)] = "request"

\* What the program has not published or requested yet is nowhere.
Fresh ==
  prog.messages > 0 => \A m \in Msgs :
    m[1] > run \/ (todo # <<>> /\ m[1] = run /\ m[2] > sent) =>
      msg[m] = "unsent" /\ dc[m] = 0

\* A message the server may deliver has a delivery left, and one that nobody has
\* published yet has all of them.
Budget ==
  \A m \in Msgs : /\ msg[m] = "out" => dc[m] < MaxDeliver
                  /\ msg[m] = "unsent" => dc[m] = 0

Kept(m) == msg[m] \notin {"unsent", "gone"}

\* In a run without faults only this run's messages are about; one that the handler,
\* or the subscription to the DLQ subject, is done with does not come back.
Clean ==
  /\ \A m \in Msgs : m[1] = run \/ msg[m] \in {"unsent", "done", "exhausted", "gone"}
  /\ \A m \in handled \union copies : m[1] = run /\ msg[m] \in {"acking", "done"}
  /\ handled \intersect copies = {}
  /\ copies # {} => prog.handler = "fails"

\* The messages the wait group was set up for.
Awaited == {m \in Msgs : m[1] = run /\ m[2] <= prog.add}

\* The wait group counts those that have not been handled.
Counting ==
  /\ \A m \in Msgs : m[1] = run /\ Kept(m) => m \in Awaited
  /\ group \in Nat /\ Cardinality(handled) + group = prog.add
  /\ todo = <<>> => group = 0
  /\ prog.ids = "constant" /\ sent > 0 => 0 \in window

\* A request is asked until it is handled.
Answering ==
  /\ \A m \in Msgs : m[1] = run /\ Kept(m) => m \in asking \/ m \in handled
  /\ \A m \in Msgs : m[1] = run => msg[m] # "acking"
  /\ \A m \in Msgs : m[1] = run /\ msg[m] = "done" => m \in handled
  /\ todo = <<>> => asking = {}

Smooth ==
  smooth /\ prog.add + prog.callers > 0 =>
    /\ Clean
    /\ prog.add > 0 => Counting
    /\ prog.callers > 0 => Answering

IInv == TypeOK /\ Process /\ Planned /\ Fresh /\ Budget /\ Smooth

-----------------------------------------------------------------------------
(* The programs *)

\* A list of steps as the examples have them: no step of the runtime, one publish at
\* most, and at the end the step that waits for what the program counts or asks.
StepsFit(steps, p) ==
  /\ steps \in Seq(Steps)
  /\ \A i \in 1..Len(steps) : steps[i] \notin {"connect", "parked"}
  /\ \A i \in 1..Len(steps) : steps[i] = "publish" =>
       p.messages > 0 /\ \A j \in 1..Len(steps) : steps[j] = "publish" => j = i
  /\ p.add > 0 => Len(steps) > 0 /\ steps[Len(steps)] = "wait"
                  /\ \A i \in 1..Len(steps) : steps[i] # "request"
  /\ p.callers > 0 => Len(steps) > 0 /\ steps[Len(steps)] = "request"
                      /\ \A i \in 1..Len(steps) : steps[i] # "publish"

\* The numbers of a program, and what it counts or asks.
NumbersFit(p) ==
  /\ p.consumers \in 0..2 /\ p.messages \in 0..N /\ p.add \in 0..N /\ p.callers \in 0..2
  /\ p.ids \in {"none", "constant", "counter"}
  /\ p.add > 0 => /\ p.messages > 0 /\ p.callers = 0
                  /\ \/ p.ids = "constant" /\ p.add = 1
                     \/ p.ids = "none" /\ p.add = p.messages
  /\ p.callers > 0 => p.messages > 0 /\ p.add = 0 /\ p.route = "core" /\ p.handler = "ok"
  /\ p.handler = "fails" => p.messages > 0

LEMMA ProgramsFit ==
  ASSUME NEW p \in AllPrograms
  PROVE  NumbersFit(p) /\ StepsFit(p.steps, p)
PROOF
<1>0. N \in Nat /\ N > 1
  BY BoundsAssumption
<1>1. CASE p = Durable
  BY <1>0, <1>1 DEF NumbersFit, StepsFit, Steps, Durable
<1>2. CASE p = Replay
  BY <1>0, <1>2 DEF NumbersFit, StepsFit, Steps, Replay, Durable
<1>3. CASE p = Deduplication
  BY <1>0, <1>3 DEF NumbersFit, StepsFit, Steps, Deduplication, Replay, Durable
<1>4. CASE p = DLQ
  BY <1>0, <1>4 DEF NumbersFit, StepsFit, Steps, DLQ, Durable
<1>5. CASE p = Queue
  BY <1>0, <1>5 DEF NumbersFit, StepsFit, Steps, Queue, Durable
<1>6. CASE p = PubSub
  BY <1>0, <1>6 DEF NumbersFit, StepsFit, Steps, PubSub, Durable
<1>7. CASE p = InfiniteConsumer
  BY <1>0, <1>7 DEF NumbersFit, StepsFit, Steps, InfiniteConsumer, Durable
<1>8. CASE p = BrokerService
  BY <1>0, <1>8 DEF NumbersFit, StepsFit, Steps, BrokerService, InfiniteConsumer, Durable
<1>9. CASE p = TypedBroker
  BY <1>0, <1>9 DEF NumbersFit, StepsFit, Steps, TypedBroker, BrokerService, InfiniteConsumer, Durable
<1>10. CASE p = CoreProducer
  BY <1>0, <1>10 DEF NumbersFit, StepsFit, Steps, CoreProducer, PubSub, Durable
<1>11. CASE p = JetStreamProducer
  BY <1>0, <1>11 DEF NumbersFit, StepsFit, Steps, JetStreamProducer, CoreProducer, PubSub, Durable
<1>12. CASE p = BrokerProducer
  BY <1>0, <1>12 DEF NumbersFit, StepsFit, Steps, BrokerProducer, JetStreamProducer, CoreProducer, PubSub, Durable
<1>13. CASE p = RequestAndReply
  BY <1>0, <1>13 DEF NumbersFit, StepsFit, Steps, RequestAndReply, PubSub, Durable
<1>14. CASE p = TypedRequestAndReply
  BY <1>0, <1>14 DEF NumbersFit, StepsFit, Steps, TypedRequestAndReply, RequestAndReply, PubSub, Durable
<1>15. CASE p = RequestService
  BY <1>0, <1>15 DEF NumbersFit, StepsFit, Steps, RequestService, InfiniteConsumer, Durable
<1>16. CASE p = RequestPool
  BY <1>0, <1>16 DEF NumbersFit, StepsFit, Steps, RequestPool, RequestAndReply, PubSub, Durable
<1> QED
  BY <1>1, <1>2, <1>3, <1>4, <1>5, <1>6, <1>7, <1>8, <1>9, <1>10, <1>11, <1>12, <1>13, <1>14, <1>15, <1>16 DEF AllPrograms

-----------------------------------------------------------------------------
(* Lists of steps *)

LEMMA TailFacts ==
  ASSUME NEW s \in Seq(Steps), s # <<>>
  PROVE  /\ Len(s) \in Nat /\ Len(s) > 0 /\ Head(s) = s[1]
         /\ Tail(s) \in Seq(Steps) /\ Len(Tail(s)) = Len(s) - 1
         /\ \A i \in 1..Len(Tail(s)) : i + 1 \in 1..Len(s) /\ Tail(s)[i] = s[i + 1]
         /\ Tail(s) = <<>> <=> Len(s) = 1
PROOF
<1>1. Len(s) \in Nat /\ Len(s) > 0
  BY EmptySeq
<1>2. Tail(s) \in Seq(Steps) /\ Len(Tail(s)) = Len(s) - 1
  BY HeadTailProperties
<1>3. \A i \in 1..Len(Tail(s)) : i + 1 \in 1..Len(s) /\ Tail(s)[i] = s[i + 1]
  BY <1>1, <1>2, HeadTailProperties
<1>4. Tail(s) = <<>> <=> Len(Tail(s)) = 0
  BY <1>2, EmptySeq
<1> QED
  BY <1>1, <1>2, <1>3, <1>4

\* A step in front of the others.
LEMMA ConsFacts ==
  ASSUME NEW s \in Seq(Steps), NEW x \in Steps
  PROVE  /\ <<x>> \o s \in Seq(Steps) /\ Len(<<x>> \o s) = Len(s) + 1 /\ Len(s) \in Nat
         /\ (<<x>> \o s)[1] = x
         /\ \A i \in 1..Len(s) : (<<x>> \o s)[i + 1] = s[i]
PROOF
<1>1. <<x>> \in Seq(Steps) /\ Len(<<x>>) = 1 /\ <<x>>[1] = x
  OBVIOUS
<1> QED
  BY <1>1, ConcatProperties, LenProperties

\* What the steps left over can become: the same, the rest of them, none, or parked.
Goes ==
  \/ todo' = todo
  \/ todo' = <<>>
  \/ todo # <<>> /\ todo' = Tail(todo)
  \/ todo # <<>> /\ Head(todo) = "wait" /\ todo' = <<"parked">> \o Tail(todo)

LEMMA GoesType == TypeOK /\ Goes => todo' \in Seq(Steps)
PROOF
<1> SUFFICES ASSUME TypeOK, Goes PROVE todo' \in Seq(Steps)
  OBVIOUS
<1>1. todo \in Seq(Steps) /\ "parked" \in Steps /\ <<>> \in Seq(Steps)
  BY DEF TypeOK, Steps
<1>2. CASE todo # <<>> /\ todo' = Tail(todo)
  BY <1>1, <1>2, TailFacts
<1>3. CASE todo # <<>> /\ todo' = <<"parked">> \o Tail(todo)
  <2>1. Tail(todo) \in Seq(Steps)
    BY <1>1, <1>3, TailFacts
  <2> QED
    BY <1>1, <1>3, <2>1, ConsFacts
<1> QED
  BY <1>1, <1>2, <1>3 DEF Goes

-----------------------------------------------------------------------------
(* What is known of the program, its messages and its next publish *)

LEMMA Known ==
  ASSUME TypeOK
  PROVE  /\ NumbersFit(prog) /\ StepsFit(prog.steps, prog)
         /\ N \in Nat /\ N > 1 /\ MaxDeliver \in Nat /\ MaxDeliver > 0
         /\ MaxRuns \in Nat /\ MaxDrops \in Nat
         /\ run \in Nat /\ sent \in Nat /\ sent <= N /\ group \in Int
         /\ IsFiniteSet(Msgs) /\ IsFiniteSet(asking)
PROOF
<1>1. prog \in AllPrograms
  BY ProgramsAssumption DEF TypeOK
<1>2. /\ N \in Nat /\ N > 1 /\ MaxDeliver \in Nat /\ MaxDeliver > 0
      /\ MaxRuns \in Nat /\ MaxDrops \in Nat
  BY BoundsAssumption
<1>3. IsFiniteSet(Msgs)
  <2>1. IsFiniteSet(1..MaxRuns) /\ IsFiniteSet(1..N)
    BY <1>2, FS_Interval
  <2> QED
    BY <2>1, FS_Product DEF Msgs, Runs
<1>4. asking \subseteq Msgs
  BY DEF TypeOK
<1>5. run \in Nat /\ sent \in Nat /\ sent <= N /\ group \in Int
  BY <1>2 DEF TypeOK
<1> QED
  BY <1>1, <1>2, <1>3, <1>4, <1>5, ProgramsFit, FS_Subset

LEMMA NextMessage ==
  ASSUME TypeOK, Process, up, sent < prog.messages
  PROVE  /\ Current \in Msgs /\ Current = <<run, sent + 1>>
         /\ sent + 1 \in 0..N /\ ID \subseteq IDs
         /\ prog.messages > 0
PROOF
<1>1. /\ run \in Nat /\ run > 0 /\ run \in 1..MaxRuns
      /\ sent \in Nat /\ sent + 1 \in 1..N /\ prog.messages \in 0..N
  BY Known DEF TypeOK, Process, NumbersFit
<1>2. Current \in Msgs /\ Current = <<run, sent + 1>>
  BY <1>1 DEF Current, Msgs, Runs
<1>3. ID \subseteq IDs
  BY <1>1, Known DEF ID, IDs, NumbersFit
<1> QED
  BY <1>1, <1>2, <1>3, Known

LEMMA AtPublish ==
  ASSUME TypeOK, Planned, At("publish")
  PROVE  /\ up /\ todo # <<>> /\ todo[1] = "publish" /\ sent < prog.messages
         /\ \A i \in 1..Len(todo) : todo[i] = "publish" => i = 1
PROOF
<1>1. todo \in Seq(Steps) /\ todo # <<>> /\ Head(todo) = "publish"
  BY DEF At, TypeOK
<1>2. Len(todo) \in Nat /\ Len(todo) > 0 /\ todo[1] = "publish"
  BY <1>1, TailFacts
<1> QED
  BY <1>1, <1>2 DEF Planned, At

\* Only a program with requests makes one.
LEMMA AtRequest ==
  ASSUME TypeOK, Request
  PROVE  up /\ todo # <<>> /\ sent < prog.messages /\ prog.callers > 0
PROOF
<1>1. Cardinality(asking) \in Nat
  BY Known, FS_CardinalityType
<1>2. prog.callers \in 0..2
  BY Known DEF NumbersFit
<1> QED
  BY <1>1, <1>2 DEF Request, At

-----------------------------------------------------------------------------
(* Types *)

LEMMA TypeInit == Init => TypeOK
PROOF
<1> SUFFICES ASSUME Init PROVE TypeOK
  OBVIOUS
<1>1. /\ N \in Nat /\ MaxRuns \in Nat /\ MaxDrops \in Nat /\ MaxDeliver \in Nat
  BY BoundsAssumption
<1>2. todo \in Seq(Steps)
  BY DEF Init
<1>3. /\ run \in 0..MaxRuns /\ sent \in 0..N /\ group \in -1..N /\ drops \in 0..MaxDrops
      /\ active \in 0..2
  BY <1>1 DEF Init
<1>4. /\ msg \in [Msgs -> MsgStates] /\ dc \in [Msgs -> 0..MaxDeliver]
  BY <1>1 DEF Init, MsgStates
<1> QED
  BY <1>2, <1>3, <1>4 DEF Init, TypeOK

\* What Move does to one message.
LEMMA MoveType ==
  ASSUME TypeOK, NEW ms, NEW s \in MsgStates, Move(ms, s)
  PROVE  /\ msg' \in [Msgs -> MsgStates]
         /\ \A m \in Msgs : msg'[m] = IF m \in ms THEN s ELSE msg[m]
PROOF
  BY DEF Move, TypeOK

\* Where an action may move messages to.
LEMMA Places ==
  /\ \A s \in {"unsent", "out", "held", "acking", "pending", "done", "exhausted", "gone"} :
       s \in MsgStates
  /\ Abandoned \in {"pending", "gone"} /\ Stored \in {"out", "gone"}
PROOF
  BY DEF MsgStates, Abandoned, Stored

LEMMA TypeBegin == TypeOK /\ Begin => TypeOK'
PROOF
<1> SUFFICES ASSUME TypeOK, Begin PROVE TypeOK'
  OBVIOUS
<1>1. todo' \in Seq(Steps)
  <2>1. prog.steps \in Seq(Steps) /\ "connect" \in Steps
    BY Known DEF StepsFit, Steps
  <2>2. todo' = <<"connect">> \o prog.steps
    BY DEF Begin
  <2> QED
    BY <2>1, <2>2, ConsFacts
<1>2. run' \in 0..MaxRuns /\ group' \in -1..N
  BY Known DEF Begin, NumbersFit
<1>3. window' \subseteq IDs /\ smooth' \in BOOLEAN /\ up' \in BOOLEAN
  BY DEF Begin, TypeOK
<1> QED
  BY <1>1, <1>2, <1>3 DEF Begin, TypeOK, connVars

LEMMA TypeStart == TypeOK /\ Start => TypeOK'
PROOF
<1> SUFFICES ASSUME TypeOK, Start PROVE TypeOK'
  OBVIOUS
<1>1. Goes /\ active' \in 0..prog.consumers
  BY DEF Start, At, Step, Leave, Goes
<1>2. durable' \in BOOLEAN /\ smooth' \in BOOLEAN
  BY DEF Start, TypeOK
<1>3. msg' \in [Msgs -> MsgStates]
  BY MoveType, Places DEF Start, TypeOK
<1>4. active' \in 0..2
  BY <1>1, Known DEF NumbersFit
<1> QED
  BY <1>1, <1>2, <1>3, <1>4, GoesType DEF Start, TypeOK, connVars

LEMMA TypePublish ==
  ASSUME TypeOK, Process, Planned, Publish \/ PublishFails
  PROVE  TypeOK'
PROOF
<1>1. At("publish") /\ sent < prog.messages /\ up
  BY AtPublish DEF Publish, PublishFails
<1>2. Current \in Msgs /\ sent + 1 \in 0..N /\ ID \subseteq IDs
  BY <1>1, NextMessage
<1>3. Goes
  BY DEF Publish, PublishFails, PublishNext, Step, Leave, Goes, At
<1>4. sent' \in 0..N
  BY <1>2 DEF Publish, PublishFails, PublishNext, TypeOK
<1>5. window' \subseteq IDs
  BY <1>2 DEF Publish, PublishFails, TypeOK
<1>6. msg' \in [Msgs -> MsgStates]
  BY MoveType, Places DEF Publish, PublishFails
<1>7. smooth' \in BOOLEAN
  BY DEF Publish, PublishFails, TypeOK
<1> QED
  BY <1>3, <1>4, <1>5, <1>6, <1>7, GoesType DEF Publish, PublishFails, TypeOK, connVars

LEMMA TypeRequest ==
  ASSUME TypeOK, Process, Request
  PROVE  TypeOK'
PROOF
<1>1. Current \in Msgs /\ sent + 1 \in 0..N
  BY AtRequest, NextMessage
<1>2. asking' \subseteq Msgs /\ sent' \in 0..N
  BY <1>1 DEF Request, TypeOK
<1>3. msg' \in [Msgs -> MsgStates]
  BY MoveType, Places DEF Request
<1> QED
  BY <1>2, <1>3 DEF Request, TypeOK, connVars, srvVars

\* The other steps of main, its callers, and the end of the context.
LEMMA TypeMain ==
  ASSUME TypeOK,
         \/ Connect \/ Wait \/ Pass \/ ContextEnds
         \/ \E m \in Msgs : Caller(m)
  PROVE  TypeOK'
PROOF
<1>1. CASE Connect
  <2>1. Goes
    BY <1>1 DEF Connect, At, Step, Leave, Goes
  <2> QED
    BY <1>1, <2>1, GoesType DEF Connect, TypeOK, srvVars, msgVars
<1>2. CASE Wait
  <2>1. Goes
    BY <1>2 DEF Wait, At, Goes
  <2> QED
    BY <1>2, <2>1, GoesType DEF Wait, TypeOK, connVars, srvVars, msgVars
<1>3. CASE Pass
  <2>1. Goes
    BY <1>3 DEF Pass, At, Step, Goes
  <2> QED
    BY <1>3, <2>1, GoesType DEF Pass, TypeOK, connVars, srvVars, msgVars
<1>4. CASE ContextEnds
  BY <1>4 DEF ContextEnds, TypeOK, connVars, srvVars, msgVars
<1>5. ASSUME NEW m \in Msgs, Caller(m) PROVE TypeOK'
  <2>1. Goes
    BY <1>5 DEF Caller, Replied, RequestFails, Leave, Goes
  <2> QED
    BY <1>5, <2>1, GoesType DEF Caller, Replied, RequestFails, TypeOK, connVars, srvVars, msgVars
<1> QED
  BY <1>1, <1>2, <1>3, <1>4, <1>5

\* What End does to one message.
LEMMA EndedMessage ==
  ASSUME TypeOK, NEW lost, End(lost)
  PROVE  /\ msg' \in [Msgs -> MsgStates]
         /\ \A m \in Msgs : /\ msg'[m] \in {msg[m], "done", "pending", "gone"}
                            /\ msg'[m] \notin {"held", "acking"}
PROOF
<1>1. \A m \in Msgs :
        msg'[m] = CASE m \in lost \union In("held") -> Abandoned
                    [] msg[m] = "acking" /\ m \notin lost -> "done"
                    [] msg[m] = "out" /\ ~JetStream -> "gone"
                    [] OTHER -> msg[m]
  BY DEF End
<1>2. ASSUME NEW m \in Msgs
      PROVE  /\ msg'[m] \in {msg[m], "done", "pending", "gone"}
             /\ msg'[m] \notin {"held", "acking"} /\ msg'[m] \in MsgStates
  <2>1. msg[m] \in MsgStates
    BY DEF TypeOK
  <2>2. Abandoned \in {"pending", "gone"}
    BY Places
  <2>3. msg[m] = "held" => m \in In("held")
    BY DEF In
  <2> QED
    BY <1>1, <2>1, <2>2, <2>3 DEF MsgStates
<1>3. msg' = [m \in Msgs |-> msg'[m]]
  BY DEF End
<1> QED
  BY <1>2, <1>3

LEMMA TypeEnd ==
  ASSUME TypeOK, NEW lost, End(lost)
  PROVE  TypeOK'
PROOF
<1>1. todo' \in Seq(Steps)
  BY DEF End
<1>2. sent' \in 0..N /\ group' \in -1..N /\ active' \in 0..2
  BY Known DEF End
<1>3. msg' \in [Msgs -> MsgStates]
  BY EndedMessage
<1> QED
  BY <1>1, <1>2, <1>3 DEF End, TypeOK, srvVars

LEMMA TypeConnection ==
  ASSUME TypeOK, DrainOnCancel \/ Drop \/ Reconnect \/ GiveUp
  PROVE  TypeOK'
PROOF
<1>1. CASE DrainOnCancel
  <2>1. msg' \in [Msgs -> MsgStates]
    BY <1>1, MoveType, Places DEF DrainOnCancel
  <2> QED
    BY <1>1, <2>1, Known DEF DrainOnCancel, TypeOK, mainVars, connVars, srvVars
<1>2. CASE Drop
  <2>1. msg' \in [Msgs -> MsgStates]
    BY <1>2, MoveType, Places DEF Drop, MsgStates
  <2>2. drops' \in 0..MaxDrops
    BY <1>2, Known DEF Drop, TypeOK
  <2> QED
    BY <1>2, <2>1, <2>2 DEF Drop, TypeOK, mainVars, srvVars
<1>3. CASE Reconnect
  BY <1>3 DEF Reconnect, TypeOK, mainVars, srvVars, msgVars
<1>4. CASE GiveUp
  BY <1>4 DEF GiveUp, TypeOK, mainVars, srvVars, msgVars
<1> QED
  BY <1>1, <1>2, <1>3, <1>4

\* wg.Done takes one from the counter, or leaves it below zero.
LEMMA DoneFacts ==
  ASSUME TypeOK, Done
  PROVE  Goes /\ group' \in -1..N
PROOF
<1>1. Goes
  BY DEF Done, At, Step, Goes
<1>2. N \in Nat /\ group \in -1..N /\ group' = IF group < 0 THEN group ELSE group - 1
  BY Known DEF Done, TypeOK
<1>3. group' \in -1..N
  BY <1>2
<1> QED
  BY <1>1, <1>3

\* The delivery counts stay within the limit: the server delivers what has a
\* delivery left.
LEMMA TypeDeliver ==
  ASSUME TypeOK, Budget, NEW m \in Msgs, Deliver(m)
  PROVE  TypeOK'
PROOF
<1>1. msg' \in [Msgs -> MsgStates]
  BY MoveType, Places DEF Deliver
<1>2. MaxDeliver \in Nat /\ dc[m] \in 0..MaxDeliver /\ dc[m] < MaxDeliver
  BY Known DEF TypeOK, Deliver, Budget
<1>3. dc' = [dc EXCEPT ![m] = IF JetStream THEN dc[m] + 1 ELSE dc[m]]
  BY DEF Deliver
<1>4. (IF JetStream THEN dc[m] + 1 ELSE dc[m]) \in 0..MaxDeliver
  BY <1>2
<1>5. dc' \in [Msgs -> 0..MaxDeliver]
  BY <1>3, <1>4 DEF TypeOK
<1> QED
  BY <1>1, <1>5 DEF Deliver, TypeOK, mainVars, connVars, srvVars

\* The end of the process, one way or the other.
Ends == \E lost \in SUBSET In("acking") : End(lost)

\* A copy comes from the DLQ subject, and the wait group still counts it.
Received(m) ==
  /\ m \in copies /\ conn = "up"
  /\ group > 0 /\ Done
  /\ copies' = copies \ {m} /\ handled' = handled \union {m}
  /\ UNCHANGED <<prog, run, up, sent, asking, ctx, connVars, active, srvVars, msg, dc, smooth>>

\* Otherwise it ends the process.
LEMMA ReceivedOrEnds ==
  ASSUME NEW m, DLQReceived(m)
  PROVE  Received(m) \/ (copies # {} /\ Ends)
PROOF
  BY DEF DLQReceived, Received, Ends

LEMMA TypeCallback ==
  ASSUME TypeOK, NEW m \in Msgs,
         \/ AckWaitExpires(m) \/ HandlerReturns(m) \/ HandlerFails(m) \/ AckArrives(m)
         \/ Received(m) \/ OthersReply(m)
  PROVE  TypeOK'
PROOF
<1>1. CASE AckWaitExpires(m)
  <2>1. msg' \in [Msgs -> MsgStates]
    BY <1>1, MoveType, Places DEF AckWaitExpires
  <2> QED
    BY <1>1, <2>1 DEF AckWaitExpires, TypeOK, mainVars, connVars, srvVars
<1>2. CASE HandlerReturns(m)
  <2>1. msg' \in [Msgs -> MsgStates]
    BY <1>2, MoveType, Places DEF HandlerReturns, MsgStates
  <2>2. Goes /\ group' \in -1..N
    BY <1>2, DoneFacts DEF HandlerReturns, Goes, TypeOK
  <2>3. handled' \subseteq Msgs
    BY <1>2 DEF HandlerReturns, TypeOK
  <2> QED
    BY <1>2, <2>1, <2>2, <2>3, GoesType DEF HandlerReturns, TypeOK, connVars, srvVars
<1>3. CASE HandlerFails(m)
  <2>1. msg' \in [Msgs -> MsgStates]
    BY <1>3, MoveType, Places DEF HandlerFails
  <2>2. copies' \subseteq Msgs
    BY <1>3 DEF HandlerFails, TypeOK
  <2> QED
    BY <1>3, <2>1, <2>2 DEF HandlerFails, TypeOK, mainVars, connVars, srvVars
<1>4. CASE AckArrives(m)
  <2>1. msg' \in [Msgs -> MsgStates]
    BY <1>4, MoveType, Places DEF AckArrives
  <2> QED
    BY <1>4, <2>1 DEF AckArrives, TypeOK, mainVars, connVars, srvVars
<1>5. CASE Received(m)
  <2>1. Goes /\ group' \in -1..N
    BY <1>5, DoneFacts DEF Received
  <2>2. handled' \subseteq Msgs /\ copies' \subseteq Msgs
    BY <1>5 DEF Received, TypeOK
  <2> QED
    BY <1>5, <2>1, <2>2, GoesType DEF Received, TypeOK, connVars, srvVars
<1>6. CASE OthersReply(m)
  <2>1. msg' \in [Msgs -> MsgStates] /\ handled' \subseteq Msgs
    BY <1>6, MoveType, Places DEF OthersReply, TypeOK
  <2> QED
    BY <1>6, <2>1 DEF OthersReply, TypeOK, mainVars, connVars, srvVars
<1> QED
  BY <1>1, <1>2, <1>3, <1>4, <1>5, <1>6

LEMMA TypeOthers ==
  ASSUME TypeOK, NEW i \in 1..N, OthersPublish(i)
  PROVE  TypeOK'
PROOF
<1>1. msg' \in [Msgs -> MsgStates]
  BY MoveType, Places DEF OthersPublish
<1> QED
  BY <1>1 DEF OthersPublish, TypeOK, mainVars, connVars, srvVars

\* The actions, as the proofs go through them.
LEMMA NextCases ==
  ASSUME [Next]_vars
  PROVE  \/ Begin \/ Start \/ Publish \/ PublishFails \/ Request
         \/ Connect \/ Wait \/ Pass \/ ContextEnds \/ ((up \/ copies # {}) /\ Ends)
         \/ DrainOnCancel \/ Drop \/ Reconnect \/ GiveUp
         \/ \E i \in 1..N : OthersPublish(i)
         \/ \E m \in Msgs :
              \/ Deliver(m) \/ AckWaitExpires(m) \/ HandlerReturns(m) \/ HandlerFails(m)
              \/ AckArrives(m) \/ Received(m) \/ Caller(m) \/ OthersReply(m)
         \/ UNCHANGED vars
PROOF
<1>1. Exit \/ Killed => up /\ Ends
  BY DEF Exit, Killed, Ends
<1>2. \A m \in Msgs : DLQReceived(m) => Received(m) \/ (copies # {} /\ Ends)
  BY ReceivedOrEnds
<1> QED
  BY <1>1, <1>2, Zenon DEF Next, Main, Callback, Finished

LEMMA TypeNext == TypeOK /\ Process /\ Planned /\ Budget /\ [Next]_vars => TypeOK'
PROOF
<1> SUFFICES ASSUME TypeOK, Process, Planned, Budget, [Next]_vars PROVE TypeOK'
  OBVIOUS
<1>1. CASE UNCHANGED vars
  BY <1>1 DEF TypeOK, vars, mainVars, connVars, srvVars, msgVars
<1>2. CASE Ends
  BY <1>2, TypeEnd DEF Ends
<1> QED
  BY <1>1, <1>2, NextCases, TypeBegin, TypeStart, TypePublish, TypeRequest, TypeMain,
     TypeConnection, TypeDeliver, TypeCallback, TypeOthers

-----------------------------------------------------------------------------
(* Between two runs *)

\* While the process is down only the server and others do something.
LEMMA DownCases ==
  ASSUME TypeOK, Process, ~up, [Next]_vars
  PROVE  \/ Begin
         \/ \E i \in 1..N : OthersPublish(i)
         \/ \E m \in Msgs : AckWaitExpires(m)
         \/ UNCHANGED vars
PROOF
<1>1. /\ asking = {} /\ conn = "none" /\ active = 0 /\ copies = {}
      /\ \A m \in Msgs : msg[m] # "held" /\ msg[m] # "acking"
  BY DEF Process, In
<1>2. /\ ~Start /\ ~Publish /\ ~PublishFails /\ ~Request /\ ~Connect /\ ~Wait /\ ~Pass
      /\ ~ContextEnds /\ ~DrainOnCancel /\ ~Drop /\ ~Reconnect /\ ~GiveUp
  BY <1>1 DEF Start, Publish, PublishFails, Request, Connect, Wait, Pass, At, ContextEnds,
              DrainOnCancel, Drop, Reconnect, GiveUp
<1>3. \A m \in Msgs : /\ ~Deliver(m) /\ ~HandlerReturns(m) /\ ~HandlerFails(m)
                      /\ ~AckArrives(m) /\ ~Received(m) /\ ~Caller(m) /\ ~OthersReply(m)
  BY <1>1 DEF Deliver, HandlerReturns, HandlerFails, AckArrives, Received, Caller, Replied,
              RequestFails, OthersReply
<1>4. ~((up \/ copies # {}) /\ Ends)
  BY <1>1
<1> QED
  BY <1>2, <1>3, <1>4, NextCases

\* And while it is up it stays up in its run, or ends.
LEMMA UpCases ==
  ASSUME up, [Next]_vars
  PROVE  Ends \/ (up' = up /\ run' = run)
PROOF
<1>1. CASE Start \/ Publish \/ PublishFails \/ Request \/ Connect \/ Wait \/ Pass
  BY <1>1 DEF Start, Publish, PublishFails, Request, Connect, Wait, Pass
<1>2. CASE ContextEnds \/ DrainOnCancel \/ Drop \/ Reconnect \/ GiveUp \/ UNCHANGED vars
  BY <1>2 DEF ContextEnds, DrainOnCancel, Drop, Reconnect, GiveUp, mainVars, vars
<1>3. ASSUME NEW m \in Msgs,
             \/ Deliver(m) \/ AckWaitExpires(m) \/ HandlerReturns(m) \/ HandlerFails(m)
             \/ AckArrives(m) \/ Received(m) \/ Caller(m) \/ OthersReply(m)
      PROVE  up' = up /\ run' = run
  BY <1>3 DEF Deliver, AckWaitExpires, HandlerReturns, HandlerFails, AckArrives, Received,
              Caller, Replied, RequestFails, OthersReply, mainVars
<1>4. ASSUME NEW i \in 1..N, OthersPublish(i) PROVE up' = up /\ run' = run
  BY <1>4 DEF OthersPublish, mainVars
<1>5. ~Begin
  BY DEF Begin
<1> QED
  BY <1>1, <1>2, <1>3, <1>4, <1>5, NextCases

LEMMA EndProcess ==
  ASSUME TypeOK, NEW lost, End(lost)
  PROVE  Process'
PROOF
<1>1. \A m \in Msgs : msg'[m] # "held" /\ msg'[m] # "acking"
  BY EndedMessage
<1>2. In("held")' = {} /\ In("acking")' = {}
  BY <1>1 DEF In
<1> QED
  BY <1>2 DEF End, Process

LEMMA ProcessNext == TypeOK /\ Process /\ [Next]_vars => Process'
PROOF
<1> SUFFICES ASSUME TypeOK, Process, [Next]_vars PROVE Process'
  OBVIOUS
<1>1. CASE up
  <2>1. CASE Ends
    BY <2>1, EndProcess DEF Ends
  <2>2. CASE up' = up /\ run' = run
    BY <1>1, <2>2 DEF Process
  <2> QED
    BY <1>1, <2>1, <2>2, UpCases
<1>2. CASE ~up
  <2>1. CASE Begin
    <3>1. up' = TRUE /\ run' = run + 1 /\ run \in Nat
      BY <2>1, Known DEF Begin
    <3> QED
      BY <3>1 DEF Process
  <2>2. ASSUME NEW i \in 1..N, OthersPublish(i) PROVE Process'
    <3>1. \A m \in Msgs : msg'[m] \in {msg[m], "out", "gone"}
      BY <2>2, MoveType, Places DEF OthersPublish
    <3>2. In("held")' = {} /\ In("acking")' = {}
      BY <1>2, <3>1 DEF Process, In
    <3> QED
      BY <1>2, <2>2, <3>2 DEF OthersPublish, Process, mainVars, connVars
  <2>3. ASSUME NEW m \in Msgs, AckWaitExpires(m) PROVE Process'
    <3>1. \A n \in Msgs : msg'[n] \in {msg[n], "out", "exhausted"}
      BY <2>3, MoveType, Places DEF AckWaitExpires
    <3>2. In("held")' = {} /\ In("acking")' = {}
      BY <1>2, <3>1 DEF Process, In
    <3> QED
      BY <1>2, <2>3, <3>2 DEF AckWaitExpires, Process, mainVars, connVars
  <2>4. CASE UNCHANGED vars
    BY <2>4 DEF Process, In, vars, mainVars, connVars, msgVars
  <2> QED
    BY <1>2, <2>1, <2>2, <2>3, <2>4, DownCases
<1> QED
  BY <1>1, <1>2

-----------------------------------------------------------------------------
(* The steps main still has to take *)

\* The rest of a list that fits is one, and so is the list with its wait parked.
LEMMA PlannedRest ==
  ASSUME TypeOK, Planned, prog' = prog, Goes,
         todo' = todo => sent' = sent \/ sent' < prog.messages \/ prog.callers > 0,
         todo' # todo => sent' = sent \/ Head(todo) = "publish"
  PROVE  Planned'
PROOF
<1>0. todo \in Seq(Steps) /\ StepsFit(prog.steps, prog)
  BY Known DEF TypeOK
<1>1. CASE todo' = <<>>
  <2>1. Len(todo') = 0
    BY <1>1
  <2> QED
    BY <1>1, <2>1 DEF Planned
<1>2. CASE todo' = todo
  <2>1. prog.callers > 0 => \A i \in 1..Len(todo) : todo[i] # "publish"
    BY <1>0 DEF Planned, StepsFit
  <2> QED
    BY <1>2, <2>1 DEF Planned
<1>3. CASE todo # <<>> /\ todo' = Tail(todo) /\ todo' # <<>>
  <2>1. /\ Len(todo) \in Nat /\ Len(todo) > 1 /\ Head(todo) = todo[1]
        /\ Len(todo') = Len(todo) - 1
        /\ \A i \in 1..Len(todo') : i + 1 \in 1..Len(todo) /\ todo'[i] = todo[i + 1]
    BY <1>0, <1>3, TailFacts
  <2>2. todo'[Len(todo')] = todo[Len(todo)]
    BY <2>1
  <2>3. ASSUME NEW i \in 1..Len(todo'), todo'[i] = "publish"
        PROVE  /\ sent' < prog.messages
               /\ \A j \in 1..Len(todo') : todo'[j] = "publish" => j = i
    <3>1. /\ todo[i + 1] = "publish" /\ i + 1 \in 1..Len(todo) /\ sent < prog.messages
          /\ \A j \in 1..Len(todo) : todo[j] = "publish" => j = i + 1
      BY <2>1, <2>3 DEF Planned
    <3>2. todo' # todo /\ 1 \in 1..Len(todo) /\ 1 # i + 1
      BY <2>1
    <3>3. sent' = sent
      BY <2>1, <3>1, <3>2
    <3>4. ASSUME NEW j \in 1..Len(todo'), todo'[j] = "publish" PROVE j = i
      <4>1. j + 1 = i + 1
        BY <2>1, <3>1, <3>4
      <4> QED
        BY <4>1
    <3> QED
      BY <3>1, <3>3, <3>4
  <2>4. \A i \in 1..Len(todo') :
          todo'[i] \in {"connect", "parked"} \union {prog.steps[j] : j \in 1..Len(prog.steps)}
    BY <2>1 DEF Planned
  <2> QED
    BY <1>3, <2>2, <2>3, <2>4 DEF Planned
<1>4. CASE /\ todo # <<>> /\ Head(todo) = "wait"
           /\ todo' = <<"parked">> \o Tail(todo) /\ todo' # todo
  <2>1. /\ Len(todo) \in Nat /\ Len(todo) > 0 /\ Head(todo) = todo[1]
        /\ Tail(todo) \in Seq(Steps) /\ Len(Tail(todo)) = Len(todo) - 1
        /\ \A i \in 1..Len(Tail(todo)) : i + 1 \in 1..Len(todo) /\ Tail(todo)[i] = todo[i + 1]
    BY <1>0, <1>4, TailFacts
  <2>2. "parked" \in Steps
    BY DEF Steps
  <2>3. /\ Len(todo') = Len(todo) /\ todo'[1] = "parked"
        /\ \A i \in 1..Len(Tail(todo)) : todo'[i + 1] = Tail(todo)[i]
    BY <1>4, <2>1, <2>2, ConsFacts
  <2>4. \A i \in 1..Len(todo') : i = 1 \/ todo'[i] = todo[i]
    <3>1. ASSUME NEW i \in 1..Len(todo'), i # 1 PROVE todo'[i] = todo[i]
      <4>1. i - 1 \in 1..Len(Tail(todo)) /\ (i - 1) + 1 = i
        BY <2>1, <2>3, <3>1
      <4>2. todo'[(i - 1) + 1] = todo[(i - 1) + 1]
        BY <2>1, <2>3, <4>1
      <4> QED
        BY <4>1, <4>2
    <3> QED
      BY <3>1
  <2>5. Head(todo) = "wait" /\ sent' = sent
    BY <1>4
  <2>6. prog.callers > 0 => todo'[Len(todo')] = "request"
    <3>1. SUFFICES ASSUME prog.callers > 0 PROVE todo'[Len(todo')] = "request"
      OBVIOUS
    <3>2. todo[Len(todo)] = "request"
      BY <1>4, <3>1 DEF Planned
    <3>3. Len(todo) # 1
      BY <2>1, <2>5, <3>2
    <3> QED
      BY <2>1, <2>3, <2>4, <3>2, <3>3
  <2>7. prog.add > 0 => todo'[Len(todo')] \in {"wait", "parked"}
    BY <1>4, <2>1, <2>3, <2>4 DEF Planned
  <2>8. \A i \in 1..Len(todo') :
          todo'[i] \in {"connect", "parked"} \union {prog.steps[j] : j \in 1..Len(prog.steps)}
    BY <2>3, <2>4 DEF Planned
  <2>9. ASSUME NEW i \in 1..Len(todo'), todo'[i] = "publish"
        PROVE  /\ sent' < prog.messages
               /\ \A j \in 1..Len(todo') : todo'[j] = "publish" => j = i
    <3>1. /\ \A j \in 1..Len(todo') : todo'[j] = "publish" => j \in 1..Len(todo) /\ todo[j] = "publish"
      BY <2>3, <2>4
    <3> QED
      BY <2>5, <2>9, <3>1 DEF Planned
  <2> QED
    BY <2>6, <2>7, <2>8, <2>9 DEF Planned
<1> QED
  BY <1>1, <1>2, <1>3, <1>4 DEF Goes

LEMMA PlannedBegin ==
  ASSUME TypeOK, Process, Begin
  PROVE  Planned'
PROOF
<1>1. /\ sent' = sent /\ prog' = prog /\ todo' = <<"connect">> \o prog.steps
      /\ sent = 0 /\ StepsFit(prog.steps, prog) /\ NumbersFit(prog)
  BY Known DEF Begin, Process
<1>2. prog.steps \in Seq(Steps) /\ "connect" \in Steps
  BY <1>1 DEF StepsFit, Steps
<1>3. /\ Len(todo') = Len(prog.steps) + 1 /\ Len(prog.steps) \in Nat
      /\ todo'[1] = "connect"
      /\ \A i \in 1..Len(prog.steps) : todo'[i + 1] = prog.steps[i]
  BY <1>1, <1>2, ConsFacts
<1>4. ASSUME NEW i \in 1..Len(todo'), i # 1
      PROVE  \E k \in 1..Len(prog.steps) : i = k + 1 /\ todo'[i] = prog.steps[k]
  <2>1. i - 1 \in 1..Len(prog.steps) /\ i = (i - 1) + 1
    BY <1>3, <1>4
  <2>2. todo'[(i - 1) + 1] = prog.steps[i - 1]
    BY <1>3, <2>1
  <2> QED
    BY <2>1, <2>2
<1>5. \A i \in 1..Len(todo') :
        todo'[i] \in {"connect", "parked"} \union {prog.steps[j] : j \in 1..Len(prog.steps)}
  BY <1>3, <1>4
<1>6. ASSUME NEW i \in 1..Len(todo'), todo'[i] = "publish"
      PROVE  /\ sent' < prog.messages
             /\ \A j \in 1..Len(todo') : todo'[j] = "publish" => j = i
  <2>1. i # 1
    BY <1>3, <1>6
  <2>2. PICK k \in 1..Len(prog.steps) : i = k + 1 /\ prog.steps[k] = "publish"
    BY <1>4, <1>6, <2>1
  <2>3. ASSUME NEW j \in 1..Len(todo'), todo'[j] = "publish" PROVE j = i
    <3>1. j # 1
      BY <1>3, <2>3
    <3>2. PICK l \in 1..Len(prog.steps) : j = l + 1 /\ prog.steps[l] = "publish"
      BY <1>4, <2>3, <3>1
    <3> QED
      BY <1>1, <2>2, <3>2 DEF StepsFit
  <2>4. prog.messages > 0
    BY <1>1, <2>2 DEF StepsFit
  <2> QED
    BY <1>1, <2>3, <2>4
<1>7. Len(prog.steps) > 0 => todo'[Len(todo')] = prog.steps[Len(prog.steps)]
  BY <1>3
<1> QED
  BY <1>1, <1>5, <1>6, <1>7 DEF Planned, StepsFit

LEMMA PlannedPublish ==
  ASSUME TypeOK, Planned, Publish \/ PublishFails
  PROVE  Planned'
PROOF
<1>1. /\ todo \in Seq(Steps) /\ todo # <<>> /\ Head(todo) = "publish" /\ At("publish")
  BY DEF Publish, PublishFails, At, TypeOK
<1>2. Tail(todo) # todo
  <2>1. Len(Tail(todo)) = Len(todo) - 1 /\ Len(todo) \in Nat
    BY <1>1, TailFacts
  <2> QED
    BY <2>1
<1>3. sent < prog.messages /\ sent \in Nat /\ prog.messages \in Nat
  BY <1>1, AtPublish, Known DEF NumbersFit
<1>4. Goes /\ prog' = prog
  BY DEF Publish, PublishFails, PublishNext, Step, Leave, Goes, At
<1>5. todo' = todo => sent' < prog.messages
  <2>1. todo' = todo => sent' = sent + 1 /\ sent' # prog.messages
    BY <1>1, <1>2 DEF Publish, PublishFails, PublishNext, Step, Leave
  <2> QED
    BY <1>3, <2>1
<1> QED
  BY <1>1, <1>4, <1>5, PlannedRest

LEMMA PlannedNext == TypeOK /\ Process /\ Planned /\ [Next]_vars => Planned'
PROOF
<1> SUFFICES ASSUME TypeOK, Process, Planned, [Next]_vars PROVE Planned'
  OBVIOUS
<1>1. CASE Request
  <2>1. prog.callers > 0 /\ todo' = todo /\ prog' = prog
    BY <1>1, AtRequest DEF Request
  <2> QED
    BY <2>1, PlannedRest DEF Goes
<1>2. CASE Ends
  <2>1. todo' = <<>> /\ prog' = prog /\ sent' = 0
    BY <1>2 DEF Ends, End
  <2>2. Len(todo') = 0
    BY <2>1
  <2> QED
    BY <2>1, <2>2 DEF Planned
<1>3. ASSUME prog' = prog, sent' = sent, Goes PROVE Planned'
  BY <1>3, PlannedRest
<1>4. CASE Start \/ Connect \/ Wait \/ Pass
  <2>1. prog' = prog /\ sent' = sent
    BY <1>4 DEF Start, Connect, Wait, Pass
  <2>2. Goes
    BY <1>4 DEF Start, Connect, Wait, Pass, At, Step, Leave, Goes
  <2> QED
    BY <1>3, <2>1, <2>2
<1>5. CASE ContextEnds \/ DrainOnCancel \/ Drop \/ Reconnect \/ GiveUp \/ UNCHANGED vars
  <2>1. prog' = prog /\ sent' = sent /\ todo' = todo
    BY <1>5 DEF ContextEnds, DrainOnCancel, Drop, Reconnect, GiveUp, mainVars, vars
  <2> QED
    BY <1>3, <2>1 DEF Goes
<1>6. ASSUME NEW i \in 1..N, OthersPublish(i) PROVE Planned'
  BY <1>3, <1>6 DEF OthersPublish, mainVars, Goes
<1>7. ASSUME NEW m \in Msgs,
             Deliver(m) \/ AckWaitExpires(m) \/ HandlerFails(m) \/ AckArrives(m) \/ OthersReply(m)
      PROVE  Planned'
  <2>1. prog' = prog /\ sent' = sent /\ todo' = todo
    BY <1>7 DEF Deliver, AckWaitExpires, HandlerFails, AckArrives, OthersReply, mainVars
  <2> QED
    BY <1>3, <2>1 DEF Goes
<1>8. ASSUME NEW m \in Msgs, HandlerReturns(m) \/ Received(m) \/ Caller(m)
      PROVE  Planned'
  <2>1. prog' = prog /\ sent' = sent
    BY <1>8 DEF HandlerReturns, Received, Caller, Replied, RequestFails
  <2>2. Goes
    BY <1>8, DoneFacts DEF HandlerReturns, Received, Caller, Replied, RequestFails, Leave,
                           Goes
  <2> QED
    BY <1>3, <2>1, <2>2
<1> QED
  BY <1>1, <1>2, <1>4, <1>5, <1>6, <1>7, <1>8, NextCases, PlannedBegin, PlannedPublish

-----------------------------------------------------------------------------
(* The life of a message *)

\* The message is published: it was nowhere, and it is the program's next, or one that
\* others publish to a service.
Published(m) ==
  /\ msg'[m] \in {"out", "gone"} /\ dc'[m] = dc[m]
  /\ \/ m = Current /\ (Publish \/ PublishFails \/ Request)
     \/ prog.messages = 0 /\ msg[m] = "unsent"

\* The message goes on after it was published.
Onward(m) ==
  \/ msg[m] = "out" /\ msg'[m] = "held"
     /\ dc'[m] = (IF JetStream THEN dc[m] + 1 ELSE dc[m])
  \/ /\ dc'[m] = dc[m]
     /\ \/ msg[m] = "held" /\ msg'[m] \in {"acking", "done"}
        \/ msg[m] = "held" /\ msg'[m] = "out" /\ dc[m] < MaxDeliver
        \/ msg[m] \in {"acking", "out"} /\ msg'[m] = "done"
        \/ msg[m] \in {"out", "held"} /\ msg'[m] \in {"pending", "gone"}
        \/ msg[m] = "acking" /\ msg'[m] \in {"pending", "gone"} /\ ~smooth'
        \/ msg[m] = "pending" /\ msg'[m] = "exhausted"
        \/ msg[m] = "pending" /\ msg'[m] = "out" /\ dc[m] # MaxDeliver

Stays(m) == msg'[m] = msg[m] /\ dc'[m] = dc[m]

LEMMA PublishedMessage ==
  ASSUME TypeOK, Planned, Process, Publish \/ PublishFails \/ Request, NEW m \in Msgs
  PROVE  Stays(m) \/ Published(m)
PROOF
<1>1. dc' = dc
  BY DEF Publish, PublishFails, Request
<1>2. msg'[m] = msg[m] \/ (m = Current /\ msg'[m] \in {"out", "gone"})
  BY MoveType, Places DEF Publish, PublishFails, Request
<1> QED
  BY <1>1, <1>2 DEF Stays, Published

LEMMA EndMessage ==
  ASSUME TypeOK, Ends, NEW m \in Msgs
  PROVE  Stays(m) \/ Onward(m)
PROOF
<1>1. PICK lost \in SUBSET In("acking") : End(lost)
  BY DEF Ends
<1>2. msg'[m] = CASE m \in lost \union In("held") -> Abandoned
                  [] msg[m] = "acking" /\ m \notin lost -> "done"
                  [] msg[m] = "out" /\ ~JetStream -> "gone"
                  [] OTHER -> msg[m]
  BY <1>1 DEF End
<1>3. /\ m \in lost => msg[m] = "acking"
      /\ m \in In("held") <=> msg[m] = "held"
  BY <1>1 DEF In
<1>4. dc' = dc /\ ~smooth'
  BY <1>1 DEF End
<1> QED
  BY <1>2, <1>3, <1>4, Places DEF Stays, Onward

LEMMA MainMessage ==
  ASSUME TypeOK, NEW m \in Msgs,
         \/ Begin \/ Start \/ Connect \/ Wait \/ Pass \/ ContextEnds
         \/ DrainOnCancel \/ Drop \/ Reconnect \/ GiveUp \/ UNCHANGED vars
         \/ \E n \in Msgs : Caller(n) \/ Received(n)
  PROVE  Stays(m) \/ Onward(m)
PROOF
<1>1. dc' = dc
  BY DEF Begin, Start, Connect, Wait, Pass, ContextEnds, DrainOnCancel, Drop, Reconnect,
         GiveUp, vars, msgVars, Caller, Replied, RequestFails, Received
<1>2. ASSUME \/ Begin \/ Connect \/ Wait \/ Pass \/ ContextEnds \/ Reconnect \/ GiveUp
             \/ UNCHANGED vars \/ \E n \in Msgs : Caller(n) \/ Received(n)
      PROVE  msg' = msg
  BY <1>2 DEF Begin, Connect, Wait, Pass, ContextEnds, Reconnect,
              GiveUp, vars, msgVars, Caller, Replied, RequestFails, Received
<1>3. CASE Start
  <2>1. msg'[m] = msg[m] \/ (m \in In("out") /\ msg'[m] = "gone")
    BY <1>3, MoveType, Places DEF Start
  <2> QED
    BY <1>1, <2>1 DEF In, Stays, Onward
<1>4. CASE DrainOnCancel
  <2>1. msg'[m] = msg[m] \/ (m \in In("held") /\ msg'[m] = "pending")
    BY <1>4, MoveType, Places DEF DrainOnCancel
  <2> QED
    BY <1>1, <2>1 DEF In, Stays, Onward
<1>5. CASE Drop
  <2>1. msg'[m] = msg[m] \/ (m \in In("acking") \union In("out") /\ msg'[m] \in {"pending", "gone"})
    BY <1>5, MoveType, Places DEF Drop
  <2>2. ~smooth'
    BY <1>5 DEF Drop
  <2> QED
    BY <1>1, <2>1, <2>2 DEF In, Stays, Onward
<1> QED
  BY <1>1, <1>2, <1>3, <1>4, <1>5 DEF Stays

LEMMA CallbackMessage ==
  ASSUME TypeOK, NEW m \in Msgs, NEW n \in Msgs,
         \/ Deliver(n) \/ AckWaitExpires(n) \/ HandlerReturns(n) \/ HandlerFails(n)
         \/ AckArrives(n) \/ OthersReply(n)
  PROVE  Stays(m) \/ Onward(m)
PROOF
<1>1. CASE Deliver(n)
  <2>1. /\ msg[n] = "out" /\ msg'[n] = "held"
        /\ m # n => msg'[m] = msg[m]
    BY <1>1, MoveType, Places DEF Deliver
  <2>2. dc'[m] = IF m = n THEN (IF JetStream THEN dc[m] + 1 ELSE dc[m]) ELSE dc[m]
    BY <1>1 DEF Deliver, TypeOK
  <2> QED
    BY <2>1, <2>2 DEF Stays, Onward
<1>2. CASE AckWaitExpires(n)
  <2>1. /\ msg[n] = "pending"
        /\ msg'[n] = IF dc[n] = MaxDeliver THEN "exhausted" ELSE "out"
        /\ m # n => msg'[m] = msg[m]
    BY <1>2, MoveType, Places DEF AckWaitExpires
  <2>2. dc' = dc
    BY <1>2 DEF AckWaitExpires
  <2> QED
    BY <2>1, <2>2 DEF Stays, Onward
<1>3. CASE HandlerReturns(n)
  <2>1. /\ msg[n] = "held" /\ msg'[n] \in {"acking", "done", "pending", "gone"}
        /\ m # n => msg'[m] = msg[m]
    BY <1>3, MoveType, Places DEF HandlerReturns
  <2>2. dc' = dc
    BY <1>3 DEF HandlerReturns
  <2> QED
    BY <2>1, <2>2 DEF Stays, Onward
<1>4. CASE HandlerFails(n)
  <2>1. /\ msg[n] = "held"
        /\ msg'[n] = "acking" \/ (msg'[n] = "out" /\ dc[n] < MaxDeliver)
        /\ m # n => msg'[m] = msg[m]
    BY <1>4, MoveType, Places DEF HandlerFails
  <2>2. dc' = dc
    BY <1>4 DEF HandlerFails
  <2> QED
    BY <2>1, <2>2 DEF Stays, Onward
<1>5. CASE AckArrives(n)
  <2>1. /\ msg[n] = "acking" /\ msg'[n] = "done"
        /\ m # n => msg'[m] = msg[m]
    BY <1>5, MoveType, Places DEF AckArrives
  <2>2. dc' = dc
    BY <1>5 DEF AckArrives
  <2> QED
    BY <2>1, <2>2 DEF Stays, Onward
<1>6. CASE OthersReply(n)
  <2>1. /\ msg[n] = "out" /\ msg'[n] = "done"
        /\ m # n => msg'[m] = msg[m]
    BY <1>6, MoveType, Places DEF OthersReply
  <2>2. dc' = dc
    BY <1>6 DEF OthersReply
  <2> QED
    BY <2>1, <2>2 DEF Stays, Onward
<1> QED
  BY <1>1, <1>2, <1>3, <1>4, <1>5, <1>6

\* Whatever the step, a message stays where it is, is published, or goes on.
LEMMA MessageMoves ==
  ASSUME TypeOK, Planned, Process, [Next]_vars, NEW m \in Msgs
  PROVE  Stays(m) \/ Published(m) \/ Onward(m)
PROOF
<1>1. ASSUME NEW i \in 1..N, OthersPublish(i) PROVE Stays(m) \/ Published(m)
  <2>1. msg'[m] = msg[m] \/ (msg[m] = "unsent" /\ msg'[m] \in {"out", "gone"})
    BY <1>1, MoveType, Places DEF OthersPublish
  <2>2. dc' = dc /\ prog.messages = 0
    BY <1>1 DEF OthersPublish
  <2> QED
    BY <2>1, <2>2 DEF Stays, Published
<1> QED
  BY <1>1, NextCases, PublishedMessage, EndMessage, MainMessage, CallbackMessage

-----------------------------------------------------------------------------
(* What is not published yet, and the deliveries that are left *)

\* The program's next publish is of a message that is nowhere.
LEMMA CurrentUnsent ==
  ASSUME TypeOK, Process, Planned, Fresh, Publish \/ PublishFails \/ Request
  PROVE  /\ Current \in Msgs /\ msg[Current] = "unsent" /\ dc[Current] = 0
         /\ prog.messages > 0 /\ up /\ todo # <<>> /\ Current = <<run, sent + 1>>
PROOF
<1>1. up /\ todo # <<>> /\ sent < prog.messages
  BY AtPublish, AtRequest DEF Publish, PublishFails
<1>2. /\ Current \in Msgs /\ Current = <<run, sent + 1>> /\ prog.messages > 0
      /\ sent \in Nat
  BY <1>1, NextMessage, Known
<1>3. Current[1] = run /\ Current[2] > sent
  BY <1>2
<1> QED
  BY <1>1, <1>2, <1>3 DEF Fresh

\* Outside Begin, what has not been sent was not sent before.
LEMMA StillUnsent ==
  ASSUME TypeOK, Process, Planned, [Next]_vars, ~Begin, NEW m \in Msgs,
         todo' # <<>> /\ m[1] = run' /\ m[2] > sent'
  PROVE  todo # <<>> /\ m[1] = run /\ m[2] > sent /\ run' = run
         /\ (Publish \/ PublishFails \/ Request => m # Current)
PROOF
<1>0. m[1] \in Nat /\ m[2] \in Nat /\ m = <<m[1], m[2]>> /\ run \in Nat /\ sent \in Nat
  BY Known DEF Msgs, Runs
<1>1. CASE ~up
  <2>1. todo = <<>> /\ todo' = todo
    BY <1>1, DownCases DEF Process, OthersPublish, AckWaitExpires, vars, mainVars
  <2> QED
    BY <2>1
<1>2. CASE up /\ ~Ends
  <2>1. run' = run
    BY <1>2, UpCases
  <2>2. CASE Publish \/ PublishFails
    <3>1. todo # <<>> /\ (sent' = sent + 1 \/ todo' = <<>>)
      BY <2>2, AtPublish DEF Publish, PublishFails, PublishNext, Leave
    <3> QED
      BY <1>0, <2>1, <3>1 DEF Current
  <2>3. CASE Request
    <3>1. todo # <<>> /\ sent' = sent + 1
      BY <2>3, AtRequest DEF Request
    <3> QED
      BY <1>0, <2>1, <3>1 DEF Current
  <2>4. CASE ~Publish /\ ~PublishFails /\ ~Request
    <3>1. sent' = sent /\ (todo' = todo \/ todo # <<>> \/ todo' = <<>>)
      <4>1. CASE Start \/ Connect \/ Wait \/ Pass
        BY <4>1 DEF Start, Connect, Wait, Pass, At
      <4>2. CASE ContextEnds \/ DrainOnCancel \/ Drop \/ Reconnect \/ GiveUp \/ UNCHANGED vars
        BY <4>2 DEF ContextEnds, DrainOnCancel, Drop, Reconnect, GiveUp, mainVars, vars
      <4>3. ASSUME NEW n \in Msgs,
                   \/ Deliver(n) \/ AckWaitExpires(n) \/ HandlerFails(n) \/ AckArrives(n)
                   \/ OthersReply(n)
            PROVE  sent' = sent /\ todo' = todo
        BY <4>3 DEF Deliver, AckWaitExpires, HandlerFails, AckArrives, OthersReply, mainVars
      <4>4. ASSUME NEW n \in Msgs, HandlerReturns(n) \/ Received(n) \/ Caller(n)
            PROVE  sent' = sent /\ (todo' = todo \/ todo # <<>> \/ todo' = <<>>)
        BY <4>4 DEF HandlerReturns, Received, Caller, Replied, RequestFails, Done, At,
                    Leave
      <4>5. ASSUME NEW i \in 1..N, OthersPublish(i) PROVE sent' = sent /\ todo' = todo
        BY <4>5 DEF OthersPublish, mainVars
      <4> QED
        BY <1>2, <2>4, <4>1, <4>2, <4>3, <4>4, <4>5, NextCases
    <3> QED
      BY <2>1, <2>4, <3>1
  <2> QED
    BY <2>2, <2>3, <2>4
<1>3. CASE Ends
  BY <1>3 DEF Ends, End
<1> QED
  BY <1>1, <1>2, <1>3

\* The program stays the same one.
LEMMA ProgStays == [Next]_vars => prog' = prog
PROOF
<1> SUFFICES ASSUME [Next]_vars PROVE prog' = prog
  OBVIOUS
<1>1. CASE \/ Begin \/ Start \/ Publish \/ PublishFails \/ Request \/ Connect \/ Wait
           \/ Pass \/ ContextEnds \/ Ends
  BY <1>1 DEF Begin, Start, Publish, PublishFails, Request, Connect, Wait, Pass, ContextEnds,
              Ends, End
<1>2. CASE \/ DrainOnCancel \/ Drop \/ Reconnect \/ GiveUp \/ UNCHANGED vars
           \/ \E i \in 1..N : OthersPublish(i)
  BY <1>2 DEF DrainOnCancel, Drop, Reconnect, GiveUp, OthersPublish, vars
<1>3. ASSUME NEW m \in Msgs,
             \/ Deliver(m) \/ AckWaitExpires(m) \/ HandlerReturns(m) \/ HandlerFails(m)
             \/ AckArrives(m) \/ Received(m) \/ Caller(m) \/ OthersReply(m)
      PROVE  prog' = prog
  BY <1>3 DEF Deliver, AckWaitExpires, HandlerReturns, HandlerFails, AckArrives, Received,
              Caller, Replied, RequestFails, OthersReply
<1> QED
  BY <1>1, <1>2, <1>3, NextCases

LEMMA FreshNext == TypeOK /\ Process /\ Planned /\ Fresh /\ [Next]_vars => Fresh'
PROOF
<1> SUFFICES ASSUME TypeOK, Process, Planned, Fresh, [Next]_vars, prog.messages > 0,
                    NEW m \in Msgs,
                    m[1] > run' \/ (todo' # <<>> /\ m[1] = run' /\ m[2] > sent')
             PROVE  msg'[m] = "unsent" /\ dc'[m] = 0
  <2>1. [Next]_vars => prog' = prog
    BY ProgStays
  <2> QED
    BY <2>1 DEF Fresh
<1>0. m[1] \in Nat /\ run \in Nat /\ sent \in Nat
  BY Known DEF Msgs, Runs
<1>1. /\ m[1] > run \/ (todo # <<>> /\ m[1] = run /\ m[2] > sent)
      /\ Publish \/ PublishFails \/ Request => m # Current
  <2>1. CASE Begin
    <3>1. run' = run + 1 /\ ~up
      BY <2>1 DEF Begin
    <3>2. ~Publish /\ ~PublishFails /\ ~Request
      BY <3>1 DEF Publish, PublishFails, Request, At
    <3>3. m[1] > run
      BY <1>0, <3>1
    <3> QED
      BY <3>2, <3>3
  <2>2. CASE ~Begin /\ m[1] > run'
    <3>1. run' = run
      <4>1. CASE up
        BY <2>2, <4>1, UpCases DEF Ends, End
      <4>2. CASE ~up
        BY <2>2, <4>2, DownCases DEF OthersPublish, AckWaitExpires, mainVars, vars
      <4> QED
        BY <4>1, <4>2
    <3> QED
      BY <1>0, <2>2, <3>1 DEF Current
  <2>3. CASE ~Begin /\ ~(m[1] > run')
    BY <2>3, StillUnsent
  <2> QED
    BY <2>1, <2>2, <2>3
<1>2. msg[m] = "unsent" /\ dc[m] = 0
  BY <1>1 DEF Fresh
<1>3. ~Onward(m) /\ ~Published(m)
  BY <1>0, <1>1, <1>2 DEF Onward, Published
<1> QED
  BY <1>2, <1>3, MessageMoves DEF Stays

LEMMA BudgetNext == TypeOK /\ Process /\ Planned /\ Fresh /\ Budget /\ [Next]_vars => Budget'
PROOF
<1> SUFFICES ASSUME TypeOK, Process, Planned, Fresh, Budget, [Next]_vars, NEW m \in Msgs
             PROVE  /\ msg'[m] = "out" => dc'[m] < MaxDeliver
                    /\ msg'[m] = "unsent" => dc'[m] = 0
  BY DEF Budget
<1>0. dc[m] \in Nat /\ dc[m] <= MaxDeliver /\ MaxDeliver \in Nat /\ MaxDeliver > 0
  BY Known DEF TypeOK
<1>1. CASE Stays(m)
  BY <1>1 DEF Stays, Budget
<1>2. CASE Published(m)
  <2>1. msg[m] = "unsent"
    BY <1>2, CurrentUnsent DEF Published
  <2>2. dc[m] = 0
    BY <2>1 DEF Budget
  <2> QED
    BY <1>0, <1>2, <2>2 DEF Published
<1>3. CASE Onward(m)
  <2>1. msg'[m] # "unsent"
    BY <1>3 DEF Onward
  <2>2. msg'[m] = "out" => dc'[m] = dc[m] /\ (dc[m] < MaxDeliver \/ dc[m] # MaxDeliver)
    BY <1>3 DEF Onward
  <2> QED
    BY <1>0, <2>1, <2>2
<1> QED
  BY <1>1, <1>2, <1>3, MessageMoves

-----------------------------------------------------------------------------
(* A run without faults *)

\* The last step of the list is the one that waits.
LEMMA LastStep ==
  ASSUME TypeOK, Planned, todo # <<>>, Tail(todo) = <<>>
  PROVE  /\ prog.add > 0 => Head(todo) \in {"wait", "parked"}
         /\ prog.callers > 0 => Head(todo) = "request"
PROOF
<1>1. Len(todo) = 1 /\ Head(todo) = todo[1]
  BY TailFacts DEF TypeOK
<1> QED
  BY <1>1 DEF Planned

\* When the wait group is at zero everything the program awaits is handled.
LEMMA AllHandled ==
  ASSUME TypeOK, Process, up, Clean, Counting, prog.add > 0, group = 0
  PROVE  handled = Awaited
PROOF
<1>1. /\ run \in 1..MaxRuns /\ prog.add \in 0..N /\ N \in Nat /\ MaxRuns \in Nat
  BY Known DEF TypeOK, Process, NumbersFit
<1>2. Awaited = {run} \X (1..prog.add)
  BY <1>1 DEF Awaited, Msgs, Runs
<1>3. /\ IsFiniteSet({run}) /\ Cardinality({run}) = 1
      /\ IsFiniteSet(1..prog.add) /\ Cardinality(1..prog.add) = prog.add
  <2>1. IsFiniteSet({run}) /\ Cardinality({run}) = 1
    BY FS_Singleton
  <2>2. 1 \in Int /\ prog.add \in Int /\ prog.add >= 1
    BY <1>1
  <2>3. IsFiniteSet(1..prog.add) /\ Cardinality(1..prog.add) = prog.add - 1 + 1
    BY <2>2, FS_Interval
  <2> QED
    BY <2>1, <2>2, <2>3
<1>4. IsFiniteSet(Awaited) /\ Cardinality(Awaited) = prog.add
  <2>1. /\ IsFiniteSet({run} \X (1..prog.add))
        /\ Cardinality({run} \X (1..prog.add)) = Cardinality({run}) * Cardinality(1..prog.add)
    BY <1>3, FS_Product
  <2> QED
    BY <1>1, <1>2, <1>3, <2>1
<1>5. handled \subseteq Awaited
  <2>1. handled \subseteq Msgs
    BY DEF TypeOK
  <2>2. \A m \in handled : m[1] = run /\ Kept(m)
    BY DEF Clean, Kept
  <2> QED
    BY <2>1, <2>2 DEF Counting
<1>6. Cardinality(handled) = prog.add
  <2>1. IsFiniteSet(handled)
    BY <1>4, <1>5, FS_Subset
  <2>2. Cardinality(handled) \in Nat /\ Cardinality(handled) + group = prog.add
    BY <2>1, FS_CardinalityType DEF Counting
  <2> QED
    BY <2>2
<1> QED
  BY <1>4, <1>5, <1>6, FS_Subset

\* What a step that publishes and handles nothing does to a message.
Carried(m) ==
  \/ msg'[m] = msg[m]
  \/ msg[m] = "out" /\ msg'[m] \in {"held", "pending", "gone"}
  \/ msg[m] = "held" /\ msg'[m] \in {"pending", "gone"}
  \/ msg[m] = "acking" /\ msg'[m] = "done"
  \/ msg[m] = "pending" /\ msg'[m] \in {"out", "exhausted"}

\* The steps that publish and handle nothing, when they are no faults.
Passive ==
  \/ Start \/ Connect \/ Wait \/ Pass \/ DrainOnCancel \/ Reconnect \/ GiveUp
  \/ UNCHANGED vars
  \/ \E m \in Msgs : Deliver(m) \/ AckWaitExpires(m) \/ AckArrives(m)

LEMMA PassiveCarries ==
  ASSUME TypeOK, Passive, NEW m \in Msgs
  PROVE  Carried(m)
PROOF
<1>1. CASE Start
  BY <1>1, MoveType, Places DEF Start, In, Carried
<1>2. CASE Connect \/ Wait \/ Pass \/ Reconnect \/ GiveUp \/ UNCHANGED vars
  BY <1>2 DEF Connect, Wait, Pass, Reconnect, GiveUp, vars, msgVars, Carried
<1>3. CASE DrainOnCancel
  <2>1. msg'[m] = msg[m] \/ (m \in In("held") /\ msg'[m] = "pending")
    BY <1>3, MoveType, Places DEF DrainOnCancel
  <2> QED
    BY <2>1 DEF In, Carried
<1>4. ASSUME NEW n \in Msgs, Deliver(n) \/ AckWaitExpires(n) \/ AckArrives(n)
      PROVE  Carried(m)
  <2>1. CASE Deliver(n)
    BY <2>1, MoveType, Places DEF Deliver, Carried
  <2>2. CASE AckWaitExpires(n)
    BY <2>2, MoveType, Places DEF AckWaitExpires, Carried
  <2>3. CASE AckArrives(n)
    BY <2>3, MoveType, Places DEF AckArrives, Carried
  <2> QED
    BY <1>4, <2>1, <2>2, <2>3
<1> QED
  BY <1>1, <1>2, <1>3, <1>4 DEF Passive

LEMMA PassiveFrame ==
  ASSUME Passive
  PROVE  /\ handled' = handled /\ copies' = copies /\ group' = group /\ asking' = asking
         /\ window' = window /\ sent' = sent /\ run' = run /\ prog' = prog
         /\ smooth' => smooth
PROOF
<1>1. CASE Connect \/ Wait \/ Pass
  BY <1>1 DEF Connect, Wait, Pass, srvVars, msgVars
<1>4. CASE Start
  <2>1. smooth' => smooth
    BY <1>4, Zenon DEF Start
  <2> QED
    BY <1>4, <2>1 DEF Start
<1>2. CASE DrainOnCancel \/ Reconnect \/ GiveUp \/ UNCHANGED vars
  BY <1>2 DEF DrainOnCancel, Reconnect, GiveUp, vars, mainVars, srvVars, msgVars
<1>3. ASSUME NEW n \in Msgs, Deliver(n) \/ AckWaitExpires(n) \/ AckArrives(n)
      PROVE  /\ handled' = handled /\ copies' = copies /\ group' = group /\ asking' = asking
             /\ window' = window /\ sent' = sent /\ run' = run /\ prog' = prog
             /\ smooth' => smooth
  BY <1>3 DEF Deliver, AckWaitExpires, AckArrives, mainVars, srvVars
<1> QED
  BY <1>1, <1>2, <1>3, <1>4 DEF Passive

\* A passive step ends the list only when the wait group is at zero, or every
\* request has returned.
LEMMA PassiveEnds ==
  ASSUME TypeOK, Planned, Passive, smooth', todo' = <<>>, todo # <<>>
  PROVE  /\ prog.add > 0 => group = 0
         /\ prog.callers > 0 => asking = {}
PROOF
<1>1. CASE Start \/ Connect
  <2>1. todo' = Tail(todo) /\ Head(todo) \in {"start", "connect"}
    <3>1. CASE Start
      <4>1. PICK k \in 0..prog.consumers :
              /\ smooth' = (smooth /\ k = prog.consumers)
              /\ \/ (k = prog.consumers \/ prog.startError # "return") /\ Step
                 \/ (k < prog.consumers /\ prog.startError # "ignore") /\ Leave
        BY <3>1 DEF Start
      <4>2. Step
        <5>1. k = prog.consumers
          BY <4>1, Zenon
        <5>2. prog.consumers \in 0..2
          BY Known DEF NumbersFit
        <5>3. ~(k < prog.consumers)
          BY <5>1, <5>2
        <5> QED
          BY <4>1, <5>3, Zenon
      <4> QED
        BY <3>1, <4>2 DEF Start, At, Step
    <3>2. CASE Connect
      BY <3>2 DEF Connect, At, Step
    <3> QED
      BY <1>1, <3>1, <3>2
  <2> QED
    BY <2>1, LastStep
<1>2. CASE Wait
  <2>1. /\ Head(todo) = "wait"
        /\ todo' = IF group = 0 THEN Tail(todo) ELSE <<"parked">> \o Tail(todo)
    BY <1>2 DEF Wait, At
  <2>2. <<"parked">> \o Tail(todo) # <<>>
    <3>1. Tail(todo) \in Seq(Steps) /\ "parked" \in Steps
      BY TailFacts DEF TypeOK, Steps
    <3>2. Len(<<"parked">> \o Tail(todo)) = Len(Tail(todo)) + 1 /\ Len(Tail(todo)) \in Nat
      BY <3>1, ConsFacts
    <3> QED
      BY <3>2
  <2>3. group = 0 /\ Tail(todo) = <<>>
    BY <2>1, <2>2
  <2> QED
    BY <2>1, <2>3, LastStep
<1>3. CASE Pass
  <2>1. /\ todo' = Tail(todo)
        /\ \/ Head(todo) \in {"sleep", "signal"}
           \/ Head(todo) = "request" /\ asking = {}
    BY <1>3 DEF Pass, At, Step
  <2> QED
    BY <2>1, LastStep
<1>4. CASE DrainOnCancel \/ Reconnect \/ GiveUp \/ UNCHANGED vars
  BY <1>4 DEF DrainOnCancel, Reconnect, GiveUp, vars, mainVars
<1>5. ASSUME NEW n \in Msgs, Deliver(n) \/ AckWaitExpires(n) \/ AckArrives(n)
      PROVE  FALSE
  BY <1>5 DEF Deliver, AckWaitExpires, AckArrives, mainVars
<1> QED
  BY <1>1, <1>2, <1>3, <1>4, <1>5 DEF Passive

LEMMA SmoothPassive ==
  ASSUME TypeOK, Planned, Smooth, Passive
  PROVE  Smooth'
PROOF
<1> SUFFICES ASSUME smooth', prog.add + prog.callers > 0
             PROVE  /\ Clean'
                    /\ prog.add > 0 => Counting'
                    /\ prog.callers > 0 => Answering'
  BY PassiveFrame DEF Smooth
<1>1. /\ handled' = handled /\ copies' = copies /\ group' = group /\ asking' = asking
      /\ window' = window /\ sent' = sent /\ run' = run /\ prog' = prog
  BY PassiveFrame
<1>2. Clean /\ (prog.add > 0 => Counting) /\ (prog.callers > 0 => Answering)
  BY PassiveFrame DEF Smooth
<1>3. \A m \in Msgs : Carried(m)
  BY PassiveCarries
<1>4. handled \subseteq Msgs /\ copies \subseteq Msgs
  BY DEF TypeOK
<1>5. Clean'
  <2>1. \A m \in Msgs : m[1] = run' \/ msg'[m] \in {"unsent", "done", "exhausted", "gone"}
    BY <1>1, <1>2, <1>3 DEF Clean, Carried
  <2>2. \A m \in handled \union copies : m[1] = run' /\ msg'[m] \in {"acking", "done"}
    BY <1>1, <1>2, <1>3, <1>4 DEF Clean, Carried
  <2> QED
    BY <1>1, <1>2, <2>1, <2>2 DEF Clean
<1>6. ASSUME prog.add > 0 PROVE Counting'
  <2>1. \A m \in Msgs : m[1] = run /\ Kept(m)' => m \in Awaited'
    BY <1>1, <1>2, <1>3, <1>6 DEF Counting, Awaited, Kept, Carried
  <2>2. todo' = <<>> => group' = 0
    BY <1>1, <1>2, <1>6, PassiveEnds DEF Counting
  <2> QED
    BY <1>1, <1>2, <1>6, <2>1, <2>2 DEF Counting
<1>7. ASSUME prog.callers > 0 PROVE Answering'
  <2>1. \A m \in Msgs : m[1] = run /\ Kept(m)' => m \in asking' \/ m \in handled'
    BY <1>1, <1>2, <1>3, <1>7 DEF Answering, Kept, Carried
  <2>2. \A m \in Msgs : m[1] = run => msg'[m] # "acking" /\ (msg'[m] = "done" => m \in handled')
    BY <1>1, <1>2, <1>3, <1>7 DEF Answering, Carried
  <2>3. todo' = <<>> => asking' = {}
    BY <1>1, <1>2, <1>7, PassiveEnds DEF Answering
  <2> QED
    BY <1>1, <2>1, <2>2, <2>3 DEF Answering
<1> QED
  BY <1>5, <1>6, <1>7

\* A run that begins smoothly has nothing on its hands.
LEMMA SmoothBegin ==
  ASSUME TypeOK, Process, Fresh, Begin
  PROVE  Smooth'
PROOF
<1> SUFFICES ASSUME smooth', prog.add + prog.callers > 0
             PROVE  /\ Clean'
                    /\ prog.add > 0 => Counting'
                    /\ prog.callers > 0 => Answering'
  BY DEF Begin, Smooth
<1>1. /\ run' = run + 1 /\ prog' = prog /\ group' = prog.add /\ sent' = 0 /\ handled' = {}
      /\ copies' = {} /\ asking' = {} /\ msg' = msg /\ dc' = dc
      /\ todo' = <<"connect">> \o prog.steps
  BY DEF Begin, Process
<1>2. NumbersFit(prog) /\ StepsFit(prog.steps, prog) /\ run \in Nat
  BY Known
<1>3. prog.messages > 0
  BY <1>2 DEF NumbersFit
<1>4. ASSUME NEW m \in Msgs PROVE msg[m] \in {"unsent", "done", "exhausted", "gone"}
  <2>1. In("out") \union In("pending") = {}
    BY Zenon DEF Begin
  <2>2. In("held") = {} /\ In("acking") = {}
    BY DEF Process, Begin
  <2>3. msg[m] \in MsgStates
    BY DEF TypeOK
  <2> QED
    BY <2>1, <2>2, <2>3 DEF In, MsgStates
<1>5. ASSUME NEW m \in Msgs, m[1] = run' PROVE msg'[m] = "unsent"
  BY <1>1, <1>2, <1>3, <1>5 DEF Fresh
<1>6. todo' # <<>>
  <2>1. prog.steps \in Seq(Steps) /\ "connect" \in Steps
    BY <1>2 DEF StepsFit, Steps
  <2>2. Len(todo') = Len(prog.steps) + 1 /\ Len(prog.steps) \in Nat
    BY <1>1, <2>1, ConsFacts
  <2> QED
    BY <2>2
<1>7. Clean'
  BY <1>1, <1>4 DEF Clean
<1>8. ASSUME prog.add > 0 PROVE Counting'
  <2>1. Cardinality(handled') = 0 /\ group' \in Nat
    BY <1>1, <1>2, FS_EmptySet, Known DEF NumbersFit
  <2>2. Cardinality(handled') + group' = prog'.add
    BY <1>1, <1>2, <2>1 DEF NumbersFit
  <2>3. \A m \in Msgs : m[1] = run' => ~Kept(m)'
    BY <1>5 DEF Kept
  <2>4. ~(sent' > 0)
    BY <1>1
  <2> QED
    BY <1>6, <2>1, <2>2, <2>3, <2>4 DEF Counting
<1>9. ASSUME prog.callers > 0 PROVE Answering'
  <2>1. \A m \in Msgs : m[1] = run' => ~Kept(m)'
    BY <1>5 DEF Kept
  <2> QED
    BY <1>5, <1>6, <2>1 DEF Answering
<1> QED
  BY <1>7, <1>8, <1>9

LEMMA SmoothPublish ==
  ASSUME TypeOK, Process, Planned, Fresh, Smooth, Publish
  PROVE  Smooth'
PROOF
<1>1. /\ handled' = handled /\ copies' = copies /\ group' = group /\ asking' = asking
      /\ run' = run /\ prog' = prog /\ smooth' = smooth /\ window' = window \union ID
      /\ PublishNext /\ At("publish")
  BY DEF Publish
<1> SUFFICES ASSUME smooth', prog.add + prog.callers > 0
             PROVE  /\ Clean'
                    /\ prog.add > 0 => Counting'
                    /\ prog.callers > 0 => Answering'
  BY <1>1 DEF Smooth
<1>2. Clean /\ (prog.add > 0 => Counting)
  BY <1>1 DEF Smooth
<1>3. /\ Current \in Msgs /\ msg[Current] = "unsent" /\ Current = <<run, sent + 1>>
      /\ todo # <<>> /\ sent < prog.messages /\ sent \in Nat /\ prog.messages \in Nat
  BY <1>1, CurrentUnsent, AtPublish, Known DEF NumbersFit
<1>4. /\ \A m \in Msgs : m # Current => msg'[m] = msg[m]
      /\ msg'[Current] \in {"out", "gone"}
      /\ ID \intersect window # {} => msg'[Current] = "gone"
  <2>1. msg'[Current] = IF ID \intersect window = {} THEN Stored ELSE "gone"
    BY <1>3, MoveType, Places DEF Publish
  <2>2. \A m \in Msgs : m # Current => msg'[m] = msg[m]
    BY MoveType, Places DEF Publish
  <2> QED
    BY <2>1, <2>2, Places
<1>5. handled \subseteq Msgs /\ copies \subseteq Msgs
  BY DEF TypeOK
<1>6. Clean'
  <2>1. \A m \in Msgs : m[1] = run' \/ msg'[m] \in {"unsent", "done", "exhausted", "gone"}
    BY <1>1, <1>2, <1>3, <1>4 DEF Clean
  <2>2. \A m \in handled \union copies : m[1] = run' /\ msg'[m] \in {"acking", "done"}
    BY <1>1, <1>2, <1>3, <1>4, <1>5 DEF Clean
  <2> QED
    BY <1>1, <1>2, <2>1, <2>2 DEF Clean
<1>7. ~(prog.callers > 0)
  <2>1. todo[1] = "publish" /\ 1 \in 1..Len(todo)
    <3>1. todo[1] = "publish" /\ todo \in Seq(Steps)
      BY <1>1, AtPublish DEF TypeOK
    <3> QED
      BY <1>3, <3>1, TailFacts
  <2> QED
    BY <2>1, Known DEF Planned, StepsFit
<1>8. ASSUME prog.add > 0 PROVE Counting'
  <2>1. /\ Counting /\ NumbersFit(prog) /\ prog.add \in Nat
    BY <1>2, <1>8, Known DEF NumbersFit
  <2>2. msg'[Current] # "gone" => sent + 1 <= prog.add
    <3>1. CASE prog.ids = "none"
      BY <1>3, <1>8, <2>1, <3>1 DEF NumbersFit
    <3>2. CASE prog.ids = "constant"
      <4>1. ID = {0} /\ prog.add = 1
        BY <1>8, <2>1, <3>2 DEF ID, NumbersFit
      <4>2. sent > 0 => 0 \in window
        BY <2>1, <3>2 DEF Counting
      <4>3. sent > 0 => msg'[Current] = "gone"
        BY <1>4, <4>1, <4>2
      <4> QED
        BY <1>3, <4>1, <4>3
    <3> QED
      BY <1>8, <2>1, <3>1, <3>2 DEF NumbersFit
  <2>3. ASSUME NEW m \in Msgs, m[1] = run, Kept(m)' PROVE m \in Awaited'
    <3>1. CASE m = Current
      <4>1. msg'[Current] # "gone"
        BY <2>3, <3>1 DEF Kept
      <4>2. m[2] <= prog.add
        BY <1>3, <2>2, <3>1, <4>1
      <4> QED
        BY <1>1, <2>3, <4>2 DEF Awaited
    <3>2. CASE m # Current
      BY <1>1, <1>4, <2>1, <2>3, <3>2 DEF Counting, Awaited, Kept
    <3> QED
      BY <3>1, <3>2
  <2>4. todo' # <<>>
    <3>1. Head(todo) = "publish" /\ todo' \in {todo, Tail(todo)}
      BY <1>1 DEF At, PublishNext, Step
    <3> QED
      BY <1>3, <1>8, <3>1, LastStep
  <2>5. prog.ids = "constant" => 0 \in window'
    BY <1>1 DEF ID
  <2> QED
    BY <1>1, <2>1, <2>3, <2>4, <2>5 DEF Counting
<1> QED
  BY <1>6, <1>7, <1>8

LEMMA SmoothRequest ==
  ASSUME TypeOK, Process, Planned, Fresh, Smooth, Request
  PROVE  Smooth'
PROOF
<1>1. /\ handled' = handled /\ copies' = copies /\ asking' = asking \union {Current}
      /\ run' = run /\ prog' = prog /\ smooth' = smooth /\ todo' = todo
  BY DEF Request
<1>2. prog.callers > 0 /\ ~(prog.add > 0)
  BY AtRequest, Known DEF NumbersFit
<1> SUFFICES ASSUME smooth', prog.add + prog.callers > 0
             PROVE  Clean' /\ Answering'
  BY <1>1, <1>2 DEF Smooth
<1>3. Clean /\ Answering
  BY <1>1, <1>2 DEF Smooth
<1>4. /\ Current \in Msgs /\ msg[Current] = "unsent" /\ Current = <<run, sent + 1>>
      /\ todo # <<>>
  BY CurrentUnsent
<1>5. /\ \A m \in Msgs : m # Current => msg'[m] = msg[m]
      /\ msg'[Current] \in {"out", "gone"}
  BY <1>4, MoveType, Places DEF Request
<1>6. handled \subseteq Msgs /\ copies \subseteq Msgs
  BY DEF TypeOK
<1>7. Clean'
  <2>1. \A m \in Msgs : m[1] = run' \/ msg'[m] \in {"unsent", "done", "exhausted", "gone"}
    BY <1>1, <1>3, <1>4, <1>5 DEF Clean
  <2>2. \A m \in handled \union copies : m[1] = run' /\ msg'[m] \in {"acking", "done"}
    BY <1>1, <1>3, <1>4, <1>5, <1>6 DEF Clean
  <2> QED
    BY <1>1, <1>3, <2>1, <2>2 DEF Clean
<1>8. Answering'
  <2>1. \A m \in Msgs : m[1] = run /\ Kept(m)' => m \in asking' \/ m \in handled'
    BY <1>1, <1>3, <1>5 DEF Answering, Kept
  <2>2. \A m \in Msgs : m[1] = run => msg'[m] # "acking" /\ (msg'[m] = "done" => m \in handled')
    BY <1>1, <1>3, <1>5 DEF Answering
  <2> QED
    BY <1>1, <1>4, <2>1, <2>2 DEF Answering
<1> QED
  BY <1>7, <1>8

LEMMA SmoothReplied ==
  ASSUME TypeOK, Planned, Smooth, NEW n \in Msgs, Replied(n)
  PROVE  Smooth'
PROOF
<1>1. /\ handled' = handled /\ copies' = copies /\ asking' = asking \ {n} /\ n \in asking
      /\ run' = run /\ prog' = prog /\ smooth' = smooth /\ todo' = todo /\ msg' = msg
      /\ group' = group /\ sent' = sent /\ window' = window /\ msg[n] = "done"
  BY DEF Replied, msgVars, srvVars
<1> SUFFICES ASSUME smooth', prog.add + prog.callers > 0
             PROVE  /\ Clean'
                    /\ prog.add > 0 => Counting'
                    /\ prog.callers > 0 => Answering'
  BY <1>1 DEF Smooth
<1>2. Clean /\ (prog.add > 0 => Counting) /\ (prog.callers > 0 => Answering)
  BY <1>1 DEF Smooth
<1>3. Clean'
  BY <1>1, <1>2 DEF Clean
<1>4. prog.add > 0 => Counting'
  BY <1>1, <1>2 DEF Counting, Kept, Awaited
<1>5. prog.callers > 0 => Answering'
  BY <1>1, <1>2 DEF Answering, Kept
<1> QED
  BY <1>3, <1>4, <1>5

\* What the wait group does when one more message is done with: it still has a
\* count for it, and main goes on only with the last one.
LEMMA CountDone ==
  ASSUME TypeOK, Process, up, Clean, Counting, prog.add > 0,
         NEW n \in Awaited, n \notin handled, Done, handled' = handled \union {n}
  PROVE  /\ group > 0 /\ group' \in Nat /\ Cardinality(handled') + group' = prog.add
         /\ todo' = <<>> => group' = 0
PROOF
<1>1. group # 0
  BY AllHandled
<1>2. group \in Nat /\ group > 0 /\ Cardinality(handled) + group = prog.add /\ todo # <<>>
  BY <1>1 DEF Counting
<1>3. group' = group - 1 /\ (group = 1 \/ todo' = todo)
  BY <1>2 DEF Done
<1>4. Cardinality(handled) \in Nat /\ Cardinality(handled') = Cardinality(handled) + 1
  <2>1. IsFiniteSet(handled)
    BY Known, FS_Subset DEF TypeOK
  <2> QED
    BY <2>1, FS_CardinalityType, FS_AddElement
<1>5. prog.add \in Nat
  BY Known DEF NumbersFit
<1> QED
  BY <1>2, <1>3, <1>4, <1>5

\* A message of this run that the handler has not finished yet.
LEMMA AtHandler ==
  ASSUME TypeOK, Clean, NEW n \in Msgs, msg[n] = "held"
  PROVE  n[1] = run /\ n \notin handled /\ n \notin copies /\ Kept(n)
PROOF
  BY DEF Clean, Kept

LEMMA SmoothHandlerReturns ==
  ASSUME TypeOK, Process, up, Smooth, NEW n \in Msgs, HandlerReturns(n)
  PROVE  Smooth'
PROOF
<1>1. /\ copies' = copies /\ asking' = asking /\ run' = run /\ prog' = prog
      /\ smooth' = smooth /\ sent' = sent /\ window' = window /\ msg[n] = "held"
      /\ prog.handler = "ok"
  BY DEF HandlerReturns, srvVars
<1> SUFFICES ASSUME smooth', prog.add + prog.callers > 0
             PROVE  /\ Clean'
                    /\ prog.add > 0 => Counting'
                    /\ prog.callers > 0 => Answering'
  BY <1>1 DEF Smooth
<1>2. Clean /\ (prog.add > 0 => Counting) /\ (prog.callers > 0 => Answering)
  BY <1>1 DEF Smooth
<1>3. n[1] = run /\ n \notin handled /\ n \notin copies /\ Kept(n)
  BY <1>1, <1>2, AtHandler
<1>4. handled \subseteq Msgs /\ copies \subseteq Msgs /\ NumbersFit(prog)
  BY Known DEF TypeOK
<1>5. ASSUME prog.add > 0 PROVE Done /\ group > 0 /\ n \in Awaited
  <2>1. n \in Awaited
    BY <1>2, <1>3, <1>5 DEF Counting
  <2>2. group # 0
    BY <1>2, <1>3, <1>5, <2>1, AllHandled
  <2>3. group > 0
    BY <1>2, <1>5, <2>2 DEF Counting
  <2>4. Done
    BY <1>5 DEF HandlerReturns
  <2> QED
    BY <2>1, <2>3, <2>4
<1>6. /\ handled' = handled \union {n}
      /\ msg'[n] = IF JetStream THEN "acking" ELSE "done"
      /\ \A m \in Msgs : m # n => msg'[m] = msg[m]
  <2>1. ~(prog.add > 0 /\ group <= 0)
    <3>1. group \in Int
      BY Known
    <3> QED
      BY <1>5, <3>1
  <2>2. /\ Move({n}, IF JetStream THEN "acking" ELSE "done")
        /\ handled' = handled \union {n}
    BY <2>1 DEF HandlerReturns
  <2> QED
    BY <2>2, MoveType, Places
<1>7. Clean'
  <2>1. \A m \in Msgs : m[1] = run' \/ msg'[m] \in {"unsent", "done", "exhausted", "gone"}
    BY <1>1, <1>2, <1>3, <1>6 DEF Clean
  <2>2. \A m \in handled' \union copies : m[1] = run' /\ msg'[m] \in {"acking", "done"}
    BY <1>1, <1>2, <1>3, <1>4, <1>6 DEF Clean
  <2>3. handled' \intersect copies = {}
    BY <1>2, <1>3, <1>6 DEF Clean
  <2> QED
    BY <1>1, <1>2, <2>1, <2>2, <2>3 DEF Clean
<1>8. ASSUME prog.add > 0 PROVE Counting'
  <2>1. /\ group' \in Nat /\ Cardinality(handled') + group' = prog.add
        /\ todo' = <<>> => group' = 0
    BY <1>2, <1>3, <1>5, <1>6, <1>8, CountDone
  <2>2. \A m \in Msgs : m[1] = run /\ Kept(m)' => m \in Awaited'
    BY <1>1, <1>2, <1>3, <1>6, <1>8 DEF Counting, Kept, Awaited
  <2> QED
    BY <1>1, <1>2, <1>8, <2>1, <2>2 DEF Counting
<1>9. ASSUME prog.callers > 0 PROVE Answering'
  <2>1. /\ ~(prog.add > 0) /\ ~JetStream
    BY <1>4, <1>9 DEF NumbersFit, JetStream
  <2>2. todo' = todo
    BY <2>1 DEF HandlerReturns
  <2>3. \A m \in Msgs : m[1] = run /\ Kept(m)' => m \in asking \/ m \in handled'
    BY <1>2, <1>6, <1>9 DEF Answering, Kept
  <2>4. \A m \in Msgs : m[1] = run => msg'[m] # "acking" /\ (msg'[m] = "done" => m \in handled')
    BY <1>2, <1>6, <1>9, <2>1 DEF Answering
  <2> QED
    BY <1>1, <1>2, <1>9, <2>2, <2>3, <2>4 DEF Answering
<1> QED
  BY <1>7, <1>8, <1>9

LEMMA SmoothHandlerFails ==
  ASSUME TypeOK, Smooth, NEW n \in Msgs, HandlerFails(n)
  PROVE  Smooth'
PROOF
<1>1. /\ handled' = handled /\ asking' = asking /\ run' = run /\ prog' = prog
      /\ smooth' = smooth /\ sent' = sent /\ window' = window /\ msg[n] = "held"
      /\ group' = group /\ todo' = todo /\ prog.handler = "fails"
  BY DEF HandlerFails, mainVars, srvVars
<1>2. NumbersFit(prog) /\ ~(prog.callers > 0)
  BY <1>1, Known DEF NumbersFit
<1> SUFFICES ASSUME smooth', prog.add + prog.callers > 0
             PROVE  Clean' /\ (prog.add > 0 => Counting')
  BY <1>1, <1>2 DEF Smooth
<1>3. Clean /\ (prog.add > 0 => Counting)
  BY <1>1 DEF Smooth
<1>4. n[1] = run /\ n \notin handled /\ n \notin copies /\ Kept(n)
  BY <1>1, <1>3, AtHandler
<1>5. /\ \A m \in Msgs : m # n => msg'[m] = msg[m]
      /\ \/ msg'[n] = "out" /\ copies' = copies
         \/ msg'[n] = "acking" /\ copies' = copies \union {n}
  BY MoveType, Places DEF HandlerFails
<1>6. handled \subseteq Msgs /\ copies \subseteq Msgs
  BY DEF TypeOK
<1>7. Clean'
  <2>1. \A m \in Msgs : m[1] = run' \/ msg'[m] \in {"unsent", "done", "exhausted", "gone"}
    BY <1>1, <1>3, <1>4, <1>5 DEF Clean
  <2>2. \A m \in handled \union copies' : m[1] = run' /\ msg'[m] \in {"acking", "done"}
    BY <1>1, <1>3, <1>4, <1>5, <1>6 DEF Clean
  <2>3. handled \intersect copies' = {}
    BY <1>3, <1>4, <1>5 DEF Clean
  <2> QED
    BY <1>1, <2>1, <2>2, <2>3 DEF Clean
<1>8. ASSUME prog.add > 0 PROVE Counting'
  <2>1. \A m \in Msgs : m[1] = run /\ Kept(m)' => m \in Awaited'
    BY <1>1, <1>3, <1>4, <1>5, <1>8 DEF Counting, Kept, Awaited
  <2> QED
    BY <1>1, <1>3, <1>8, <2>1 DEF Counting
<1> QED
  BY <1>7, <1>8

\* The subscription to the DLQ subject is the only one that counts down then.
LEMMA SmoothReceived ==
  ASSUME TypeOK, Process, up, Smooth, NEW n \in Msgs, Received(n)
  PROVE  Smooth'
PROOF
<1>1. /\ handled' = handled \union {n} /\ asking' = asking /\ run' = run /\ prog' = prog
      /\ smooth' = smooth /\ sent' = sent /\ window' = window /\ msg' = msg
      /\ n \in copies /\ copies' = copies \ {n} /\ Done
  BY DEF Received, srvVars
<1> SUFFICES ASSUME smooth', prog.add + prog.callers > 0
             PROVE  /\ Clean'
                    /\ prog.add > 0 => Counting'
                    /\ prog.callers > 0 => Answering'
  BY <1>1 DEF Smooth
<1>2. Clean /\ (prog.add > 0 => Counting)
  BY <1>1 DEF Smooth
<1>3. n[1] = run /\ n \notin handled /\ prog.handler = "fails" /\ Kept(n)
  BY <1>1, <1>2 DEF Clean, Kept
<1>4. ~(prog.callers > 0)
  BY <1>3, Known DEF NumbersFit
<1>5. Clean'
  BY <1>1, <1>2, <1>3 DEF Clean
<1>6. ASSUME prog.add > 0 PROVE Counting'
  <2>1. n \in Awaited
    BY <1>2, <1>3, <1>6 DEF Counting
  <2>2. /\ group' \in Nat /\ Cardinality(handled') + group' = prog.add
        /\ todo' = <<>> => group' = 0
    BY <1>1, <1>2, <1>3, <1>6, <2>1, CountDone
  <2>3. \A m \in Msgs : m[1] = run /\ Kept(m)' => m \in Awaited'
    BY <1>1, <1>2, <1>6 DEF Counting, Kept, Awaited
  <2> QED
    BY <1>1, <1>2, <1>6, <2>2, <2>3 DEF Counting
<1> QED
  BY <1>4, <1>5, <1>6

LEMMA SmoothOthersReply ==
  ASSUME TypeOK, Smooth, NEW n \in Msgs, OthersReply(n)
  PROVE  Smooth'
PROOF
<1>1. /\ handled' = handled \union {n} /\ copies' = copies /\ asking' = asking /\ run' = run
      /\ prog' = prog /\ smooth' = smooth /\ todo' = todo /\ msg[n] = "out" /\ Elsewhere
  BY DEF OthersReply, mainVars
<1>2. prog.callers > 0 /\ ~(prog.add > 0)
  BY <1>1, Known DEF Elsewhere, NumbersFit
<1> SUFFICES ASSUME smooth', prog.add + prog.callers > 0
             PROVE  Clean' /\ Answering'
  BY <1>1, <1>2 DEF Smooth
<1>3. Clean /\ Answering
  BY <1>1, <1>2 DEF Smooth
<1>4. \A m \in Msgs : msg'[m] = IF m = n THEN "done" ELSE msg[m]
  BY MoveType, Places DEF OthersReply
<1>5. n[1] = run /\ n \notin copies
  BY <1>1, <1>3 DEF Clean
<1>6. handled \subseteq Msgs /\ copies \subseteq Msgs
  BY DEF TypeOK
<1>7. Clean'
  <2>1. \A m \in Msgs : m[1] = run' \/ msg'[m] \in {"unsent", "done", "exhausted", "gone"}
    BY <1>1, <1>3, <1>4 DEF Clean
  <2>2. \A m \in handled' \union copies : m[1] = run' /\ msg'[m] \in {"acking", "done"}
    BY <1>1, <1>3, <1>4, <1>5, <1>6 DEF Clean
  <2>3. handled' \intersect copies = {}
    BY <1>1, <1>3, <1>5 DEF Clean
  <2> QED
    BY <1>1, <1>3, <2>1, <2>2, <2>3 DEF Clean
<1>8. Answering'
  <2>1. \A m \in Msgs : m[1] = run /\ Kept(m)' => m \in asking' \/ m \in handled'
    BY <1>1, <1>3, <1>4 DEF Answering, Kept
  <2>2. \A m \in Msgs : m[1] = run => msg'[m] # "acking" /\ (msg'[m] = "done" => m \in handled')
    BY <1>1, <1>3, <1>4 DEF Answering
  <2> QED
    BY <1>1, <1>3, <2>1, <2>2 DEF Answering
<1> QED
  BY <1>7, <1>8

LEMMA SmoothNext ==
  TypeOK /\ Process /\ Planned /\ Fresh /\ Smooth /\ [Next]_vars => Smooth'
PROOF
<1> SUFFICES ASSUME TypeOK, Process, Planned, Fresh, Smooth, [Next]_vars PROVE Smooth'
  OBVIOUS
<1>1. CASE Passive
  BY <1>1, SmoothPassive
<1>2. CASE Begin
  BY <1>2, SmoothBegin
<1>3. CASE Publish \/ Request
  BY <1>3, SmoothPublish, SmoothRequest
<1>4. CASE \/ PublishFails \/ ContextEnds \/ Drop \/ Ends
           \/ \E n \in Msgs : RequestFails(n)
  <2>1. smooth' = FALSE
    BY <1>4 DEF PublishFails, ContextEnds, Drop, Ends, End, RequestFails
  <2> QED
    BY <2>1 DEF Smooth
<1>5. ASSUME NEW i \in 1..N, OthersPublish(i) PROVE Smooth'
  <2>1. prog.messages = 0 /\ prog' = prog
    BY <1>5 DEF OthersPublish
  <2>2. ~(prog.add + prog.callers > 0)
    BY <2>1, Known DEF NumbersFit
  <2> QED
    BY <2>1, <2>2 DEF Smooth
<1>6. ASSUME NEW n \in Msgs, Replied(n) \/ HandlerFails(n) \/ OthersReply(n) PROVE Smooth'
  BY <1>6, SmoothReplied, SmoothHandlerFails, SmoothOthersReply
<1>7. ASSUME NEW n \in Msgs, HandlerReturns(n) \/ Received(n) PROVE Smooth'
  <2>1. up
    BY <1>7 DEF HandlerReturns, Received, Process
  <2> QED
    BY <1>7, <2>1, SmoothHandlerReturns, SmoothReceived
<1> QED
  BY <1>1, <1>2, <1>3, <1>4, <1>5, <1>6, <1>7, NextCases DEF Passive, Caller

-----------------------------------------------------------------------------
(* The theorems *)

LEMMA InvInit == Init => IInv
PROOF
<1> SUFFICES ASSUME Init PROVE IInv
  OBVIOUS
<1>1. TypeOK
  BY TypeInit
<1>2. Process
  BY DEF Init, Process, In
<1>3. Planned
  <2>1. todo = <<>> /\ Len(todo) = 0
    BY DEF Init
  <2> QED
    BY <2>1 DEF Planned
<1>4. Fresh
  BY DEF Init, Fresh
<1>5. Budget
  BY <1>1, Known DEF Init, Budget
<1>6. Smooth
  BY DEF Init, Smooth
<1> QED
  BY <1>1, <1>2, <1>3, <1>4, <1>5, <1>6 DEF IInv

\* The inductive invariant holds: what the processes leave behind, what main has
\* left to do, what has not been published, the deliveries that are left, and
\* the count of the wait group of a run without faults
\* (examples/consumer/jetstream/durable/main.go:60-105,
\* examples/consumer/jetstream/dlq/main.go:50-134).
THEOREM Invariant == Spec => []IInv
PROOF
<1>1. Init => IInv
  BY InvInit
<1>2. IInv /\ [Next]_vars => IInv'
  BY TypeNext, ProcessNext, PlannedNext, FreshNext, BudgetNext, SmoothNext DEF IInv
<1> QED
  BY <1>1, <1>2, PTL DEF Spec

\* Every variable keeps its type: no program sends more than its messages, the server
\* counts no delivery beyond the limit (examples/consumer/jetstream/dlq/main.go:72-79),
\* and the wait group never falls below minus one.
THEOREM TypeCorrect == Spec => []TypeOK
PROOF
<1>1. IInv => TypeOK
  BY DEF IInv
<1> QED
  BY <1>1, Invariant, PTL

LEMMA DoneHandled == IInv => DoneMeansHandled
PROOF
<1> SUFFICES ASSUME IInv, up, todo = <<>>, smooth, prog.add + prog.callers > 0,
                    NEW m \in Msgs, m[1] = run, Kept(m)
             PROVE  m \in handled
  BY DEF DoneMeansHandled, Kept
<1>1. TypeOK /\ Process /\ NumbersFit(prog)
  BY Known DEF IInv
<1>2. Clean /\ (prog.add > 0 => Counting) /\ (prog.callers > 0 => Answering)
  BY DEF IInv, Smooth
<1>3. CASE prog.add > 0
  <2>1. m \in Awaited /\ group = 0
    BY <1>2, <1>3 DEF Counting
  <2>2. handled = Awaited
    BY <1>1, <1>2, <1>3, <2>1, AllHandled
  <2> QED
    BY <2>1, <2>2
<1>4. CASE prog.callers > 0
  BY <1>2, <1>4 DEF Answering
<1> QED
  BY <1>1, <1>3, <1>4 DEF NumbersFit

\* A program that has left wg.Wait, or its requests, in a run without faults has
\* handled every message of the run, however many it publishes, how often it was run
\* before and how often its connection broke then ("Wait for all messages to be
\* processed", examples/consumer/jetstream/durable/main.go:94).
THEOREM DoneIsHandled == Spec => []DoneMeansHandled
PROOF
  BY Invariant, DoneHandled, PTL

=============================================================================
