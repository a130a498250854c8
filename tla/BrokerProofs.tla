---------------------------- MODULE BrokerProofs ----------------------------
(***************************************************************************)
(* Proofs of the safety properties of Broker, for any number of routes and *)
(* any non-empty set of workers.                                           *)
(***************************************************************************)
EXTENDS Broker, TLAPS

-----------------------------------------------------------------------------
(* Facts about the data *)

\* The error values are told apart, and so are the errors of two routes.
LEMMA ErrorValues ==
  ASSUME NEW r \in Routes
  PROVE  /\ RouteErr(r) # Nil /\ RouteErr(r) # ErrNoRoutes
         /\ RouteErr(r) # ErrNilRouteRegistration
         /\ \A s \in Routes : RouteErr(r) = RouteErr(s) => r = s
         /\ RouteErr(r) \in Errors /\ Nil \in Errors
         /\ ErrNoRoutes \in Errors /\ ErrNilRouteRegistration \in Errors
         /\ Nil # ErrNoRoutes /\ Nil # ErrNilRouteRegistration
PROOF
<1>1. /\ Nil # ErrNoRoutes /\ Nil # ErrNilRouteRegistration
      /\ Nil \in Errors /\ ErrNoRoutes \in Errors
      /\ ErrNilRouteRegistration \in Errors
  BY DEF Nil, ErrNoRoutes, ErrNilRouteRegistration, Errors
<1>2. RouteErr(r) \in Errors
  BY DEF Errors
<1>3. /\ RouteErr(r) # Nil /\ RouteErr(r) # ErrNoRoutes
      /\ RouteErr(r) # ErrNilRouteRegistration
  BY DEF RouteErr, Nil, ErrNoRoutes, ErrNilRouteRegistration
<1>4. \A s \in Routes : RouteErr(r) = RouteErr(s) => r = s
  BY DEF RouteErr
<1> QED
  BY <1>1, <1>2, <1>3, <1>4

\* Run launches no more routes than it was given.
LEMMA ArgsDomain ==
  ASSUME NEW args \in Args, NEW i \in DOMAIN args
  PROVE  i \in 1..MaxRoutes
PROOF
<1>1. PICK n \in 0..MaxRoutes : args \in [1..n -> {"registration", "nil"}]
  BY DEF Args
<1>2. DOMAIN args = 1..n
  BY <1>1
<1> QED
  BY <1>1, <1>2, MaxRoutesAssumption

-----------------------------------------------------------------------------
(* Type correctness *)

LEMMA TypeInit == Init => TypeOK
PROOF
<1> SUFFICES ASSUME Init PROVE TypeOK
  OBVIOUS
<1>1. Nil \in Errors
  BY DEF Errors
<1>2. 0 \in 0..MaxRoutes
  BY MaxRoutesAssumption
<1> QED
  BY <1>1, <1>2 DEF Init, TypeOK, RunPcs, RoutePcs, WorkerPcs, SubStates

LEMMA ReleaseType ==
  ASSUME NEW pc \in [Routes -> RoutePcs]
  PROVE  ReleaseRoutes(pc) \in [Routes -> RoutePcs]
PROOF
  BY DEF ReleaseRoutes, RoutePcs

LEMMA TypeRun ==
  TypeOK /\ (CallerCancel \/ RunStep) => TypeOK'
PROOF
<1> SUFFICES ASSUME TypeOK, CallerCancel \/ RunStep PROVE TypeOK'
  OBVIOUS
<1> USE DEF vars, ctxVars, runVars, routeVars, workerVars
<1>1. CASE CallerCancel
  BY <1>1, ReleaseType DEF CallerCancel, ReleaseRun, TypeOK, RunPcs
<1>2. CASE RunEntry
  BY <1>2 DEF RunEntry, TypeOK, RunPcs, Errors
<1>3. CASE RunLoop
  <2>1. /\ regs' = regs /\ next + 1 \in 1..MaxRoutes
    BY <1>3, ArgsDomain DEF RunLoop, TypeOK
  <2>2. /\ next' \in 0..MaxRoutes
    BY <1>3, <2>1, MaxRoutesAssumption DEF RunLoop, TypeOK
  <2>3. routePc' \in [Routes -> RoutePcs]
    BY <1>3 DEF RunLoop, TypeOK, RoutePcs
  <2>4. runErr' \in Errors /\ runPc' \in RunPcs
    BY <1>3 DEF RunLoop, TypeOK, Errors, RunPcs
  <2> QED
    BY <1>3, <2>1, <2>2, <2>3, <2>4 DEF RunLoop, TypeOK
<1>4. CASE RunLoopEnd
  BY <1>4 DEF RunLoopEnd, TypeOK, RunPcs
<1>5. CASE RunSelect
  BY <1>5 DEF RunSelect, TypeOK, RunPcs, Errors
<1>6. CASE RunReturn
  BY <1>6, ReleaseType DEF RunReturn, TypeOK, RunPcs
<1> QED
  BY <1>1, <1>2, <1>3, <1>4, <1>5, <1>6 DEF RunStep

LEMMA TypeRoute ==
  ASSUME NEW r \in Routes, TypeOK, RouteStep(r) \/ CloseDone(r)
  PROVE  TypeOK'
PROOF
<1> USE DEF vars, ctxVars, runVars, routeVars, workerVars
<1>0. RouteErr(r) \in Errors /\ Nil \in Errors
  BY ErrorValues
<1>1. CASE RouteNew(r)
  <2>1. /\ routePc' \in [Routes -> RoutePcs]
        /\ routeErr' \in [Routes -> Errors]
    BY <1>0, <1>1 DEF RouteNew, TypeOK, RoutePcs
  <2> QED
    BY <1>1, <2>1 DEF RouteNew, TypeOK
<1>2. CASE SpawnCloser(r)
  BY <1>2 DEF SpawnCloser, TypeOK, RoutePcs
<1>3. CASE RouteSelect(r)
  <2>1. /\ routePc \in [Routes -> RoutePcs]
        /\ routeErr \in [Routes -> Errors]
        /\ workerErrCh \in [Routes -> Errors]
    BY DEF TypeOK
  <2>2. \E pc \in RoutePcs : routePc' = [routePc EXCEPT ![r] = pc]
    BY <1>3 DEF RouteSelect, RoutePcs
  <2>3. \/ /\ routeErr' = [routeErr EXCEPT ![r] = workerErrCh[r]]
           /\ workerErrCh' = [workerErrCh EXCEPT ![r] = Nil]
        \/ routeErr' = routeErr /\ workerErrCh' = workerErrCh
    BY <1>3 DEF RouteSelect
  <2>4. routeErr' \in [Routes -> Errors] /\ workerErrCh' \in [Routes -> Errors]
    BY <1>0, <2>1, <2>3
  <2>5. routePc' \in [Routes -> RoutePcs]
    BY <2>1, <2>2
  <2> QED
    BY <1>3, <2>4, <2>5 DEF RouteSelect, TypeOK
<1>4. CASE RouteReport(r)
  BY <1>4 DEF RouteReport, TypeOK, RoutePcs, RunPcs
<1>5. CASE RouteCancel(r)
  <2>1. [routePc EXCEPT ![r] = "ended"] \in [Routes -> RoutePcs]
    BY DEF TypeOK, RoutePcs
  <2> QED
    BY <1>5, <2>1, ReleaseType DEF RouteCancel, ReleaseRun, TypeOK, RunPcs
<1>6. ASSUME NEW w \in Workers, SpawnWorker(r, w)
      PROVE  TypeOK'
  BY <1>6 DEF SpawnWorker, TypeOK, WorkerPcs
<1>7. CASE CloseDone(r)
  BY <1>7 DEF CloseDone, TypeOK, RoutePcs
<1> QED
  BY <1>1, <1>2, <1>3, <1>4, <1>5, <1>6, <1>7 DEF RouteStep

LEMMA TypeWorker ==
  ASSUME NEW r \in Routes, NEW w \in Workers, TypeOK,
         WorkerStep(r, w) \/ DrainOnCancel(r, w)
  PROVE  TypeOK'
PROOF
<1> USE DEF vars, ctxVars, runVars, routeVars, workerVars
<1>1. CASE WorkerStart(r, w)
  <2>1. /\ workerPc \in [Routes -> [Workers -> WorkerPcs]]
        /\ sub \in [Routes -> [Workers -> SubStates]]
    BY DEF TypeOK
  <2>2. \E pc \in WorkerPcs : workerPc' = [workerPc EXCEPT ![r][w] = pc]
    BY <1>1 DEF WorkerStart, WorkerPcs
  <2>3. \/ \E s \in SubStates : sub' = [sub EXCEPT ![r][w] = s]
        \/ sub' = sub
    BY <1>1 DEF WorkerStart, SubStates
  <2>4. workerPc' \in [Routes -> [Workers -> WorkerPcs]]
    BY <2>1, <2>2
  <2>5. sub' \in [Routes -> [Workers -> SubStates]]
    <3>1. CASE sub' = sub
      BY <2>1, <3>1
    <3>2. CASE \E s \in SubStates : sub' = [sub EXCEPT ![r][w] = s]
      BY <2>1, <3>2
    <3> QED
      BY <2>3, <3>1, <3>2
  <2> QED
    BY <1>1, <2>4, <2>5 DEF WorkerStart, TypeOK
<1>2. CASE WorkerReport(r, w)
  <2>1. workerPc' \in [Routes -> [Workers -> WorkerPcs]]
    BY <1>2 DEF WorkerReport, TypeOK, WorkerPcs
  <2>2. RouteErr(r) \in Errors
    BY ErrorValues
  <2>3. /\ routePc \in [Routes -> RoutePcs]
        /\ routeErr \in [Routes -> Errors]
        /\ workerErrCh \in [Routes -> Errors]
        /\ errOnce \in [Routes -> BOOLEAN]
    BY DEF TypeOK
  <2>4. \/ routePc' = [routePc EXCEPT ![r] = "report"]
        \/ routePc' = routePc
    BY <1>2 DEF WorkerReport, SendWorkerErr
  <2>5. \/ routeErr' = [routeErr EXCEPT ![r] = RouteErr(r)]
        \/ routeErr' = routeErr
    BY <1>2 DEF WorkerReport, SendWorkerErr
  <2>6. \/ workerErrCh' = [workerErrCh EXCEPT ![r] = RouteErr(r)]
        \/ workerErrCh' = workerErrCh
    BY <1>2 DEF WorkerReport, SendWorkerErr
  <2>7. \/ errOnce' = [errOnce EXCEPT ![r] = TRUE]
        \/ errOnce' = errOnce
    BY <1>2 DEF WorkerReport
  <2>8. routePc' \in [Routes -> RoutePcs]
    BY <2>3, <2>4 DEF RoutePcs
  <2>9. /\ routeErr' \in [Routes -> Errors]
        /\ workerErrCh' \in [Routes -> Errors]
        /\ errOnce' \in [Routes -> BOOLEAN]
    BY <2>2, <2>3, <2>5, <2>6, <2>7
  <2> QED
    BY <1>2, <2>1, <2>8, <2>9 DEF WorkerReport, TypeOK
<1>3. CASE WorkerDone(r, w)
  BY <1>3 DEF WorkerDone, TypeOK, WorkerPcs
<1>4. CASE DrainOnCancel(r, w)
  BY <1>4 DEF DrainOnCancel, TypeOK, SubStates
<1> QED
  BY <1>1, <1>2, <1>3, <1>4 DEF WorkerStep

LEMMA TypeNext == TypeOK /\ [Next]_vars => TypeOK'
PROOF
<1> SUFFICES ASSUME TypeOK, [Next]_vars PROVE TypeOK'
  OBVIOUS
<1>1. CASE UNCHANGED vars
  BY <1>1 DEF TypeOK, vars, ctxVars, runVars, routeVars, workerVars
<1>2. CASE Next
  BY <1>1, <1>2, TypeRun, TypeRoute, TypeWorker DEF Next, Finished
<1> QED
  BY <1>1, <1>2

\* Type correctness, for any number of routes and workers.
THEOREM TypeCorrect == Spec => []TypeOK
PROOF
  BY TypeInit, TypeNext, PTL DEF Spec

-----------------------------------------------------------------------------
(* The inductive invariant *)

\* A route, its channel and its workers: an error is the route's own, errOnce
\* has fired before anything is in workerErrCh, and the program counter tells
\* whether runRoute has an error to hand on.
RouteShape(r) ==
  /\ routePc[r] \in {"idle", "new"} => \A w \in Workers : workerPc[r][w] = "idle"
  /\ routeErr[r] \in {Nil, RouteErr(r)}
  /\ workerErrCh[r] \in {Nil, RouteErr(r)}
  /\ routePc[r] \in {"report", "cancel"} => routeErr[r] # Nil
  /\ routeErr[r] # Nil => routePc[r] \in {"report", "cancel", "ended"}
  /\ workerErrCh[r] # Nil => errOnce[r]

\* A worker that has not started, or is reporting, has no subscription.
WorkerShape(r, w) ==
  workerPc[r][w] \in {"idle", "start", "report"} => sub[r][w] = "none"

\* An error of a route has its cause among the route's own workers, or is
\* consumer.New's and then no worker was launched.
FailureShape(r) ==
  /\ errOnce[r] => \E w \in Workers : WorkerFailed(r, w)
  /\ routeErr[r] # Nil => \/ \E w \in Workers : WorkerFailed(r, w)
                          \/ \A w \in Workers : workerPc[r][w] = "idle"

\* An error in Run's hands is one of Run's own or one a route returned.
Known(e) ==
  \/ e \in {Nil, ErrNoRoutes, ErrNilRouteRegistration}
  \/ \E r \in Routes : e = RouteErr(r) /\ routeErr[r] = RouteErr(r)

\* Why the derived context may be done while Run has not returned.
Cause == callerDone \/ \E r \in Routes : Reported(r)

RunShape ==
  /\ runErr # Nil => runPc \in {"returning", "returned"}
  /\ Known(errCh) /\ Known(runErr)
  /\ ctxDone /\ runPc # "returned" => Cause
  /\ runPc \in {"returning", "returned"} /\ runErr = Nil => Cause

\* The loop launches the routes in order.
LaunchOrder ==
  runPc \in {"entry", "loop"} =>
    \A r \in Routes : r > next => routePc[r] = "idle"

IInv ==
  /\ TypeOK
  /\ \A r \in Routes : RouteShape(r)
  /\ \A r \in Routes, w \in Workers : WorkerShape(r, w)
  /\ \A r \in Routes : FailureShape(r)
  /\ RunShape
  /\ LaunchOrder
  /\ ErrorNeverDroppedAlone

-----------------------------------------------------------------------------
(* What most steps leave alone *)

\* The moves of a route's program counter that no error takes part in.
QuietMoves ==
  {<<"idle", "new">>, <<"new", "spawn">>, <<"spawn", "select">>,
   <<"select", "parked">>, <<"select", "ended">>, <<"parked", "ended">>,
   <<"report", "cancel">>, <<"cancel", "ended">>}

QuietRoute(r) ==
  routePc'[r] = routePc[r] \/ <<routePc[r], routePc'[r]>> \in QuietMoves

\* What Run and the other routes learned of a route's error stays true.
ErrorsKept ==
  /\ \A r \in Routes : routeErr[r] # Nil => routeErr'[r] = routeErr[r]
  /\ \A r \in Routes : Reported(r) => Reported(r)'

\* A step that moves routes quietly keeps the shape of routes and workers.
LEMMA QuietShape ==
  ASSUME IInv, UNCHANGED <<routeErr, workerErrCh, errOnce, workerPc, sub>>,
         \A r \in Routes : QuietRoute(r)
  PROVE  /\ \A r \in Routes : RouteShape(r)'
         /\ \A r \in Routes, w \in Workers : WorkerShape(r, w)'
         /\ \A r \in Routes : FailureShape(r)'
         /\ ErrorsKept
PROOF
<1>1. ASSUME NEW r \in Routes
      PROVE  RouteShape(r)' /\ FailureShape(r)' /\ (Reported(r) => Reported(r)')
  <2>1. RouteShape(r) /\ FailureShape(r) /\ QuietRoute(r)
    BY DEF IInv
  <2>2. RouteShape(r)'
    BY <2>1 DEF RouteShape, QuietRoute, QuietMoves
  <2>3. FailureShape(r)'
    BY <2>1 DEF FailureShape, WorkerFailed
  <2>4. Reported(r) => Reported(r)'
    BY <2>1 DEF Reported, QuietRoute, QuietMoves
  <2> QED
    BY <2>2, <2>3, <2>4
<1>2. \A r \in Routes, w \in Workers : WorkerShape(r, w)'
  BY DEF IInv, WorkerShape
<1> QED
  BY <1>1, <1>2 DEF ErrorsKept

\* Under such a step a known error stays known and a cause stays a cause.
LEMMA KnownKept ==
  ASSUME ErrorsKept
  PROVE  /\ \A e : Known(e) => Known(e)'
         /\ (\E r \in Routes : Reported(r)) => (\E r \in Routes : Reported(r))'
PROOF
<1>1. ASSUME NEW e, Known(e) PROVE Known(e)'
  <2>1. CASE e \in {Nil, ErrNoRoutes, ErrNilRouteRegistration}
    BY <2>1 DEF Known
  <2>2. CASE \E r \in Routes : e = RouteErr(r) /\ routeErr[r] = RouteErr(r)
    <3>1. PICK r \in Routes : e = RouteErr(r) /\ routeErr[r] = RouteErr(r)
      BY <2>2
    <3>2. routeErr'[r] = RouteErr(r)
      BY <3>1, ErrorValues DEF ErrorsKept
    <3> QED
      BY <3>1, <3>2 DEF Known
  <2> QED
    BY <1>1, <2>1, <2>2 DEF Known
<1> QED
  BY <1>1 DEF ErrorsKept

\* The released routes moved quietly.
LEMMA ReleaseQuiet ==
  ASSUME NEW pc \in [Routes -> RoutePcs], routePc' = ReleaseRoutes(pc),
         NEW r \in Routes, pc[r] = routePc[r]
  PROVE  QuietRoute(r)
PROOF
  BY DEF ReleaseRoutes, QuietRoute, QuietMoves

-----------------------------------------------------------------------------
(* The steps of the caller and of Run *)

LEMMA CallerCancelIInv == IInv /\ CallerCancel => IInv'
PROOF
<1> SUFFICES ASSUME IInv, CallerCancel PROVE IInv'
  OBVIOUS
<1>1. TypeOK /\ TypeOK'
  BY TypeRun DEF IInv
<1>2. UNCHANGED <<routeErr, workerErrCh, errOnce, workerPc, sub>>
  BY DEF CallerCancel, workerVars
<1>3. \A r \in Routes : QuietRoute(r)
  BY <1>1, ReleaseQuiet DEF CallerCancel, TypeOK
<1>4. /\ \A r \in Routes : RouteShape(r)'
      /\ \A r \in Routes, w \in Workers : WorkerShape(r, w)'
      /\ \A r \in Routes : FailureShape(r)'
      /\ ErrorsKept
  BY <1>2, <1>3, QuietShape
<1>5. RunShape'
  <2>1. RunShape /\ callerDone' /\ UNCHANGED <<runErr, errCh, routeErr>>
    BY DEF IInv, CallerCancel
  <2>2. runErr # Nil => runPc' \in {"returning", "returned"}
    BY <2>1 DEF RunShape, CallerCancel, ReleaseRun
  <2>3. Known(errCh)' /\ Known(runErr)'
    BY <2>1 DEF RunShape, Known
  <2> QED
    BY <2>1, <2>2, <2>3 DEF RunShape, Cause
<1>6. ErrorNeverDroppedAlone'
  <2>1. ASSUME NEW r \in Routes, Reported(r)' PROVE Reported(r)
    BY <1>1, <2>1 DEF IInv, RouteShape, Reported, CallerCancel, ReleaseRoutes
  <2> QED
    BY <2>1 DEF IInv, ErrorNeverDroppedAlone, CallerCancel
<1>7. LaunchOrder'
  BY <1>1 DEF IInv, LaunchOrder, CallerCancel, ReleaseRun, ReleaseRoutes
<1> QED
  BY <1>1, <1>4, <1>5, <1>6, <1>7 DEF IInv

LEMMA RunReturnIInv == IInv /\ RunReturn => IInv'
PROOF
<1> SUFFICES ASSUME IInv, RunReturn PROVE IInv'
  OBVIOUS
<1>1. TypeOK /\ TypeOK'
  BY TypeRun DEF IInv, RunStep
<1>2. UNCHANGED <<routeErr, workerErrCh, errOnce, workerPc, sub>>
  BY DEF RunReturn, workerVars
<1>3. \A r \in Routes : QuietRoute(r)
  BY <1>1, ReleaseQuiet DEF RunReturn, TypeOK
<1>4. /\ \A r \in Routes : RouteShape(r)'
      /\ \A r \in Routes, w \in Workers : WorkerShape(r, w)'
      /\ \A r \in Routes : FailureShape(r)'
      /\ ErrorsKept
  BY <1>2, <1>3, QuietShape
<1>5. RunShape'
  <2>1. /\ RunShape /\ runPc = "returning" /\ runPc' = "returned"
        /\ UNCHANGED <<callerDone, runErr, errCh, routeErr>>
    BY DEF IInv, RunReturn
  <2>2. Known(errCh)' /\ Known(runErr)'
    BY <2>1 DEF RunShape, Known
  <2>3. Cause => Cause'
    BY <1>4, <2>1 DEF Cause, ErrorsKept
  <2> QED
    BY <2>1, <2>2, <2>3 DEF RunShape
<1>6. ErrorNeverDroppedAlone'
  <2>1. ASSUME NEW r \in Routes, Reported(r)' PROVE Reported(r)
    BY <1>1, <2>1 DEF IInv, RouteShape, Reported, RunReturn, ReleaseRoutes
  <2> QED
    BY <2>1 DEF IInv, ErrorNeverDroppedAlone, RunReturn
<1>7. LaunchOrder'
  BY <1>1 DEF IInv, LaunchOrder, RunReturn, ReleaseRun, ReleaseRoutes
<1> QED
  BY <1>1, <1>4, <1>5, <1>6, <1>7 DEF IInv

\* The other steps of Run touch no route that has been launched.
LEMMA RunStepIInv ==
  IInv /\ (RunEntry \/ RunLoop \/ RunLoopEnd \/ RunSelect) => IInv'
PROOF
<1> SUFFICES ASSUME IInv, RunEntry \/ RunLoop \/ RunLoopEnd \/ RunSelect
             PROVE  IInv'
  OBVIOUS
<1>1. TypeOK /\ TypeOK'
  BY TypeRun DEF IInv, RunStep
<1>2. UNCHANGED <<ctxDone, callerDone, routeErr, workerErrCh, errOnce, workerPc,
                  sub>>
  BY DEF RunEntry, RunLoop, RunLoopEnd, RunSelect, ctxVars, routeVars, workerVars
<1>3. CASE RunLoop
  <2>1. next + 1 \in Routes
    BY <1>1, <1>3, ArgsDomain DEF RunLoop, TypeOK, Routes
  <2>2. routePc[next + 1] = "idle"
    BY <1>1, <1>3, <2>1, MaxRoutesAssumption
    DEF IInv, LaunchOrder, RunLoop, Routes, TypeOK
  <2>3. \/ routePc' = routePc
        \/ routePc' = [routePc EXCEPT ![next + 1] = "new"]
    BY <1>3 DEF RunLoop
  <2>4. \A r \in Routes : QuietRoute(r)
    BY <1>1, <2>1, <2>2, <2>3 DEF TypeOK, QuietRoute, QuietMoves
  <2>5. /\ \A r \in Routes : RouteShape(r)'
        /\ \A r \in Routes, w \in Workers : WorkerShape(r, w)'
        /\ \A r \in Routes : FailureShape(r)'
        /\ ErrorsKept
    BY <1>2, <2>4, QuietShape
  <2>6. LaunchOrder'
    <3>1. CASE routePc' = routePc
      BY <1>1, <1>3, <3>1, MaxRoutesAssumption
      DEF IInv, LaunchOrder, RunLoop, Routes, TypeOK
    <3>2. CASE /\ routePc' = [routePc EXCEPT ![next + 1] = "new"]
               /\ next' = next + 1 /\ runPc' = runPc
      BY <1>1, <1>3, <3>2, MaxRoutesAssumption
      DEF IInv, LaunchOrder, RunLoop, Routes, TypeOK
    <3> QED
      BY <1>3, <3>1, <3>2 DEF RunLoop
  <2>7. RunShape'
    <3>1. RunShape /\ runPc = "loop" /\ errCh' = errCh
      BY <1>3 DEF IInv, RunLoop
    <3>2. \/ runErr' = ErrNilRouteRegistration /\ runPc' = "returning"
          \/ runErr' = runErr /\ runPc' = runPc
      BY <1>3 DEF RunLoop
    <3>3. Known(errCh)' /\ Known(runErr)'
      BY <1>2, <3>1, <3>2 DEF RunShape, Known
    <3>4. Cause => Cause'
      BY <1>2, <2>5 DEF Cause, ErrorsKept
    <3>5. Nil # ErrNilRouteRegistration
      BY <2>1, ErrorValues
    <3> QED
      BY <1>2, <3>1, <3>2, <3>3, <3>4, <3>5 DEF RunShape
  <2>8. ErrorNeverDroppedAlone'
    <3>1. ASSUME NEW r \in Routes, Reported(r)' PROVE Reported(r)
      BY <1>1, <1>2, <2>1, <2>3, <3>1 DEF Reported, TypeOK
    <3>2. errCh' = errCh /\ (runErr = Nil \/ runErr' # Nil)
      BY <1>3, <2>1, ErrorValues DEF RunLoop
    <3> QED
      BY <3>1, <3>2 DEF IInv, ErrorNeverDroppedAlone
  <2> QED
    BY <1>1, <2>5, <2>6, <2>7, <2>8 DEF IInv
<1>4. CASE RunEntry \/ RunLoopEnd \/ RunSelect
  <2>1. routePc' = routePc /\ next' = next
    BY <1>4 DEF RunEntry, RunLoopEnd, RunSelect, routeVars
  <2>2. \A r \in Routes : QuietRoute(r)
    BY <2>1 DEF QuietRoute
  <2>3. /\ \A r \in Routes : RouteShape(r)'
        /\ \A r \in Routes, w \in Workers : WorkerShape(r, w)'
        /\ \A r \in Routes : FailureShape(r)'
        /\ ErrorsKept
    BY <1>2, <2>2, QuietShape
  <2>4. LaunchOrder'
    BY <1>4, <2>1 DEF IInv, LaunchOrder, RunEntry, RunLoopEnd, RunSelect
  <2>5. \A r \in Routes : Reported(r)' <=> Reported(r)
    BY <1>2, <2>1 DEF Reported
  <2>6. Cause' <=> Cause
    BY <1>2, <2>5 DEF Cause
  <2>7. ErrNoRoutes # Nil
    BY DEF ErrNoRoutes, Nil
  <2>8. \/ /\ runPc = "entry" /\ runPc' = "returned"
           /\ runErr' = ErrNoRoutes /\ errCh' = errCh
        \/ /\ runPc \in {"entry", "loop", "select"}
           /\ runPc' \in {"loop", "select", "parked"}
           /\ runErr' = runErr /\ errCh' = errCh
        \/ /\ runPc = "select" /\ runPc' = "returning"
           /\ errCh # Nil /\ runErr' = errCh /\ errCh' = Nil
        \/ /\ runPc = "select" /\ runPc' = "returning" /\ ctxDone
           /\ runErr' = runErr /\ errCh' = errCh
    BY <1>4 DEF RunEntry, RunLoopEnd, RunSelect
  <2>9. Known(errCh)' /\ Known(runErr)'
    BY <1>2, <2>8 DEF IInv, RunShape, Known
  <2>10. RunShape'
    BY <1>2, <2>6, <2>7, <2>8, <2>9 DEF IInv, RunShape
  <2>11. ErrorNeverDroppedAlone'
    BY <2>5, <2>7, <2>8 DEF IInv, ErrorNeverDroppedAlone
  <2> QED
    BY <1>1, <2>3, <2>4, <2>10, <2>11 DEF IInv
<1> QED
  BY <1>3, <1>4

-----------------------------------------------------------------------------
(* The steps of a route's goroutine *)

\* Quiet steps of a route: Run learns nothing new and no cause disappears.
LEMMA QuietRouteStep ==
  ASSUME IInv, TypeOK',
         UNCHANGED <<ctxVars, runVars, routeErr, workerErrCh, errOnce, workerPc,
                     sub>>,
         \A r \in Routes : QuietRoute(r) /\ (routePc[r] \in {"idle", "report"} =>
                                                routePc'[r] = routePc[r])
  PROVE  IInv'
PROOF
<1>1. /\ \A r \in Routes : RouteShape(r)'
      /\ \A r \in Routes, w \in Workers : WorkerShape(r, w)'
      /\ \A r \in Routes : FailureShape(r)'
      /\ ErrorsKept
  BY QuietShape
<1>2. LaunchOrder'
  BY DEF IInv, LaunchOrder, runVars
<1>3. ASSUME NEW r \in Routes, Reported(r)' PROVE Reported(r)
  <2>1. routeErr[r] # Nil /\ routePc'[r] \in {"cancel", "ended"}
    BY <1>3 DEF Reported
  <2>2. routePc[r] \in {"report", "cancel", "ended"}
    BY <2>1 DEF IInv, RouteShape
  <2>3. routePc[r] # "report"
    BY <2>1
  <2> QED
    BY <2>1, <2>2, <2>3 DEF Reported
<1>4. Cause' <=> Cause
  BY <1>1, <1>3 DEF Cause, ErrorsKept, ctxVars
<1>5. Known(errCh)' /\ Known(runErr)'
  BY DEF IInv, RunShape, Known, runVars
<1>6. RunShape'
  BY <1>4, <1>5 DEF IInv, RunShape, runVars, ctxVars
<1>7. ErrorNeverDroppedAlone'
  BY <1>3 DEF IInv, ErrorNeverDroppedAlone, runVars
<1> QED
  BY <1>1, <1>2, <1>6, <1>7 DEF IInv

\* A route that is not yet done takes its first error: from consumer.New, from
\* the buffer or straight from a worker.  This is what such a step does.
TakesError(r) ==
  /\ routePc[r] \notin {"idle", "report", "cancel", "ended"}
  /\ routePc' = [routePc EXCEPT ![r] = "report"]
  /\ routeErr' = [routeErr EXCEPT ![r] = RouteErr(r)]

LEMMA TakesErrorKeeps ==
  ASSUME NEW r \in Routes, IInv, TypeOK', TakesError(r),
         UNCHANGED <<callerDone, ctxDone, runPc, next, runErr, errCh>>
  PROVE  /\ RunShape' /\ LaunchOrder' /\ ErrorNeverDroppedAlone'
         /\ routePc'[r] = "report" /\ routeErr'[r] = RouteErr(r)
         /\ RouteErr(r) # Nil
         /\ \A q \in Routes : q # r => routePc'[q] = routePc[q]
                                      /\ routeErr'[q] = routeErr[q]
PROOF
<1>1. RouteErr(r) # Nil /\ routeErr[r] = Nil
  BY ErrorValues DEF IInv, RouteShape, TakesError
<1>2. /\ routePc'[r] = "report" /\ routeErr'[r] = RouteErr(r)
      /\ \A q \in Routes : q # r => routePc'[q] = routePc[q]
                                   /\ routeErr'[q] = routeErr[q]
  BY DEF IInv, TypeOK, TakesError
<1>3. \A q \in Routes : Reported(q)' <=> Reported(q)
  BY <1>1, <1>2 DEF Reported, TakesError
<1>4. Known(errCh)' /\ Known(runErr)'
  <2>1. \A q \in Routes : routeErr[q] = RouteErr(q) => routeErr'[q] = RouteErr(q)
    BY <1>2
  <2> QED
    BY <2>1 DEF IInv, RunShape, Known
<1>5. Cause' <=> Cause
  BY <1>3 DEF Cause
<1>6. RunShape'
  BY <1>4, <1>5 DEF IInv, RunShape
<1>7. LaunchOrder'
  BY <1>2 DEF IInv, LaunchOrder, TakesError
<1>8. ErrorNeverDroppedAlone'
  BY <1>3 DEF IInv, ErrorNeverDroppedAlone
<1> QED
  BY <1>1, <1>2, <1>6, <1>7, <1>8

\* consumer.New, the launch of the closer, the branches of the select without
\* an error, and the closing of done are quiet or set the route's first error.
LEMMA RouteNewIInv ==
  ASSUME NEW r \in Routes, IInv, RouteNew(r)
  PROVE  IInv'
PROOF
<1>1. TypeOK /\ TypeOK'
  BY TypeRoute DEF IInv, RouteStep
<1>2. CASE routePc' = [routePc EXCEPT ![r] = "spawn"] /\ UNCHANGED routeErr
  <2>1. \A q \in Routes : QuietRoute(q) /\ (routePc[q] \in {"idle", "report"} =>
                                                routePc'[q] = routePc[q])
    BY <1>1, <1>2 DEF RouteNew, TypeOK, QuietRoute, QuietMoves
  <2> QED
    BY <1>1, <1>2, <2>1, QuietRouteStep DEF RouteNew, workerVars
<1>3. CASE /\ routePc' = [routePc EXCEPT ![r] = "report"]
           /\ routeErr' = [routeErr EXCEPT ![r] = RouteErr(r)]
  <2>1. /\ routePc[r] = "new" /\ UNCHANGED <<workerErrCh, errOnce, workerPc, sub>>
        /\ UNCHANGED <<callerDone, ctxDone, runPc, next, runErr, errCh>>
    BY <1>3 DEF RouteNew, ctxVars, runVars, workerVars
  <2>2. TakesError(r)
    BY <1>3, <2>1 DEF TakesError
  <2>3. /\ RunShape' /\ LaunchOrder' /\ ErrorNeverDroppedAlone'
        /\ routePc'[r] = "report" /\ routeErr'[r] = RouteErr(r)
        /\ RouteErr(r) # Nil
        /\ \A q \in Routes : q # r => routePc'[q] = routePc[q]
                                     /\ routeErr'[q] = routeErr[q]
    BY <1>1, <2>1, <2>2, TakesErrorKeeps
  <2>4. \A q \in Routes : RouteShape(q)'
    BY <2>1, <2>3 DEF IInv, RouteShape
  <2>5. \A q \in Routes, w \in Workers : WorkerShape(q, w)'
    BY <2>1 DEF IInv, WorkerShape
  <2>6. \A q \in Routes : FailureShape(q)'
    <3>1. \A w \in Workers : workerPc[r][w] = "idle"
      BY <2>1 DEF IInv, RouteShape
    <3>2. FailureShape(r)'
      BY <2>1, <3>1 DEF IInv, FailureShape, WorkerFailed
    <3>3. \A q \in Routes : q # r => FailureShape(q)'
      BY <2>1, <2>3 DEF IInv, FailureShape, WorkerFailed
    <3> QED
      BY <3>2, <3>3
  <2> QED
    BY <1>1, <2>3, <2>4, <2>5, <2>6 DEF IInv
<1> QED
  BY <1>2, <1>3 DEF RouteNew

LEMMA SpawnCloserIInv ==
  ASSUME NEW r \in Routes, IInv, SpawnCloser(r)
  PROVE  IInv'
PROOF
<1>1. TypeOK /\ TypeOK'
  BY TypeRoute DEF IInv, RouteStep
<1>2. \A q \in Routes : QuietRoute(q) /\ (routePc[q] \in {"idle", "report"} =>
                                              routePc'[q] = routePc[q])
  BY <1>1 DEF SpawnCloser, TypeOK, QuietRoute, QuietMoves
<1> QED
  BY <1>1, <1>2, QuietRouteStep DEF SpawnCloser, workerVars

LEMMA CloseDoneIInv ==
  ASSUME NEW r \in Routes, IInv, CloseDone(r)
  PROVE  IInv'
PROOF
<1>1. TypeOK /\ TypeOK'
  BY TypeRoute DEF IInv
<1>2. \A q \in Routes : QuietRoute(q) /\ (routePc[q] \in {"idle", "report"} =>
                                              routePc'[q] = routePc[q])
  BY <1>1 DEF CloseDone, TypeOK, QuietRoute, QuietMoves
<1> QED
  BY <1>1, <1>2, QuietRouteStep DEF CloseDone, workerVars

LEMMA RouteSelectIInv ==
  ASSUME NEW r \in Routes, IInv, RouteSelect(r)
  PROVE  IInv'
PROOF
<1>1. TypeOK /\ TypeOK'
  BY TypeRoute DEF IInv, RouteStep
<1>2. CASE UNCHANGED <<routeErr, workerErrCh>>
  <2>1. \A q \in Routes : QuietRoute(q) /\ (routePc[q] \in {"idle", "report"} =>
                                                routePc'[q] = routePc[q])
    <3>1. \E pc \in {"ended", "parked"} : routePc' = [routePc EXCEPT ![r] = pc]
      BY <1>1, <1>2, ErrorValues DEF RouteSelect, IInv, RouteShape, TypeOK
    <3> QED
      BY <1>1, <3>1 DEF RouteSelect, TypeOK, QuietRoute, QuietMoves
  <2> QED
    BY <1>1, <1>2, <2>1, QuietRouteStep DEF RouteSelect, workerVars
<1>3. CASE /\ workerErrCh[r] # Nil
           /\ routeErr' = [routeErr EXCEPT ![r] = workerErrCh[r]]
           /\ workerErrCh' = [workerErrCh EXCEPT ![r] = Nil]
           /\ routePc' = [routePc EXCEPT ![r] = "report"]
  <2>1. /\ UNCHANGED <<errOnce, workerPc, sub>>
        /\ UNCHANGED <<callerDone, ctxDone, runPc, next, runErr, errCh>>
    BY <1>3 DEF RouteSelect, ctxVars, runVars, workerVars
  <2>2. workerErrCh[r] = RouteErr(r) /\ errOnce[r]
    BY <1>3 DEF IInv, RouteShape
  <2>3. TakesError(r)
    BY <1>3, <2>2 DEF RouteSelect, TakesError
  <2>4. /\ RunShape' /\ LaunchOrder' /\ ErrorNeverDroppedAlone'
        /\ routePc'[r] = "report" /\ routeErr'[r] = RouteErr(r)
        /\ RouteErr(r) # Nil
        /\ \A q \in Routes : q # r => routePc'[q] = routePc[q]
                                     /\ routeErr'[q] = routeErr[q]
    BY <1>1, <2>1, <2>3, TakesErrorKeeps
  <2>5. /\ workerErrCh'[r] = Nil
        /\ \A q \in Routes : q # r => workerErrCh'[q] = workerErrCh[q]
    BY <1>1, <1>3 DEF TypeOK
  <2>6. \A q \in Routes : RouteShape(q)'
    BY <2>1, <2>4, <2>5 DEF IInv, RouteShape
  <2>7. \A q \in Routes, w \in Workers : WorkerShape(q, w)'
    BY <2>1 DEF IInv, WorkerShape
  <2>8. \A q \in Routes : FailureShape(q)'
    <3>1. FailureShape(r)'
      BY <2>1, <2>2 DEF IInv, FailureShape, WorkerFailed
    <3>2. \A q \in Routes : q # r => FailureShape(q)'
      BY <2>1, <2>4 DEF IInv, FailureShape, WorkerFailed
    <3> QED
      BY <3>1, <3>2
  <2> QED
    BY <1>1, <2>4, <2>6, <2>7, <2>8 DEF IInv
<1> QED
  BY <1>2, <1>3 DEF RouteSelect

LEMMA RouteReportIInv ==
  ASSUME NEW r \in Routes, IInv, RouteReport(r)
  PROVE  IInv'
PROOF
<1>1. TypeOK /\ TypeOK'
  BY TypeRoute DEF IInv, RouteStep
<1>2. /\ routePc[r] = "report" /\ routePc' = [routePc EXCEPT ![r] = "cancel"]
      /\ UNCHANGED <<callerDone, ctxDone, next, routeErr, workerErrCh, errOnce,
                     workerPc, sub>>
  BY DEF RouteReport, ctxVars, workerVars
<1>3. \A q \in Routes : QuietRoute(q)
  BY <1>1, <1>2 DEF TypeOK, QuietRoute, QuietMoves
<1>4. /\ \A q \in Routes : RouteShape(q)'
      /\ \A q \in Routes, w \in Workers : WorkerShape(q, w)'
      /\ \A q \in Routes : FailureShape(q)'
      /\ ErrorsKept
  BY <1>2, <1>3, QuietShape
<1>5. routeErr[r] # Nil /\ routeErr[r] = RouteErr(r)
  BY <1>2 DEF IInv, RouteShape
<1>6. \/ /\ runPc = "parked" /\ runPc' = "returning"
         /\ runErr' = routeErr[r] /\ errCh' = errCh
      \/ /\ runPc' = runPc /\ runErr' = runErr
         /\ errCh' = errCh \/ errCh' = routeErr[r]
         /\ errCh' # Nil
  BY <1>5 DEF RouteReport
<1>7. Known(errCh)' /\ Known(runErr)'
  BY <1>2, <1>5, <1>6 DEF IInv, RunShape, Known
<1>8. Cause => Cause'
  BY <1>2, <1>4 DEF Cause, ErrorsKept
<1>9. RunShape'
  BY <1>2, <1>5, <1>6, <1>7, <1>8 DEF IInv, RunShape
<1>10. LaunchOrder'
  BY <1>1, <1>2, <1>6 DEF IInv, LaunchOrder, TypeOK
<1>11. ErrorNeverDroppedAlone'
  BY <1>5, <1>6 DEF ErrorNeverDroppedAlone
<1> QED
  BY <1>1, <1>4, <1>9, <1>10, <1>11 DEF IInv

LEMMA RouteCancelIInv ==
  ASSUME NEW r \in Routes, IInv, RouteCancel(r)
  PROVE  IInv'
PROOF
<1>1. TypeOK /\ TypeOK'
  BY TypeRoute DEF IInv, RouteStep
<1>2. /\ routePc[r] = "cancel" /\ ctxDone'
      /\ UNCHANGED <<callerDone, next, runErr, errCh, routeErr, workerErrCh,
                     errOnce, workerPc, sub>>
  BY DEF RouteCancel, workerVars
<1>3. \A q \in Routes :
        routePc'[q] = IF q = r \/ routePc[q] = "parked" THEN "ended" ELSE routePc[q]
  BY <1>1 DEF RouteCancel, ReleaseRoutes, TypeOK
<1>4. \A q \in Routes : QuietRoute(q)
  BY <1>2, <1>3 DEF QuietRoute, QuietMoves
<1>5. /\ \A q \in Routes : RouteShape(q)'
      /\ \A q \in Routes, w \in Workers : WorkerShape(q, w)'
      /\ \A q \in Routes : FailureShape(q)'
      /\ ErrorsKept
  BY <1>2, <1>4, QuietShape
<1>6. routeErr[r] # Nil /\ Reported(r)
  BY <1>2 DEF IInv, RouteShape, Reported
<1>7. Known(errCh)' /\ Known(runErr)'
  BY <1>2 DEF IInv, RunShape, Known
<1>8. Cause'
  BY <1>5, <1>6 DEF Cause, ErrorsKept
<1>9. RunShape'
  BY <1>2, <1>7, <1>8 DEF IInv, RunShape, RouteCancel, ReleaseRun
<1>10. LaunchOrder'
  BY <1>1, <1>2, <1>3 DEF IInv, LaunchOrder, TypeOK, RouteCancel, ReleaseRun
<1>11. ErrorNeverDroppedAlone'
  BY <1>2, <1>6 DEF IInv, ErrorNeverDroppedAlone
<1> QED
  BY <1>1, <1>5, <1>9, <1>10, <1>11 DEF IInv

-----------------------------------------------------------------------------
(* The steps of a worker *)

\* Worker w of route r moves and no other one does; its failure stays visible.
WorkerMoves(r, w) ==
  /\ routePc[r] \notin {"idle", "new"}
  /\ routeErr[r] = Nil \/ workerPc[r][w] # "idle"
  /\ \A q \in Routes, v \in Workers : q # r \/ v # w =>
       workerPc'[q][v] = workerPc[q][v] /\ sub'[q][v] = sub[q][v]
  /\ WorkerFailed(r, w) => WorkerFailed(r, w)'
  /\ WorkerShape(r, w)'

\* What such a move keeps, whatever happens to the route's errors.
LEMMA WorkerMovesKeeps ==
  ASSUME NEW r \in Routes, NEW w \in Workers, IInv, WorkerMoves(r, w)
  PROVE  /\ \A q \in Routes, v \in Workers : WorkerShape(q, v)'
         /\ \A q \in Routes, v \in Workers : WorkerFailed(q, v) => WorkerFailed(q, v)'
         /\ \A q \in Routes : q # r =>
              \A v \in Workers : workerPc'[q][v] = workerPc[q][v]
PROOF
<1>1. \A q \in Routes, v \in Workers : q # r \/ v # w =>
        /\ WorkerShape(q, v)'
        /\ WorkerFailed(q, v) => WorkerFailed(q, v)'
  BY DEF IInv, WorkerMoves, WorkerShape, WorkerFailed
<1>2. WorkerShape(r, w)' /\ (WorkerFailed(r, w) => WorkerFailed(r, w)')
  BY DEF WorkerMoves
<1>3. \A q \in Routes : q # r =>
        \A v \in Workers : workerPc'[q][v] = workerPc[q][v]
  BY DEF WorkerMoves
<1> QED
  BY <1>1, <1>2, <1>3

\* A move that leaves the route, Run and the contexts alone.
LEMMA QuietWorkerStep ==
  ASSUME NEW r \in Routes, NEW w \in Workers, IInv, TypeOK', WorkerMoves(r, w),
         UNCHANGED <<ctxVars, runVars, routeVars>>
  PROVE  IInv'
PROOF
<1>1. UNCHANGED <<callerDone, ctxDone, runPc, next, runErr, errCh, routePc,
                  routeErr, workerErrCh, errOnce>>
  BY DEF ctxVars, runVars, routeVars
<1>2. /\ \A q \in Routes, v \in Workers : WorkerShape(q, v)'
      /\ \A q \in Routes, v \in Workers : WorkerFailed(q, v) => WorkerFailed(q, v)'
      /\ \A q \in Routes : q # r =>
           \A v \in Workers : workerPc'[q][v] = workerPc[q][v]
  BY WorkerMovesKeeps
<1>3. \A q \in Routes : RouteShape(q)'
  BY <1>1, <1>2 DEF IInv, RouteShape, WorkerMoves
<1>4. \A q \in Routes : FailureShape(q)'
  <2>1. FailureShape(r)'
    BY <1>1, <1>2 DEF IInv, FailureShape, WorkerMoves
  <2>2. ASSUME NEW q \in Routes, q # r PROVE FailureShape(q)'
    BY <1>1, <1>2, <2>2 DEF IInv, FailureShape
  <2> QED
    BY <2>1, <2>2
<1>5. RunShape' /\ LaunchOrder' /\ ErrorNeverDroppedAlone'
  BY <1>1 DEF IInv, RunShape, LaunchOrder, ErrorNeverDroppedAlone, Known, Cause,
              Reported
<1> QED
  BY <1>2, <1>3, <1>4, <1>5 DEF IInv

LEMMA WorkerQuietIInv ==
  ASSUME NEW r \in Routes, NEW w \in Workers, IInv,
         \/ SpawnWorker(r, w) \/ WorkerStart(r, w)
         \/ WorkerDone(r, w) \/ DrainOnCancel(r, w)
  PROVE  IInv'
PROOF
<1>1. TypeOK /\ TypeOK'
  BY TypeRoute, TypeWorker DEF IInv, RouteStep, WorkerStep
<1>2. RouteShape(r) /\ WorkerShape(r, w)
  BY DEF IInv
<1>3. CASE SpawnWorker(r, w)
  <2>1. WorkerMoves(r, w)
    BY <1>1, <1>2, <1>3
    DEF SpawnWorker, TypeOK, WorkerMoves, WorkerFailed, WorkerShape, RouteShape
  <2> QED
    BY <1>1, <1>3, <2>1, QuietWorkerStep DEF SpawnWorker
<1>4. CASE WorkerStart(r, w)
  <2>1. WorkerMoves(r, w)
    BY <1>1, <1>2, <1>4
    DEF WorkerStart, TypeOK, WorkerMoves, WorkerFailed, WorkerShape, RouteShape
  <2> QED
    BY <1>1, <1>4, <2>1, QuietWorkerStep DEF WorkerStart
<1>5. CASE WorkerDone(r, w)
  <2>1. WorkerMoves(r, w)
    BY <1>1, <1>2, <1>5
    DEF WorkerDone, TypeOK, WorkerMoves, WorkerFailed, WorkerShape, RouteShape
  <2> QED
    BY <1>1, <1>5, <2>1, QuietWorkerStep DEF WorkerDone
<1>6. CASE DrainOnCancel(r, w)
  <2>1. WorkerMoves(r, w)
    BY <1>1, <1>2, <1>6
    DEF DrainOnCancel, TypeOK, WorkerMoves, WorkerFailed, WorkerShape, RouteShape
  <2> QED
    BY <1>1, <1>6, <2>1, QuietWorkerStep DEF DrainOnCancel
<1> QED
  BY <1>3, <1>4, <1>5, <1>6

LEMMA WorkerReportIInv ==
  ASSUME NEW r \in Routes, NEW w \in Workers, IInv, WorkerReport(r, w)
  PROVE  IInv'
PROOF
<1>1. TypeOK /\ TypeOK'
  BY TypeWorker DEF IInv, WorkerStep
<1>2. RouteShape(r) /\ WorkerShape(r, w)
  BY DEF IInv
<1>3. WorkerMoves(r, w) /\ WorkerFailed(r, w)'
  BY <1>1, <1>2
  DEF WorkerReport, TypeOK, WorkerMoves, WorkerFailed, WorkerShape, RouteShape
<1>4. /\ \A q \in Routes, v \in Workers : WorkerShape(q, v)'
      /\ \A q \in Routes, v \in Workers : WorkerFailed(q, v) => WorkerFailed(q, v)'
      /\ \A q \in Routes : q # r =>
           \A v \in Workers : workerPc'[q][v] = workerPc[q][v]
  BY <1>3, WorkerMovesKeeps
<1>5. UNCHANGED <<callerDone, ctxDone, runPc, next, runErr, errCh>>
  BY DEF WorkerReport, ctxVars, runVars
<1>6. CASE errOnce[r] /\ UNCHANGED <<routePc, routeErr, workerErrCh, errOnce>>
  BY <1>1, <1>3, <1>6, QuietWorkerStep DEF WorkerReport, routeVars
<1>7. CASE ~errOnce[r] /\ SendWorkerErr(r) /\ errOnce' = [errOnce EXCEPT ![r] = TRUE]
  <2>1. /\ errOnce'[r] /\ workerErrCh[r] = Nil
        /\ \A q \in Routes : q # r => errOnce'[q] = errOnce[q]
    BY <1>1, <1>2, <1>7 DEF TypeOK, RouteShape
  <2>2. ASSUME RunShape' /\ LaunchOrder' /\ ErrorNeverDroppedAlone',
               \A q \in Routes : q # r => /\ routePc'[q] = routePc[q]
                                         /\ routeErr'[q] = routeErr[q]
                                         /\ workerErrCh'[q] = workerErrCh[q],
               RouteShape(r)'
        PROVE  IInv'
    <3>1. \A q \in Routes : RouteShape(q)'
      BY <1>4, <2>1, <2>2 DEF IInv, RouteShape
    <3>2. FailureShape(r)'
      BY <1>3 DEF FailureShape
    <3>3. ASSUME NEW q \in Routes, q # r PROVE FailureShape(q)'
      BY <1>4, <2>1, <2>2, <3>3 DEF IInv, FailureShape
    <3> QED
      BY <1>1, <1>4, <2>2, <3>1, <3>2, <3>3 DEF IInv
  <2>3. CASE /\ routePc[r] = "parked" /\ UNCHANGED workerErrCh
             /\ routeErr' = [routeErr EXCEPT ![r] = RouteErr(r)]
             /\ routePc' = [routePc EXCEPT ![r] = "report"]
    <3>1. TakesError(r)
      BY <2>3 DEF TakesError
    <3>2. /\ RunShape' /\ LaunchOrder' /\ ErrorNeverDroppedAlone'
          /\ routePc'[r] = "report" /\ routeErr'[r] = RouteErr(r)
          /\ RouteErr(r) # Nil
          /\ \A q \in Routes : q # r => routePc'[q] = routePc[q]
                                       /\ routeErr'[q] = routeErr[q]
      BY <1>1, <1>5, <3>1, TakesErrorKeeps
    <3>3. RouteShape(r)'
      BY <2>1, <2>3, <3>2 DEF RouteShape
    <3> QED
      BY <2>2, <2>3, <3>2, <3>3
  <2>4. CASE /\ workerErrCh' = [workerErrCh EXCEPT ![r] = RouteErr(r)]
             /\ UNCHANGED <<routePc, routeErr>>
    <3>1. /\ workerErrCh'[r] = RouteErr(r)
          /\ \A q \in Routes : q # r => workerErrCh'[q] = workerErrCh[q]
      BY <1>1, <2>4 DEF TypeOK
    <3>2. RouteShape(r)'
      BY <1>2, <1>3, <2>1, <2>4, <3>1 DEF RouteShape, WorkerMoves
    <3>3. RunShape' /\ LaunchOrder' /\ ErrorNeverDroppedAlone'
      BY <1>5, <2>4 DEF IInv, RunShape, LaunchOrder, ErrorNeverDroppedAlone, Known,
                        Cause, Reported
    <3> QED
      BY <2>2, <2>4, <3>1, <3>2, <3>3
  <2> QED
    BY <1>7, <2>3, <2>4 DEF SendWorkerErr
<1> QED
  BY <1>6, <1>7 DEF WorkerReport

-----------------------------------------------------------------------------
(* The invariant and what follows from it *)

LEMMA InitIInv == Init => IInv
PROOF
<1> SUFFICES ASSUME Init PROVE IInv
  OBVIOUS
<1>1. TypeOK
  BY TypeInit
<1>2. \A r \in Routes : RouteShape(r) /\ FailureShape(r)
  BY DEF Init, RouteShape, FailureShape
<1>3. \A r \in Routes, w \in Workers : WorkerShape(r, w)
  BY DEF Init, WorkerShape
<1>4. RunShape /\ LaunchOrder
  BY DEF Init, RunShape, LaunchOrder, Known
<1>5. ErrorNeverDroppedAlone
  BY DEF Init, ErrorNeverDroppedAlone, Reported
<1> QED
  BY <1>1, <1>2, <1>3, <1>4, <1>5 DEF IInv

LEMMA NextIInv == IInv /\ [Next]_vars => IInv'
PROOF
<1> SUFFICES ASSUME IInv, [Next]_vars PROVE IInv'
  OBVIOUS
<1>1. CASE UNCHANGED vars
  BY <1>1 DEF IInv, TypeOK, RouteShape, WorkerShape, FailureShape, RunShape,
              LaunchOrder, ErrorNeverDroppedAlone, Known, Cause, Reported,
              WorkerFailed, vars, ctxVars, runVars, routeVars, workerVars
<1>2. CASE CallerCancel \/ RunStep
  BY <1>2, CallerCancelIInv, RunReturnIInv, RunStepIInv DEF RunStep
<1>3. ASSUME NEW r \in Routes, RouteStep(r) \/ CloseDone(r) PROVE IInv'
  BY <1>3, RouteNewIInv, SpawnCloserIInv, RouteSelectIInv, RouteReportIInv,
     RouteCancelIInv, CloseDoneIInv, WorkerQuietIInv DEF RouteStep
<1>4. ASSUME NEW r \in Routes, NEW w \in Workers,
             WorkerStep(r, w) \/ DrainOnCancel(r, w)
      PROVE  IInv'
  BY <1>4, WorkerQuietIInv, WorkerReportIInv DEF WorkerStep
<1> QED
  BY <1>1, <1>2, <1>3, <1>4 DEF Next, Finished

THEOREM Invariant == Spec => []IInv
PROOF
  BY InitIInv, NextIInv, PTL DEF Spec

\* What Run returns for a route is that route's own error, and has a cause.
THEOREM GenuineErrorHolds == Spec => []GenuineError
PROOF
<1>1. IInv => GenuineError
  <2> SUFFICES ASSUME IInv, NEW r \in Routes, runErr = RouteErr(r)
               PROVE  /\ routeErr[r] = RouteErr(r)
                      /\ \/ \E w \in Workers : WorkerFailed(r, w)
                         \/ \A w \in Workers : workerPc[r][w] = "idle"
    BY DEF GenuineError
  <2>1. PICK q \in Routes : runErr = RouteErr(q) /\ routeErr[q] = RouteErr(q)
    BY ErrorValues DEF IInv, RunShape, Known
  <2>2. q = r
    BY <2>1, ErrorValues
  <2> QED
    BY <2>1, <2>2, ErrorValues DEF IInv, FailureShape
<1> QED
  BY <1>1, Invariant, PTL

\* Run gives nil only to a caller that cancelled, or when a route failed.
THEOREM NoSpuriousReturnHolds == Spec => []NoSpuriousReturn
PROOF
<1>1. IInv => NoSpuriousReturn
  BY DEF IInv, RunShape, Cause, NoSpuriousReturn
<1> QED
  BY <1>1, Invariant, PTL

\* The non-blocking send never loses the only error.
THEOREM ErrorNeverDroppedAloneHolds == Spec => []ErrorNeverDroppedAlone
PROOF
<1>1. IInv => ErrorNeverDroppedAlone
  BY DEF IInv
<1> QED
  BY <1>1, Invariant, PTL

\* The send inside errOnce.Do always finds room.
THEOREM ReportNeverBlocksHolds == Spec => []ReportNeverBlocks
PROOF
<1>1. IInv => ReportNeverBlocks
  BY DEF IInv, RouteShape, ReportNeverBlocks
<1> QED
  BY <1>1, Invariant, PTL

-----------------------------------------------------------------------------
(* The contract of Run *)

\* A refused call has launched nothing, and nothing but RunEntry refuses.
RefuseShape ==
  /\ runPc = "entry" \/ runErr = ErrNoRoutes => \A r \in Routes : routePc[r] = "idle"
  /\ runErr = ErrNoRoutes => runPc = "returned"
  /\ errCh # ErrNoRoutes

RefuseInv == IInv /\ RefuseShape

\* Nothing launched, nothing open.
LEMMA IdleFacts ==
  ASSUME IInv, \A r \in Routes : routePc[r] = "idle"
  PROVE  \A r \in Routes, w \in Workers : workerPc[r][w] = "idle" /\ sub[r][w] = "none"
PROOF
  BY DEF IInv, RouteShape, WorkerShape

LEMMA RefuseNext == RefuseInv /\ [Next]_vars => RefuseInv'
PROOF
<1> SUFFICES ASSUME RefuseInv, [Next]_vars PROVE RefuseShape'
  BY NextIInv DEF RefuseInv
<1> USE DEF vars, ctxVars, runVars, routeVars, workerVars
<1>0. /\ IInv /\ RefuseShape /\ TypeOK
      /\ Nil # ErrNoRoutes /\ ErrNilRouteRegistration # ErrNoRoutes
      /\ \A r \in Routes : RouteShape(r) /\ routeErr[r] # ErrNoRoutes
  <2>1. IInv /\ RefuseShape /\ TypeOK /\ \A r \in Routes : RouteShape(r)
    BY DEF RefuseInv, IInv
  <2>2. Nil # ErrNoRoutes /\ ErrNilRouteRegistration # ErrNoRoutes
    BY DEF Nil, ErrNoRoutes, ErrNilRouteRegistration
  <2> QED
    BY <2>1, <2>2, ErrorValues DEF RouteShape
<1>1. CASE CallerCancel
  BY <1>0, <1>1 DEF CallerCancel, RefuseShape, ReleaseRun, ReleaseRoutes, TypeOK
<1>2. CASE RunEntry
  BY <1>0, <1>2 DEF RunEntry, RefuseShape
<1>3. CASE RunLoop \/ RunLoopEnd \/ RunSelect
  BY <1>0, <1>3 DEF RunLoop, RunLoopEnd, RunSelect, RefuseShape
<1>4. CASE RunReturn
  BY <1>0, <1>4 DEF RunReturn, RefuseShape
<1>5. ASSUME UNCHANGED <<runPc, runErr, errCh>>,
             NEW r \in Routes, routePc[r] # "idle"
      PROVE  RefuseShape'
  BY <1>0, <1>5 DEF RefuseShape
<1>6. ASSUME NEW r \in Routes, RouteStep(r)
      PROVE  RefuseShape'
  <2>1. routePc[r] # "idle"
    BY <1>6 DEF RouteStep, RouteNew, SpawnCloser, RouteSelect, RouteReport, RouteCancel,
       SpawnWorker
  <2>2. CASE RouteReport(r)
    BY <1>0, <2>1, <2>2 DEF RouteReport, RefuseShape
  <2>3. CASE RouteCancel(r)
    BY <1>0, <2>1, <2>3 DEF RouteCancel, ReleaseRun, RefuseShape
  <2> QED
    BY <1>5, <1>6, <2>1, <2>2, <2>3
       DEF RouteStep, RouteNew, SpawnCloser, RouteSelect, SpawnWorker
<1>7. ASSUME NEW r \in Routes, CloseDone(r)
      PROVE  RefuseShape'
  BY <1>0, <1>7 DEF CloseDone, RefuseShape, TypeOK
<1>8. ASSUME NEW r \in Routes, NEW w \in Workers, WorkerStep(r, w)
      PROVE  RefuseShape'
  <2>1. routePc[r] # "idle"
    BY <1>0, <1>8, IdleFacts DEF WorkerStep, WorkerStart, WorkerReport, WorkerDone, RouteShape
  <2> QED
    BY <1>5, <1>8, <2>1 DEF WorkerStep, WorkerStart, WorkerReport, WorkerDone
<1>9. CASE UNCHANGED <<runPc, runErr, errCh, routePc>>
  BY <1>0, <1>9 DEF RefuseShape
<1> QED
  BY <1>1, <1>2, <1>3, <1>4, <1>6, <1>7, <1>8, <1>9
     DEF Next, RunStep, DrainOnCancel, Finished

LEMMA RefuseInit == Init => RefuseInv
PROOF
<1>1. Nil # ErrNoRoutes
  BY DEF Nil, ErrNoRoutes
<1> QED
  BY <1>1, InitIInv DEF Init, RefuseInv, RefuseShape

\* What the contract sees of the state.
LEMMA ContractQuiet ==
  ASSUME UNCHANGED <<sub, ctxDone>>, runPc' = "returned" <=> runPc = "returned",
         runPc = "returned" => runErr' = runErr
  PROVE  UNCHANGED Lifecycle!vars
PROOF
  BY DEF Lifecycle!vars

\* The derived context may be done by now.
LEMMA ContractStop ==
  ASSUME UNCHANGED <<sub, runErr>>, runPc' = "returned" <=> runPc = "returned",
         ctxDone' = TRUE, ctxDone \in BOOLEAN
  PROVE  [Lifecycle!Next]_(Lifecycle!vars)
PROOF
<1>1. CASE ctxDone \/ (runPc = "returned" /\ runErr = ErrNoRoutes)
  BY <1>1 DEF Lifecycle!vars
<1>2. CASE ~ctxDone /\ ~(runPc = "returned" /\ runErr = ErrNoRoutes)
  BY <1>2 DEF Lifecycle!Stop, Lifecycle!Next
<1> QED
  BY <1>1, <1>2

\* One subscription changes.
LEMMA ContractSub ==
  ASSUME TypeOK, NEW r \in Routes, NEW w \in Workers, NEW s \in SubStates,
         sub' = [sub EXCEPT ![r][w] = s]
  PROVE  \A x \in Routes \X Workers :
           sub'[x[1]][x[2]] = IF x = <<r, w>> THEN s ELSE sub[x[1]][x[2]]
PROOF
<1> TAKE x \in Routes \X Workers
<1>1. PICK i \in Routes, j \in Workers : x = <<i, j>>
  OBVIOUS
<1>2. sub \in [Routes -> [Workers -> SubStates]]
  BY DEF TypeOK
<1>3. sub'[i][j] = IF i = r /\ j = w THEN s ELSE sub[i][j]
  BY <1>2
<1> QED
  BY <1>1, <1>3

LEMMA ContractClose ==
  ASSUME TypeOK, NEW r \in Routes, NEW w \in Workers, runErr # ErrNoRoutes,
         DrainOnCancel(r, w)
  PROVE  Lifecycle!Close(<<r, w>>)
PROOF
<1>1. /\ sub[r][w] = "open" /\ ctxDone /\ sub' = [sub EXCEPT ![r][w] = "drained"]
      /\ UNCHANGED <<runPc, runErr, ctxDone>>
  BY DEF DrainOnCancel, runVars, ctxVars
<1>2. \A x \in Routes \X Workers :
        sub'[x[1]][x[2]] = IF x = <<r, w>> THEN "drained" ELSE sub[x[1]][x[2]]
  BY <1>1, ContractSub DEF SubStates
<1> QED
  BY <1>1, <1>2 DEF Lifecycle!Close

\* Every step is one of the contract's or is not seen by it.
LEMMA ContractNext == RefuseInv /\ [Next]_vars => [Lifecycle!Next]_(Lifecycle!vars)
PROOF
<1> SUFFICES ASSUME RefuseInv, [Next]_vars PROVE [Lifecycle!Next]_(Lifecycle!vars)
  OBVIOUS
<1> USE DEF vars, ctxVars, runVars, routeVars, workerVars
<1>0. IInv /\ RefuseShape /\ TypeOK /\ ctxDone \in BOOLEAN /\ runErr \in Errors
  BY DEF RefuseInv, IInv, TypeOK
<1>1. CASE CallerCancel
  <2>1. runPc' = "returned" <=> runPc = "returned"
    BY <1>1 DEF CallerCancel, ReleaseRun
  <2> QED
    BY <1>0, <1>1, <2>1, ContractStop DEF CallerCancel
<1>2. CASE RunEntry
  <2>1. CASE runPc' = "returned"
    <3>1. /\ runPc = "entry" /\ runErr' = ErrNoRoutes /\ runPc' = "returned"
          /\ UNCHANGED <<ctxDone, sub>>
      BY <1>2, <2>1 DEF RunEntry
    <3>2. \A s \in Routes \X Workers : sub[s[1]][s[2]] = "none"
      BY <1>0, <3>1, IdleFacts DEF RefuseShape
    <3>3. Lifecycle!Refuse(ErrNoRoutes)
      BY <3>1, <3>2 DEF Lifecycle!Refuse
    <3>4. ErrNoRoutes \in Errors
      BY DEF Errors
    <3> QED
      BY <3>3, <3>4 DEF Lifecycle!Next
  <2>2. CASE runPc' # "returned"
    BY <1>2, <2>2, ContractQuiet DEF RunEntry
  <2> QED
    BY <2>1, <2>2
<1>3. CASE RunLoop \/ RunLoopEnd \/ RunSelect
  <2>1. /\ runPc # "returned" /\ runPc' # "returned" /\ UNCHANGED <<ctxDone, sub>>
    BY <1>3 DEF RunLoop, RunLoopEnd, RunSelect
  <2> QED
    BY <2>1, ContractQuiet
<1>4. CASE RunReturn
  <2>1. /\ runPc = "returning" /\ runPc' = "returned" /\ ctxDone' = TRUE
        /\ UNCHANGED <<runErr, sub>> /\ runErr # ErrNoRoutes
    BY <1>0, <1>4 DEF RunReturn, RefuseShape
  <2>2. Lifecycle!Return(runErr)
    BY <2>1 DEF Lifecycle!Return
  <2> QED
    BY <1>0, <2>2 DEF Lifecycle!Next
<1>5. ASSUME NEW r \in Routes, RouteStep(r)
      PROVE  [Lifecycle!Next]_(Lifecycle!vars)
  <2>1. CASE RouteCancel(r)
    <3>1. runPc' = "returned" <=> runPc = "returned"
      BY <2>1 DEF RouteCancel, ReleaseRun
    <3> QED
      BY <1>0, <2>1, <3>1, ContractStop DEF RouteCancel
  <2>2. CASE ~RouteCancel(r)
    <3>1. /\ UNCHANGED <<ctxDone, sub>> /\ (runPc' = "returned" <=> runPc = "returned")
          /\ (runPc = "returned" => runErr' = runErr)
      BY <1>5, <2>2 DEF RouteStep, RouteNew, SpawnCloser, RouteSelect, RouteReport,
         SpawnWorker
    <3> QED
      BY <3>1, ContractQuiet
  <2> QED
    BY <2>1, <2>2
<1>6. ASSUME NEW r \in Routes, CloseDone(r)
      PROVE  UNCHANGED Lifecycle!vars
  BY <1>6, ContractQuiet DEF CloseDone
<1>7. ASSUME NEW r \in Routes, NEW w \in Workers, WorkerStep(r, w)
      PROVE  [Lifecycle!Next]_(Lifecycle!vars)
  <2>1. CASE UNCHANGED sub
    BY <1>7, <2>1, ContractQuiet DEF WorkerStep, WorkerStart, WorkerReport, WorkerDone
  <2>2. CASE ~UNCHANGED sub
    <3>1. /\ workerPc[r][w] = "start" /\ sub' = [sub EXCEPT ![r][w] = "open"]
          /\ UNCHANGED <<runPc, runErr, ctxDone>>
      BY <1>7, <2>2 DEF WorkerStep, WorkerStart, WorkerReport, WorkerDone
    <3>2. sub[r][w] = "none" /\ runErr # ErrNoRoutes
      BY <1>0, <3>1, IdleFacts DEF IInv, WorkerShape, RefuseShape
    <3>3. \A x \in Routes \X Workers :
            sub'[x[1]][x[2]] = IF x = <<r, w>> THEN "open" ELSE sub[x[1]][x[2]]
      BY <1>0, <3>1, ContractSub DEF SubStates
    <3>4. Lifecycle!Open(<<r, w>>)
      BY <3>1, <3>2, <3>3 DEF Lifecycle!Open
    <3> QED
      BY <3>4 DEF Lifecycle!Next
  <2> QED
    BY <2>1, <2>2
<1>8. ASSUME NEW r \in Routes, NEW w \in Workers, DrainOnCancel(r, w)
      PROVE  Lifecycle!Next
  <2>1. /\ sub[r][w] = "open" /\ ctxDone /\ sub' = [sub EXCEPT ![r][w] = "drained"]
        /\ UNCHANGED <<runPc, runErr, ctxDone>>
    BY <1>8 DEF DrainOnCancel
  <2>2. runErr # ErrNoRoutes
    BY <1>0, <2>1, IdleFacts DEF RefuseShape
  <2>3. Lifecycle!Close(<<r, w>>)
    BY <1>0, <1>8, <2>2, ContractClose
  <2> QED
    BY <2>3 DEF Lifecycle!Next
<1>9. CASE UNCHANGED vars
  BY <1>9 DEF Lifecycle!vars
<1> QED
  BY <1>1, <1>2, <1>3, <1>4, <1>5, <1>6, <1>7, <1>8, <1>9 DEF Next, RunStep, Finished

LEMMA ContractInit == Init => Lifecycle!Init
PROOF
  BY DEF Init, Lifecycle!Init

\* Run implements the safety part of its contract: a subscription opens at most once
\* and closes only after a stop, a call is refused only before it opened anything, and
\* the result is given once.
THEOREM ContractHolds == Spec => Lifecycle!Spec
PROOF
<1>1. Spec => []RefuseInv
  BY RefuseInit, RefuseNext, PTL DEF Spec
<1> QED
  BY <1>1, ContractInit, ContractNext, PTL DEF Spec, Lifecycle!Spec

=============================================================================
