------------------------------- MODULE Broker -------------------------------
(***************************************************************************)
(* One call of Broker.Run (broker/broker.go): the goroutine of Run itself, *)
(* one goroutine per route (runRoute), the workers of each route, the      *)
(* goroutine that closes a route's done channel, and the goroutines that   *)
(* consumer.drainOnCancel leaves behind to close the subscriptions.        *)
(*                                                                         *)
(* A Go select that finds several cases ready takes any of them; one that  *)
(* finds none parks its goroutine, which then leaves through the FIRST     *)
(* case that becomes ready: a sender hands its value to the parked         *)
(* receiver, and closing a channel releases everyone parked on it.  The    *)
(* program counters "select" and "parked" keep the two situations apart.   *)
(***************************************************************************)
EXTENDS Naturals

CONSTANTS
  MaxRoutes,  \* bound on len(regs)
  Workers     \* the worker identities of a route; b.workers is their number

ASSUME MaxRoutesAssumption == MaxRoutes \in Nat

\* WithWorkers ignores n <= 0 and the default is 5: there is always a worker.
ASSUME WorkersAssumption == Workers # {}

VARIABLES
  regs,         \* the arguments of Run: a sequence of "registration" or "nil"
  callerDone,   \* the context given to Run is cancelled
  ctxDone,      \* the context derived by Run is cancelled
  runPc,        \* program counter of Run
  next,         \* number of registrations Run's loop has passed
  runErr,       \* the error Run is returning
  errCh,        \* Run's errCh, capacity 1; Nil when empty
  routePc,      \* per route: the goroutine that calls runRoute
  routeErr,     \* per route: the error runRoute returned
  workerErrCh,  \* per route: runRoute's errCh, capacity 1; Nil when empty
  errOnce,      \* per route: errOnce has fired
  done,         \* per route: the done channel, "unmade", "open" or "closed"
  workerPc,     \* per route and worker
  sub           \* per route and worker: the subscription Start opened

runVars    == <<runPc, next, runErr, errCh>>
ctxVars    == <<callerDone, ctxDone>>
routeVars  == <<routePc, routeErr, workerErrCh, errOnce, done>>
workerVars == <<workerPc, sub>>
vars       == <<regs, ctxVars, runVars, routeVars, workerVars>>

Routes == 1..MaxRoutes

Nil                     == [kind |-> "nil", route |-> 0]
ErrNoRoutes             == [kind |-> "ErrNoRoutes", route |-> 0]
ErrNilRouteRegistration == [kind |-> "ErrNilRouteRegistration", route |-> 0]
RouteErr(r)             == [kind |-> "route", route |-> r]

Errors == {Nil, ErrNoRoutes, ErrNilRouteRegistration}
            \union {RouteErr(r) : r \in Routes}

RunPcs    == {"entry", "loop", "select", "parked", "returning", "returned"}
RoutePcs  == {"idle", "new", "spawn", "select", "parked", "report", "cancel",
              "ended"}
WorkerPcs == {"idle", "start", "report", "done", "ended"}
SubStates == {"none", "open", "drained"}

\* Run's variadic argument: any length up to the bound, any element may be nil.
Args == UNION {[1..n -> {"registration", "nil"}] : n \in 0..MaxRoutes}

TypeOK ==
  /\ regs \in Args
  /\ callerDone \in BOOLEAN /\ ctxDone \in BOOLEAN
  /\ runPc \in RunPcs /\ next \in 0..MaxRoutes /\ runErr \in Errors
  /\ errCh \in Errors
  /\ routePc \in [Routes -> RoutePcs]
  /\ routeErr \in [Routes -> Errors]
  /\ workerErrCh \in [Routes -> Errors]
  /\ errOnce \in [Routes -> BOOLEAN]
  /\ done \in [Routes -> {"unmade", "open", "closed"}]
  /\ workerPc \in [Routes -> [Workers -> WorkerPcs]]
  /\ sub \in [Routes -> [Workers -> SubStates]]

Init ==
  /\ regs \in Args
  /\ callerDone = FALSE /\ ctxDone = FALSE
  /\ runPc = "entry" /\ next = 0 /\ runErr = Nil /\ errCh = Nil
  /\ routePc = [r \in Routes |-> "idle"]
  /\ routeErr = [r \in Routes |-> Nil]
  /\ workerErrCh = [r \in Routes |-> Nil]
  /\ errOnce = [r \in Routes |-> FALSE]
  /\ done = [r \in Routes |-> "unmade"]
  /\ workerPc = [r \in Routes |-> [w \in Workers |-> "idle"]]
  /\ sub = [r \in Routes |-> [w \in Workers |-> "none"]]

-----------------------------------------------------------------------------
(* Contexts *)

\* The route goroutines after ctx.Done() closes: one parked in runRoute's
\* select leaves it with nil and ends.
ReleaseRoutes(pc) ==
  [r \in Routes |-> IF pc[r] = "parked" THEN "ended" ELSE pc[r]]

\* Run after ctx.Done() closes: parked in its select, it returns nil.
ReleaseRun == IF runPc = "parked" THEN "returning" ELSE runPc

\* The caller cancels the context it gave to Run, which cancels the derived one.
CallerCancel ==
  /\ ~callerDone
  /\ callerDone' = TRUE /\ ctxDone' = TRUE
  /\ runPc' = ReleaseRun
  /\ routePc' = ReleaseRoutes(routePc)
  /\ UNCHANGED <<regs, next, runErr, errCh, routeErr, workerErrCh, errOnce,
                 done, workerVars>>

-----------------------------------------------------------------------------
(* Run *)

\* No registrations: return before a context is derived.
RunEntry ==
  /\ runPc = "entry"
  /\ \/ /\ DOMAIN regs = {}
        /\ runPc' = "returned" /\ runErr' = ErrNoRoutes
     \/ /\ DOMAIN regs # {}
        /\ runPc' = "loop" /\ UNCHANGED runErr
  /\ UNCHANGED <<regs, ctxVars, next, errCh, routeVars, workerVars>>

\* One iteration of the loop over regs: a nil registration ends Run at once,
\* any other one gets a goroutine.
RunLoop ==
  /\ runPc = "loop" /\ next + 1 \in DOMAIN regs
  /\ \/ /\ regs[next + 1] = "nil"
        /\ runPc' = "returning" /\ runErr' = ErrNilRouteRegistration
        /\ UNCHANGED <<next, routePc>>
     \/ /\ regs[next + 1] # "nil"
        /\ routePc' = [routePc EXCEPT ![next + 1] = "new"]
        /\ next' = next + 1
        /\ UNCHANGED <<runPc, runErr>>
  /\ UNCHANGED <<regs, ctxVars, errCh, routeErr, workerErrCh, errOnce, done,
                 workerVars>>

\* Mutant: the loop counts one registration too many.
RunLoopEndOffByOne ==
  /\ runPc = "loop" /\ next + 1 \notin DOMAIN regs
  /\ runPc' = "select" /\ next' = next + 1
  /\ UNCHANGED <<regs, ctxVars, runErr, errCh, routeVars, workerVars>>

RunLoopEnd ==
  /\ runPc = "loop" /\ next + 1 \notin DOMAIN regs
  /\ runPc' = "select"
  /\ UNCHANGED <<regs, ctxVars, next, runErr, errCh, routeVars, workerVars>>

\* Mutant: Run polls errCh and never looks at ctx.Done().
RunSelectErrOnly ==
  /\ runPc = "select"
  /\ \/ /\ errCh # Nil
        /\ runErr' = errCh /\ errCh' = Nil /\ runPc' = "returning"
     \/ /\ errCh = Nil
        /\ UNCHANGED <<runPc, runErr, errCh>>
  /\ UNCHANGED <<regs, ctxVars, next, routeVars, workerVars>>

\* The final select: any ready case, or park when there is none.
RunSelect ==
  /\ runPc = "select"
  /\ \/ /\ errCh # Nil
        /\ runErr' = errCh /\ errCh' = Nil /\ runPc' = "returning"
     \/ /\ ctxDone
        /\ runPc' = "returning" /\ UNCHANGED <<runErr, errCh>>
     \/ /\ errCh = Nil /\ ~ctxDone
        /\ runPc' = "parked" /\ UNCHANGED <<runErr, errCh>>
  /\ UNCHANGED <<regs, ctxVars, next, routeVars, workerVars>>

\* Mutant: the deferred cancel() is forgotten.
RunReturnNoCancel ==
  /\ runPc = "returning"
  /\ runPc' = "returned"
  /\ UNCHANGED <<regs, ctxVars, next, runErr, errCh, routeVars, workerVars>>

\* Every return past the first one runs the deferred cancel().
RunReturn ==
  /\ runPc = "returning"
  /\ runPc' = "returned" /\ ctxDone' = TRUE
  /\ routePc' = ReleaseRoutes(routePc)
  /\ UNCHANGED <<regs, callerDone, next, runErr, errCh, routeErr, workerErrCh,
                 errOnce, done, workerVars>>

-----------------------------------------------------------------------------
(* The goroutine of a route: runRoute, then the error it returned *)

\* consumer.New succeeds or fails.
RouteNew(r) ==
  /\ routePc[r] = "new"
  /\ \/ /\ routePc' = [routePc EXCEPT ![r] = "spawn"]
        /\ UNCHANGED routeErr
     \/ /\ routePc' = [routePc EXCEPT ![r] = "report"]
        /\ routeErr' = [routeErr EXCEPT ![r] = RouteErr(r)]
  /\ UNCHANGED <<regs, ctxVars, runVars, workerErrCh, errOnce, done, workerVars>>

\* One iteration of the loop that adds a worker to wg and starts it.
SpawnWorker(r, w) ==
  /\ routePc[r] = "spawn" /\ workerPc[r][w] = "idle"
  /\ workerPc' = [workerPc EXCEPT ![r][w] = "start"]
  /\ UNCHANGED <<regs, ctxVars, runVars, routeVars, sub>>

\* All workers are launched: make done, start its closer, enter the select.
SpawnCloser(r) ==
  /\ routePc[r] = "spawn" /\ \A w \in Workers : workerPc[r][w] # "idle"
  /\ done' = [done EXCEPT ![r] = "open"]
  /\ routePc' = [routePc EXCEPT ![r] = "select"]
  /\ UNCHANGED <<regs, ctxVars, runVars, routeErr, workerErrCh, errOnce,
                 workerVars>>

\* Mutant: the route goroutine calls cancel() for a nil result too.
RouteSelectCancelsOnNil(r) ==
  /\ routePc[r] = "select"
  /\ done[r] = "closed" \/ ctxDone
  /\ routePc' = [routePc EXCEPT ![r] = "cancel"]
  /\ UNCHANGED <<regs, ctxVars, runVars, routeErr, workerErrCh, errOnce, done,
                 workerVars>>

\* runRoute's select: an error, done or ctx.Done(), or park.
RouteSelect(r) ==
  /\ routePc[r] = "select"
  /\ \/ /\ workerErrCh[r] # Nil
        /\ routeErr' = [routeErr EXCEPT ![r] = workerErrCh[r]]
        /\ workerErrCh' = [workerErrCh EXCEPT ![r] = Nil]
        /\ routePc' = [routePc EXCEPT ![r] = "report"]
     \/ /\ done[r] = "closed" \/ ctxDone
        /\ routePc' = [routePc EXCEPT ![r] = "ended"]
        /\ UNCHANGED <<routeErr, workerErrCh>>
     \/ /\ workerErrCh[r] = Nil /\ done[r] # "closed" /\ ~ctxDone
        /\ routePc' = [routePc EXCEPT ![r] = "parked"]
        /\ UNCHANGED <<routeErr, workerErrCh>>
  /\ UNCHANGED <<regs, ctxVars, runVars, errOnce, done, workerVars>>

\* Mutant: errCh has no buffer, so a Run that is not parked misses the error.
RouteReportUnbuffered(r) ==
  /\ routePc[r] = "report"
  /\ routePc' = [routePc EXCEPT ![r] = "cancel"]
  /\ runPc' = ReleaseRun
  /\ runErr' = IF runPc = "parked" THEN routeErr[r] ELSE runErr
  /\ UNCHANGED <<regs, ctxVars, next, errCh, routeErr, workerErrCh, errOnce, done,
                 workerVars>>

\* Mutant: the goroutine reads the loop variable instead of its parameter.
RouteReportLoopVariable(r) ==
  /\ routePc[r] = "report"
  /\ routePc' = [routePc EXCEPT ![r] = "cancel"]
  /\ runPc' = ReleaseRun
  /\ runErr' = IF runPc = "parked" THEN RouteErr(next) ELSE runErr
  /\ errCh' = IF runPc # "parked" /\ errCh = Nil THEN RouteErr(next) ELSE errCh
  /\ UNCHANGED <<regs, ctxVars, next, routeErr, workerErrCh, errOnce, done,
                 workerVars>>

\* The non-blocking send of runRoute's error to Run: handed over when Run is
\* parked, buffered when errCh is empty, dropped otherwise.
RouteReport(r) ==
  /\ routePc[r] = "report"
  /\ routePc' = [routePc EXCEPT ![r] = "cancel"]
  /\ \/ /\ runPc = "parked"
        /\ runPc' = "returning" /\ runErr' = routeErr[r]
        /\ UNCHANGED errCh
     \/ /\ runPc # "parked"
        /\ errCh' = IF errCh = Nil THEN routeErr[r] ELSE errCh
        /\ UNCHANGED <<runPc, runErr>>
  /\ UNCHANGED <<regs, ctxVars, next, routeErr, workerErrCh, errOnce, done,
                 workerVars>>

\* cancel() after the send, whether or not the error was taken.
RouteCancel(r) ==
  /\ routePc[r] = "cancel"
  /\ ctxDone' = TRUE
  /\ runPc' = ReleaseRun
  /\ routePc' = ReleaseRoutes([routePc EXCEPT ![r] = "ended"])
  /\ UNCHANGED <<regs, callerDone, next, runErr, errCh, routeErr, workerErrCh,
                 errOnce, done, workerVars>>

-----------------------------------------------------------------------------
(* The workers of a route *)

\* Consumer.Start opens a subscription and leaves a goroutine that closes it
\* when the context ends; or it fails, or panics and is recovered.
WorkerStart(r, w) ==
  /\ workerPc[r][w] = "start"
  /\ \/ /\ sub' = [sub EXCEPT ![r][w] = "open"]
        /\ workerPc' = [workerPc EXCEPT ![r][w] = "done"]
     \/ /\ workerPc' = [workerPc EXCEPT ![r][w] = "report"]
        /\ UNCHANGED sub
  /\ UNCHANGED <<regs, ctxVars, runVars, routeVars>>

\* The send into runRoute's errCh: to the parked receiver, or into the buffer,
\* which blocks while the buffer is full.
SendWorkerErr(r) ==
  \/ /\ routePc[r] = "parked"
     /\ routeErr' = [routeErr EXCEPT ![r] = RouteErr(r)]
     /\ routePc' = [routePc EXCEPT ![r] = "report"]
     /\ UNCHANGED workerErrCh
  \/ /\ routePc[r] # "parked" /\ workerErrCh[r] = Nil
     /\ workerErrCh' = [workerErrCh EXCEPT ![r] = RouteErr(r)]
     /\ UNCHANGED <<routePc, routeErr>>

\* Mutant: reportErr without the sync.Once.
WorkerReportAlways(r, w) ==
  /\ workerPc[r][w] = "report"
  /\ SendWorkerErr(r)
  /\ workerPc' = [workerPc EXCEPT ![r][w] = "done"]
  /\ UNCHANGED <<regs, ctxVars, runVars, errOnce, done, sub>>

\* reportErr: only the first failing worker of a route sends.
WorkerReport(r, w) ==
  /\ workerPc[r][w] = "report"
  /\ \/ /\ ~errOnce[r] /\ SendWorkerErr(r)
        /\ errOnce' = [errOnce EXCEPT ![r] = TRUE]
     \/ /\ errOnce[r]
        /\ UNCHANGED <<routePc, routeErr, workerErrCh, errOnce>>
  /\ workerPc' = [workerPc EXCEPT ![r][w] = "done"]
  /\ UNCHANGED <<regs, ctxVars, runVars, done, sub>>

\* The deferred wg.Done().
WorkerDone(r, w) ==
  /\ workerPc[r][w] = "done"
  /\ workerPc' = [workerPc EXCEPT ![r][w] = "ended"]
  /\ UNCHANGED <<regs, ctxVars, runVars, routeVars, sub>>

\* wg's counter is zero: every worker added has called Done.
WaitGroupZero(r) == \A w \in Workers : workerPc[r][w] \in {"idle", "ended"}

\* wg.Wait(); close(done), which releases runRoute if it is parked.
CloseDone(r) ==
  /\ done[r] = "open" /\ WaitGroupZero(r)
  /\ done' = [done EXCEPT ![r] = "closed"]
  /\ routePc' = [routePc EXCEPT ![r] = IF @ = "parked" THEN "ended" ELSE @]
  /\ UNCHANGED <<regs, ctxVars, runVars, routeErr, workerErrCh, errOnce,
                 workerVars>>

\* Mutant: the subscription is closed without waiting for the context.
DrainAtOnce(r, w) ==
  /\ sub[r][w] = "open"
  /\ sub' = [sub EXCEPT ![r][w] = "drained"]
  /\ UNCHANGED <<regs, ctxVars, runVars, routeVars, workerPc>>

\* drainOnCancel: <-ctx.Done(), then Drain or Stop.
DrainOnCancel(r, w) ==
  /\ sub[r][w] = "open" /\ ctxDone
  /\ sub' = [sub EXCEPT ![r][w] = "drained"]
  /\ UNCHANGED <<regs, ctxVars, runVars, routeVars, workerPc>>

-----------------------------------------------------------------------------

RunStep == RunEntry \/ RunLoop \/ RunLoopEnd \/ RunSelect \/ RunReturn

RouteStep(r) ==
  \/ RouteNew(r) \/ SpawnCloser(r) \/ RouteSelect(r) \/ RouteReport(r)
  \/ RouteCancel(r)
  \/ \E w \in Workers : SpawnWorker(r, w)

WorkerStep(r, w) == WorkerStart(r, w) \/ WorkerReport(r, w) \/ WorkerDone(r, w)

\* No goroutine of this call of Run is left.
AllEnded ==
  /\ runPc = "returned"
  /\ \A r \in Routes :
       /\ routePc[r] \in {"idle", "ended"}
       /\ done[r] # "open"
       /\ \A w \in Workers : /\ workerPc[r][w] \in {"idle", "ended"}
                             /\ sub[r][w] # "open"

Finished == AllEnded /\ UNCHANGED vars

Next ==
  \/ CallerCancel
  \/ RunStep
  \/ \E r \in Routes :
       \/ RouteStep(r)
       \/ CloseDone(r)
       \/ \E w \in Workers : WorkerStep(r, w) \/ DrainOnCancel(r, w)
  \/ Finished

Spec == Init /\ [][Next]_vars

\* Every goroutine that can run eventually runs; Start returns because the
\* JetStream API call in it has a deadline.  The caller need not cancel.
Fairness ==
  /\ WF_vars(RunStep)
  /\ \A r \in Routes :
       /\ WF_vars(RouteStep(r))
       /\ WF_vars(CloseDone(r))
       /\ \A w \in Workers : /\ WF_vars(WorkerStep(r, w))
                             /\ WF_vars(DrainOnCancel(r, w))

FairSpec == Spec /\ Fairness

-----------------------------------------------------------------------------
(* Properties *)

\* Start returned an error to this worker, or it panicked.
WorkerFailed(r, w) ==
  workerPc[r][w] \in {"report", "done", "ended"} /\ sub[r][w] = "none"

\* The route's goroutine has passed its error on to Run.
Reported(r) == routeErr[r] # Nil /\ routePc[r] \in {"cancel", "ended"}

\* An error Run returns for a route is the one runRoute returned for it, and
\* stems from consumer.New or from a worker of that same route whose Start
\* really failed (broker.go:66-70, 99-103, 148-149).
GenuineError ==
  \A r \in Routes : runErr = RouteErr(r) =>
    /\ routeErr[r] = RouteErr(r)
    /\ \/ \E w \in Workers : WorkerFailed(r, w)
       \/ \A w \in Workers : workerPc[r][w] = "idle"

\* Run returns nil only when its caller cancelled or a route failed: it never
\* gives up on routes that are running well (broker.go:76-81).
NoSpuriousReturn ==
  runPc = "returned" /\ runErr = Nil
    => callerDone \/ \E r \in Routes : Reported(r)

\* Once a route has reported an error, Run has an error in hand or in errCh:
\* the non-blocking send drops an error only in favour of an earlier one
\* (broker.go:58, 67-70).
ErrorNeverDroppedAlone ==
  (\E r \in Routes : Reported(r)) => errCh # Nil \/ runErr # Nil

\* The send inside errOnce.Do never blocks a worker, and with it wg and the
\* closer of done: the buffer is empty when the first failure arrives
\* (broker.go:96-103).
ReportNeverBlocks ==
  \A r \in Routes, w \in Workers :
    workerPc[r][w] = "report" /\ ~errOnce[r] => workerErrCh[r] = Nil

\* "No goroutine leaks" (README.md:120): after Run returns, also through the
\* nil-registration path with routes already launched, every goroutine ends
\* and every subscription is closed, late ones included.
NoGoroutineLeak == runPc = "returned" ~> AllEnded

\* The caller's cancellation, or an error a route returned, brings Run and
\* everything it started to an end (README.md:112, 114).
StopsOnCause ==
  callerDone \/ (\E r \in Routes : routeErr[r] # Nil)
    ~> AllEnded

\* "No silent route failures" (README.md:121): when Run returns nil the caller
\* asked for it; a failure is always visible in the result.
NoSilentRouteFailure ==
  runPc = "returned" /\ runErr = Nil => callerDone

\* "Fail-fast behavior (if one route fails, all are stopped)" (README.md:112):
\* a worker whose Start failed stops the broker.
FailFast ==
  (\E r \in Routes, w \in Workers : WorkerFailed(r, w)) ~> ctxDone

\* The contract of Run, see BrokerLifecycle.
Lifecycle == INSTANCE BrokerLifecycle WITH
  Subs     <- Routes \X Workers,
  Results  <- Errors,
  phase    <- IF runPc = "returned" /\ runErr = ErrNoRoutes THEN "refused"
              ELSE IF ctxDone THEN "stopping" ELSE "serving",
  returned <- runPc = "returned",
  result   <- IF runPc = "returned" THEN {runErr} ELSE {},
  open     <- {s \in Routes \X Workers : sub[s[1]][s[2]] = "open"},
  closed   <- {s \in Routes \X Workers : sub[s[1]][s[2]] = "drained"}

\* Run implements its contract: subscriptions open once, close only after a
\* stop and then all of them, and the result is given once (broker.go:50-82).
ImplementsLifecycle == Lifecycle!FairSpec

=============================================================================
