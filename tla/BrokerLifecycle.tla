-------------------------- MODULE BrokerLifecycle --------------------------
(***************************************************************************)
(* What a call of Broker.Run promises its caller, with no word about       *)
(* goroutines or channels: a set of subscriptions that open at most once,  *)
(* stay open until the broker stops, and are all closed after it stops;    *)
(* and one result, given once.  A call is refused when there is nothing to *)
(* run, and then nothing is ever opened.                                   *)
(***************************************************************************)
CONSTANTS
  Subs,     \* the subscriptions a call may open
  Results   \* the errors Run may return, nil included

VARIABLES
  phase,    \* "serving", "stopping" or "refused"
  returned, \* Run has returned
  result,   \* what it returned: {} before, {error} after
  open,     \* the open subscriptions
  closed    \* the ones that were opened and closed again

vars == <<phase, returned, result, open, closed>>

Init ==
  /\ phase = "serving" /\ returned = FALSE /\ result = {}
  /\ open = {} /\ closed = {}

\* A subscription opens.  This may happen after the stop: a worker that was
\* already launched still subscribes.
Open(s) ==
  /\ phase # "refused" /\ s \notin open \union closed
  /\ open' = open \union {s}
  /\ UNCHANGED <<phase, returned, result, closed>>

\* A subscription closes, only ever because the broker stops.
Close(s) ==
  /\ phase = "stopping" /\ s \in open
  /\ open' = open \ {s} /\ closed' = closed \union {s}
  /\ UNCHANGED <<phase, returned, result>>

Stop ==
  /\ phase = "serving" /\ phase' = "stopping"
  /\ UNCHANGED <<returned, result, open, closed>>

Return(e) ==
  /\ ~returned /\ returned' = TRUE /\ result' = {e}
  /\ phase' = "stopping"
  /\ UNCHANGED <<open, closed>>

Refuse(e) ==
  /\ ~returned /\ returned' = TRUE /\ result' = {e}
  /\ open = {} /\ closed = {} /\ phase' = "refused"
  /\ UNCHANGED <<open, closed>>

Next ==
  \/ Stop
  \/ \E s \in Subs : Open(s) \/ Close(s)
  \/ \E e \in Results : Return(e) \/ Refuse(e)

Spec == Init /\ [][Next]_vars

\* A stopping broker returns and closes everything it opened.
Fairness ==
  /\ \A s \in Subs : WF_vars(Close(s))
  /\ WF_vars(phase = "stopping" /\ \E e \in Results : Return(e) \/ Refuse(e))

FairSpec == Spec /\ Fairness
=============================================================================
