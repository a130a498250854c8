-------------------------------- MODULE Call --------------------------------
(***************************************************************************)
(* What a call of Requester.Request promises its caller, without the wire, *)
(* the deadline and the queue group: the handler of the route runs at most *)
(* once for it, and what the caller is told agrees with what the handler   *)
(* did.  RequestReply implements it.                                       *)
(***************************************************************************)

CONSTANT Requests

VARIABLES
  phase,    \* per request: "idle", "open" or "returned"
  outcome,  \* per request: what the handler did with it, "none" before
  result    \* per request: what Request returned

vars == <<phase, outcome, result>>

Init ==
  /\ phase = [q \in Requests |-> "idle"]
  /\ outcome = [q \in Requests |-> "none"]
  /\ result = [q \in Requests |-> "none"]

Return(q, r) ==
  /\ phase' = [phase EXCEPT ![q] = "returned"]
  /\ result' = [result EXCEPT ![q] = r]
  /\ UNCHANGED outcome

\* A message that cannot be encoded is not sent; the handler never sees it.
Refuse(q) == phase[q] = "idle" /\ Return(q, "encodeError")

Ask(q) ==
  /\ phase[q] = "idle" /\ phase' = [phase EXCEPT ![q] = "open"]
  /\ UNCHANGED <<outcome, result>>

\* Late as it may be: the caller need not be waiting any more.
Handle(q) ==
  /\ phase[q] # "idle" /\ result[q] # "encodeError" /\ outcome[q] = "none"
  /\ \E o \in {"success", "error", "panic"} : outcome' = [outcome EXCEPT ![q] = o]
  /\ UNCHANGED <<phase, result>>

\* What a reply can be taken for, by what the handler did.
Answers(o) == CASE o = "success" -> {"ok", "decodeError"}
                [] o = "error"   -> {"replyError", "zero"}
                [] OTHER         -> {}

\* With or without the handler having run, a call may fail.
End(q) ==
  /\ phase[q] = "open"
  /\ \E r \in Answers(outcome[q]) \union {"timeout", "transportError"} : Return(q, r)

Next == \E q \in Requests : Refuse(q) \/ Ask(q) \/ Handle(q) \/ End(q)

Spec == Init /\ [][Next]_vars

\* A call that has a deadline returns.
FairSpec == Spec /\ \A q \in Requests : WF_vars(End(q))

=============================================================================
