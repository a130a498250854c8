------------------------------ MODULE Delivery ------------------------------
(***************************************************************************)
(* What a JetStream route promises for a message, without workers, buffers *)
(* and packets: it is tried a bounded number of times; it is acknowledged  *)
(* only after a handler has finished it or a copy for the DLQ subject was  *)
(* sent; there is one such copy, and only after the last try.              *)
(* JetStreamConsumer implements it.                                        *)
(***************************************************************************)
EXTENDS Naturals

CONSTANTS
  Msgs,
  Limit     \* the deliveries a message has

VARIABLES
  stage,    \* per message: "open", "acked" or "exhausted"
  tries,    \* per message: its deliveries
  handled,  \* the messages a handler has finished
  copies,   \* per message: the copies that reached the DLQ subject
  lost      \* the messages whose copy was lost on the way

vars == <<stage, tries, handled, copies, lost>>

Init ==
  /\ stage = [m \in Msgs |-> "open"] /\ tries = [m \in Msgs |-> 0]
  /\ handled = {} /\ copies = [m \in Msgs |-> 0] /\ lost = {}

Try(m) ==
  /\ stage[m] = "open" /\ tries[m] < Limit
  /\ tries' = [tries EXCEPT ![m] = @ + 1]
  /\ UNCHANGED <<stage, handled, copies, lost>>

\* A slow handler may finish after the message was settled.
Handle(m) ==
  /\ tries[m] > 0 /\ handled' = handled \union {m}
  /\ UNCHANGED <<stage, tries, copies, lost>>

Copy(m) ==
  /\ tries[m] = Limit /\ copies[m] = 0 /\ m \notin lost
  /\ \/ copies' = [copies EXCEPT ![m] = 1] /\ UNCHANGED lost
     \/ lost' = lost \union {m} /\ UNCHANGED copies
  /\ UNCHANGED <<stage, tries, handled>>

Acknowledge(m) ==
  /\ stage[m] = "open" /\ (m \in handled \union lost \/ copies[m] > 0)
  /\ stage' = [stage EXCEPT ![m] = "acked"]
  /\ UNCHANGED <<tries, handled, copies, lost>>

GiveUp(m) ==
  /\ stage[m] = "open" /\ tries[m] = Limit
  /\ stage' = [stage EXCEPT ![m] = "exhausted"]
  /\ UNCHANGED <<tries, handled, copies, lost>>

Next == \E m \in Msgs : Try(m) \/ Handle(m) \/ Copy(m) \/ Acknowledge(m) \/ GiveUp(m)

Spec == Init /\ [][Next]_vars

=============================================================================
