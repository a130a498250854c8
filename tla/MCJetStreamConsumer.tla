------------------------ MODULE MCJetStreamConsumer ------------------------
(* JetStreamConsumer on a small instance. *)
EXTENDS JetStreamConsumer, TLC

\* Everything may go wrong.
AllFaults == {FaultKinds}

\* One kind of trouble at a time: AckWait expires under a slow client; handlers
\* panic and consume contexts are restarted; handlers panic and sends fail.
OneTrouble == {{"slow"}, {"panic", "stop"}, {"panic", "sendError"}}

\* Messages and workers are interchangeable.  Only for safety runs.
Symmetry == Permutations(Msgs) \union Permutations(Workers)
=============================================================================
