------------------------------ MODULE MCBroker ------------------------------
(* Broker on a small instance. *)
EXTENDS Broker, TLC

\* The workers of a route are interchangeable.  Only for safety runs.
WorkerSymmetry == Permutations(Workers)
=============================================================================
