------------------------- MODULE MCJetStreamPublish -------------------------
(* JetStreamPublish on a small instance. *)
EXTENDS JetStreamPublish, TLC

\* Messages, ids and header maps are interchangeable.
Symmetry == Permutations(Msgs) \union Permutations(MsgIDs)
=============================================================================
