--------------------------- MODULE MCRequestReply ---------------------------
(* RequestReply on a small instance. *)
EXTENDS RequestReply

\* The network and the route fail, or the caller and its connection do.
OneSideFails == {{"lost", "stop"}, {"connection", "cancel"}}
=============================================================================
