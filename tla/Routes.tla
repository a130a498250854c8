------------------------------- MODULE Routes -------------------------------
(***************************************************************************)
(* router.New and Consumer.Start together: a route that New has accepted   *)
(* is handed to Start, which the workers call once each; of the types that *)
(* Start has a case for, this module goes on with PubSub and Queue.        *)
(***************************************************************************)
EXTENDS CoreConsumer, Integers

CONSTANTS Names, Delivers, Waits    \* of Router

ASSUME NumbersAssumption == Delivers \subseteq Int /\ Waits \subseteq Int

VARIABLES
  type, cfg, given, made,    \* of Router; made is what New returned
  started                    \* the route has been handed to Start

newVars == <<type, cfg, given, made>>

Maker == INSTANCE Router WITH result <- made

\* The route is the one New makes; Start switches on its type.
RoutesInit ==
  /\ Maker!Init /\ Init /\ started = FALSE
  /\ routeType = type \/ (type \notin {"PubSub", "Queue"} /\ routeType = "PubSub")

\* What Start reads of a route of type t.
Read(t, c) ==
  [field \in DOMAIN c |-> IF field \in Maker!Handed(t) THEN c[field]
                          ELSE IF field \in Maker!Texts THEN ""
                          ELSE IF field = "deliveryPolicy" THEN "all" ELSE 0]

\* Run calls Start with the route; New's error ends the program before.
Hand ==
  /\ ~started /\ made = {"nil"} /\ routeType = type
  /\ started' = TRUE
  /\ cfg' = Read(type, cfg) /\ given' = cfg'
  /\ UNCHANGED <<type, made, vars>>

RoutesNext ==
  \/ ~started /\ Maker!Next /\ UNCHANGED <<started, vars>>
  \/ Hand
  \/ started /\ Next /\ UNCHANGED <<started, newVars>>

RoutesSpec == RoutesInit /\ [][RoutesNext]_<<newVars, started, vars>> /\ Fairness

-----------------------------------------------------------------------------
(* Properties: those of CoreConsumer for the routes it is given, and of Router. *)

\* A route that New has accepted can be started, unless it is a JetStream route
\* with a delivery policy that needs a start (see Router).
OnlyPolicyPreventsStart == Maker!OnlyPolicyPreventsStart

\* And only what cannot be started is refused (see Router).
StartableAccepted == Maker!StartableAccepted

=============================================================================
