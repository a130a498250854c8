-------------------------- MODULE JetStreamPublish --------------------------
(***************************************************************************)
(* Publishing to a stream: typed.Producer.Publish, producer.Publish and    *)
(* the JetStream strategy, called again by the application after an error. *)
(* Calls run concurrently and may have been given the same header map.     *)
(*                                                                         *)
(* External: jetstream.PublishMsg sets the Nats-Msg-Id header in the map   *)
(* of the message, encodes the message and waits for the acknowledgement;  *)
(* the server does not store a message whose id is in the duplicate        *)
(* window and answers with the sequence of the one that is.                *)
(***************************************************************************)
EXTENDS Naturals, Sequences, FiniteSets

CONSTANTS
  Msgs,         \* what the application publishes
  MsgIDs,       \* the ids it uses
  HeaderMaps,   \* the header maps it has made
  None,         \* no id, no map
  MaxAttempts   \* bound on the calls of Publish for a message

ASSUME NoneAssumption == None \notin MsgIDs \union HeaderMaps
ASSUME AttemptsAssumption == MaxAttempts \in Nat
ASSUME MsgsAssumption == IsFiniteSet(Msgs)

VARIABLES
  options,   \* per message: the options of its calls
  headerID,  \* per header map: the Nats-Msg-Id in it
  pc,        \* per message: where its current call is
  attempts,  \* per message: the calls so far
  result,    \* per message: the PublishResult of a call, {} before
  wire,      \* publishes the server has not seen
  acks,      \* acknowledgements on their way back
  stream,    \* the stream
  window,    \* per id: the sequence in the duplicate window, 0 for none
  expired    \* history: the ids that left the window

callVars   == <<options, headerID, pc, attempts, result>>
streamVars == <<stream, window, expired>>
vars       == <<callVars, wire, acks, streamVars>>

\* PublishWithMsgID and PublishWithHeaders, given or not.
PublishOptions == [msgID : MsgIDs \union {None}, headers : HeaderMaps \union {None}]

Attempts  == 1..MaxAttempts
SeqNums   == 1..(Cardinality(Msgs) * MaxAttempts)
Results   == [sequence : SeqNums, duplicate : BOOLEAN]
Packets   == [msg : Msgs, id : MsgIDs \union {None}, attempt : Attempts]
Acks      == [msg : Msgs, attempt : Attempts, ack : Results]

TypeOK ==
  /\ options \in [Msgs -> PublishOptions]
  /\ headerID \in [HeaderMaps -> MsgIDs \union {None}]
  /\ pc \in [Msgs -> {"idle", "send", "waiting", "failed", "done"}]
  /\ attempts \in [Msgs -> 0..MaxAttempts]
  /\ result \in [Msgs -> SUBSET Results]
  /\ wire \subseteq Packets /\ acks \subseteq Acks
  /\ stream \in Seq([msg : Msgs, id : MsgIDs \union {None}])
  /\ window \in [MsgIDs -> SeqNums \union {0}]
  /\ expired \subseteq MsgIDs

Init ==
  /\ options \in [Msgs -> PublishOptions]
  /\ headerID = [h \in HeaderMaps |-> None]
  /\ pc = [m \in Msgs |-> "idle"] /\ attempts = [m \in Msgs |-> 0]
  /\ result = [m \in Msgs |-> {}]
  /\ wire = {} /\ acks = {} /\ stream = <<>>
  /\ window = [i \in MsgIDs |-> 0] /\ expired = {}

-----------------------------------------------------------------------------
(* A call of Publish *)

\* The application calls, the first time or after an error.
Call(m) ==
  /\ pc[m] \in {"idle", "failed"} /\ attempts[m] < MaxAttempts
  /\ attempts' = [attempts EXCEPT ![m] = @ + 1]

EncodeFails(m) ==
  /\ Call(m)
  /\ pc' = [pc EXCEPT ![m] = "failed"]
  /\ UNCHANGED <<options, headerID, result, wire, acks, streamVars>>

\* The id goes into the message's headers, which are the caller's map if it
\* gave one, and a map made for this call otherwise.
SetMsgID(m) ==
  headerID' = [h \in HeaderMaps |->
                 IF h = options[m].headers /\ options[m].msgID # None
                 THEN options[m].msgID ELSE headerID[h]]

\* Publish up to the id in the headers.
Publish(m) ==
  /\ Call(m) /\ SetMsgID(m)
  /\ pc' = [pc EXCEPT ![m] = "send"]
  /\ UNCHANGED <<options, result, wire, acks, streamVars>>

\* Mutant: the id is dropped when the caller gave no headers.
MsgIDInHeadersOnly(m) ==
  IF options[m].headers = None THEN None ELSE headerID[options[m].headers]

\* The id in the headers when the message is encoded.
MsgID(m) ==
  IF options[m].headers = None THEN options[m].msgID ELSE headerID[options[m].headers]

Send(m) ==
  /\ pc[m] = "send"
  /\ wire' = wire \union {[msg |-> m, id |-> MsgID(m), attempt |-> attempts[m]]}
  /\ pc' = [pc EXCEPT ![m] = "waiting"]
  /\ UNCHANGED <<options, headerID, attempts, result, acks, streamVars>>

\* The acknowledgement of this call arrives.
Acknowledged(m) ==
  /\ pc[m] = "waiting"
  /\ \E a \in acks :
       /\ a.msg = m /\ a.attempt = attempts[m]
       /\ acks' = acks \ {a}
       /\ result' = [result EXCEPT ![m] = {a.ack}]
  /\ pc' = [pc EXCEPT ![m] = "done"]
  /\ UNCHANGED <<options, headerID, attempts, wire, streamVars>>

\* Mutant: the error is not looked at, the result is the zero PublishResult.
FailsUnnoticed(m) ==
  /\ pc[m] = "waiting"
  /\ pc' = [pc EXCEPT ![m] = "done"]
  /\ result' = [result EXCEPT ![m] = {[sequence |-> 0, duplicate |-> FALSE]}]
  /\ UNCHANGED <<options, headerID, attempts, wire, acks, streamVars>>

\* PublishMsg gives up: a deadline, no stream, a lost connection.
Fails(m) ==
  /\ pc[m] = "waiting"
  /\ pc' = [pc EXCEPT ![m] = "failed"]
  /\ UNCHANGED <<options, headerID, attempts, result, wire, acks, streamVars>>

-----------------------------------------------------------------------------
(* The server *)

Ack(p, seq, dup) ==
  [msg |-> p.msg, attempt |-> p.attempt,
   ack |-> [sequence |-> seq, duplicate |-> dup]]

InWindow(i) == i # None /\ window[i] # 0

Store(p) ==
  /\ p \in wire /\ wire' = wire \ {p}
  /\ \/ /\ InWindow(p.id)
        /\ acks' = acks \union {Ack(p, window[p.id], TRUE)}
        /\ UNCHANGED streamVars
     \/ /\ ~InWindow(p.id)
        /\ stream' = Append(stream, [msg |-> p.msg, id |-> p.id])
        /\ window' = [i \in MsgIDs |-> IF i = p.id THEN Len(stream) + 1 ELSE window[i]]
        /\ acks' = acks \union {Ack(p, Len(stream) + 1, FALSE)}
        /\ UNCHANGED expired
  /\ UNCHANGED callVars

WindowEnds(i) ==
  /\ window[i] # 0
  /\ window' = [window EXCEPT ![i] = 0] /\ expired' = expired \union {i}
  /\ UNCHANGED <<callVars, wire, acks, stream>>

Lose ==
  /\ \/ \E p \in wire : wire' = wire \ {p} /\ UNCHANGED acks
     \/ \E a \in acks : acks' = acks \ {a} /\ UNCHANGED wire
  /\ UNCHANGED <<callVars, streamVars>>

-----------------------------------------------------------------------------

\* The application has what it wanted or no attempt left.
Finished ==
  /\ \A m \in Msgs : pc[m] = "done" \/ (pc[m] = "failed" /\ attempts[m] = MaxAttempts)
  /\ UNCHANGED vars

Next ==
  \/ \E m \in Msgs :
       EncodeFails(m) \/ Publish(m) \/ Send(m) \/ Acknowledged(m) \/ Fails(m)
  \/ \E p \in wire : Store(p)
  \/ \E i \in MsgIDs : WindowEnds(i)
  \/ Lose
  \/ Finished

Spec == Init /\ [][Next]_vars

-----------------------------------------------------------------------------
(* Properties *)

\* The message's calls use a header map that calls for other messages use too.
SharesHeaders(m) ==
  /\ options[m].headers # None
  /\ \E n \in Msgs \ {m} : options[n].headers = options[m].headers

Copies(m) == {s \in DOMAIN stream : stream[s].msg = m}

\* An application that repeats a failed Publish under a MsgID has the message
\* in the stream once, even when an acknowledgement was lost or a late publish
\* overtakes its retry, until the duplicate window ends
\* (jetstream_strategy.go:34-45).
RetryStoresOnce ==
  \A m \in Msgs :
    options[m].msgID \notin expired \union {None} /\ ~SharesHeaders(m)
      => Cardinality(Copies(m)) <= 1

\* A result is about the stream: its sequence holds the message itself or, when
\* it says duplicate, one stored under the same MsgID (README.md:181-186,
\* jetstream_strategy.go:45-61).
ResultIsStored ==
  \A m \in Msgs : \A r \in result[m] :
    /\ r.sequence \in DOMAIN stream
    /\ ~SharesHeaders(m) =>
         IF r.duplicate THEN /\ options[m].msgID # None
                             /\ stream[r.sequence].id = options[m].msgID
         ELSE stream[r.sequence].msg = m

\* "Deduplication occurs during publish when a MsgID is provided"
\* (README.md:179): without one, no call is answered as a duplicate.
DedupOnlyWithMsgID ==
  \A m \in Msgs : options[m].msgID = None => \A r \in result[m] : ~r.duplicate

=============================================================================
