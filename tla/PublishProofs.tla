--------------------------- MODULE PublishProofs ---------------------------
(***************************************************************************)
(* Proofs about JetStreamPublish.  The stream grows by one message per     *)
(* attempt at most, which bounds its sequence numbers (Counted).  A        *)
(* message whose header map no other message uses travels under its own    *)
(* MsgID (Labelled); the window points at the one message the stream has   *)
(* under an id that never left it (Remembered); an acknowledgement and the *)
(* result made of it tell the truth about the stream (Truthful).           *)
(***************************************************************************)
EXTENDS JetStreamPublish, FiniteSetTheorems, SequenceTheorems, TLAPS

-----------------------------------------------------------------------------
(* The inductive invariant *)

\* The attempts that have been made, and those that wait to be sent.
Tried   == {t \in Msgs \X Attempts : t[2] <= attempts[t[1]]}
Sending == {m \in Msgs : pc[m] = "send"}

\* Every message in the stream, on the wire or about to be sent is an attempt.
Counted ==
  /\ IsFiniteSet(wire)
  /\ Len(stream) + Cardinality(wire) + Cardinality(Sending) <= Cardinality(Tried)

\* A call under way is one of the attempts.
Underway == \A m \in Msgs : pc[m] # "idle" => attempts[m] > 0

\* The messages whose header map no other message uses.
Own == {m \in Msgs : ~SharesHeaders(m)}

\* Such a message carries its own MsgID: in the map once it is about to be sent, on
\* the wire, and in the stream.
InHeaders ==
  \A m \in Own : options[m].headers # None =>
    /\ headerID[options[m].headers] \in {None, options[m].msgID}
    /\ pc[m] = "send" => headerID[options[m].headers] = options[m].msgID

OnWire   == \A p \in wire : p.msg \in Own => p.id = options[p.msg].msgID
InStream == \A s \in 1..Len(stream) :
              stream[s].msg \in Own => stream[s].id = options[stream[s].msg].msgID

Labelled == InHeaders /\ OnWire /\ InStream

\* The window knows where an id is, and there is no other place while the id has
\* never left the window.
Remembered ==
  /\ \A i \in MsgIDs :
       window[i] # 0 => window[i] \in 1..Len(stream) /\ stream[window[i]].id = i
  /\ \A s \in 1..Len(stream), i \in MsgIDs :
       stream[s].id = i => i \in expired \/ window[i] = s

\* What an acknowledgement says of message m.
Truth(m, r) ==
  /\ r.sequence \in 1..Len(stream)
  /\ m \in Own =>
       IF r.duplicate THEN options[m].msgID # None /\ stream[r.sequence].id = options[m].msgID
       ELSE stream[r.sequence].msg = m

Truthful ==
  /\ \A m \in Msgs, n \in Attempts, r \in Results :
       [msg |-> m, attempt |-> n, ack |-> r] \in acks => Truth(m, r)
  /\ \A m \in Msgs : \A r \in result[m] : Truth(m, r)

IInv == TypeOK /\ Underway /\ Counted /\ Labelled /\ Remembered /\ Truthful

-----------------------------------------------------------------------------
(* Counting *)

Entries == [msg : Msgs, id : MsgIDs \union {None}]

LEMMA AttemptsBounded ==
  ASSUME TypeOK
  PROVE  /\ IsFiniteSet(Tried) /\ IsFiniteSet(Sending)
         /\ Cardinality(Msgs) * MaxAttempts \in Nat
         /\ Cardinality(Tried) <= Cardinality(Msgs) * MaxAttempts
PROOF
<1>1. IsFiniteSet(Attempts) /\ Cardinality(Attempts) = MaxAttempts
  BY AttemptsAssumption, FS_Interval DEF Attempts
<1>2. /\ IsFiniteSet(Msgs \X Attempts)
      /\ Cardinality(Msgs \X Attempts) = Cardinality(Msgs) * MaxAttempts
  BY <1>1, MsgsAssumption, FS_Product
<1>3. Tried \subseteq Msgs \X Attempts /\ Sending \subseteq Msgs
  BY DEF Tried, Sending
<1>4. /\ IsFiniteSet(Tried) /\ IsFiniteSet(Sending)
      /\ Cardinality(Tried) <= Cardinality(Msgs \X Attempts)
  BY <1>2, <1>3, MsgsAssumption, FS_Subset
<1> QED
  BY <1>2, <1>4, FS_CardinalityType

\* A publish on the wire leaves room for one more message in the stream.
LEMMA RoomInStream ==
  ASSUME TypeOK, Counted, NEW p \in wire
  PROVE  Len(stream) + 1 \in SeqNums /\ Len(stream) \in Nat
PROOF
<1>1. Cardinality(wire) \in Nat /\ Cardinality(wire) # 0
  BY FS_CardinalityType, FS_EmptySet DEF Counted
<1>2. Len(stream) \in Nat
  BY DEF TypeOK
<1>3. Cardinality(Sending) \in Nat /\ Cardinality(Tried) \in Nat
  BY AttemptsBounded, FS_CardinalityType
<1> QED
  BY <1>1, <1>2, <1>3, AttemptsBounded DEF Counted, SeqNums

-----------------------------------------------------------------------------
(* Types *)

LEMMA TypeInit == Init => TypeOK
PROOF
<1> SUFFICES ASSUME Init PROVE TypeOK
  OBVIOUS
<1>1. stream \in Seq(Entries)
  BY DEF Init, Entries
<1>2. attempts \in [Msgs -> 0..MaxAttempts]
  BY AttemptsAssumption DEF Init
<1> QED
  BY <1>1, <1>2 DEF Init, TypeOK, Entries

LEMMA TypeCall ==
  ASSUME TypeOK, NEW m \in Msgs, Call(m)
  PROVE  attempts' \in [Msgs -> 0..MaxAttempts]
PROOF
  BY AttemptsAssumption DEF TypeOK, Call

LEMMA MsgIDType ==
  ASSUME TypeOK, NEW m \in Msgs
  PROVE  MsgID(m) \in MsgIDs \union {None}
PROOF
<1>1. options[m].msgID \in MsgIDs \union {None} /\ options[m].headers \in HeaderMaps \union {None}
  BY DEF TypeOK, PublishOptions
<1> QED
  BY <1>1 DEF TypeOK, MsgID

LEMMA TypeStore ==
  ASSUME TypeOK, Counted, NEW p \in wire, Store(p)
  PROVE  TypeOK'
PROOF
<1>1. /\ p \in Packets /\ wire' \subseteq Packets
      /\ p.msg \in Msgs /\ p.attempt \in Attempts /\ p.id \in MsgIDs \union {None}
  BY DEF TypeOK, Store, Packets
<1>2. UNCHANGED callVars
  BY DEF Store
<1>3. ASSUME NEW seq \in SeqNums, NEW dup \in BOOLEAN
      PROVE  Ack(p, seq, dup) \in Acks
  BY <1>1 DEF Ack, Acks, Results
<1>4. CASE InWindow(p.id) /\ acks' = acks \union {Ack(p, window[p.id], TRUE)} /\ UNCHANGED streamVars
  <2>1. p.id \in MsgIDs /\ window[p.id] \in SeqNums
    BY <1>1, <1>4 DEF InWindow, TypeOK
  <2>2. acks' \subseteq Acks
    BY <1>3, <1>4, <2>1 DEF TypeOK
  <2> QED
    BY <1>1, <1>2, <1>4, <2>2 DEF TypeOK, callVars, streamVars
<1>5. CASE /\ stream' = Append(stream, [msg |-> p.msg, id |-> p.id])
           /\ window' = [i \in MsgIDs |-> IF i = p.id THEN Len(stream) + 1 ELSE window[i]]
           /\ acks' = acks \union {Ack(p, Len(stream) + 1, FALSE)}
           /\ UNCHANGED expired
  <2>1. Len(stream) + 1 \in SeqNums
    BY RoomInStream
  <2>2. acks' \subseteq Acks
    BY <1>3, <1>5, <2>1 DEF TypeOK
  <2>3. stream' \in Seq([msg : Msgs, id : MsgIDs \union {None}])
    BY <1>1, <1>5 DEF TypeOK
  <2>4. window' \in [MsgIDs -> SeqNums \union {0}]
    BY <1>5, <2>1 DEF TypeOK
  <2> QED
    BY <1>1, <1>2, <1>5, <2>2, <2>3, <2>4 DEF TypeOK, callVars
<1> QED
  BY <1>4, <1>5 DEF Store

LEMMA TypeNext == TypeOK /\ Underway /\ Counted /\ [Next]_vars => TypeOK'
PROOF
<1> SUFFICES ASSUME TypeOK, Underway, Counted, [Next]_vars PROVE TypeOK'
  OBVIOUS
<1>1. ASSUME NEW m \in Msgs, EncodeFails(m) PROVE TypeOK'
  BY <1>1, TypeCall DEF EncodeFails, TypeOK, streamVars
<1>2. ASSUME NEW m \in Msgs, Publish(m) PROVE TypeOK'
  <2>1. attempts' \in [Msgs -> 0..MaxAttempts]
    BY <1>2, TypeCall DEF Publish
  <2>2. options[m].msgID \in MsgIDs \union {None}
    BY DEF TypeOK, PublishOptions
  <2>3. headerID' \in [HeaderMaps -> MsgIDs \union {None}]
    BY <1>2, <2>2 DEF Publish, SetMsgID, TypeOK
  <2> QED
    BY <1>2, <2>1, <2>3 DEF Publish, TypeOK, streamVars
<1>3. ASSUME NEW m \in Msgs, Send(m) PROVE TypeOK'
  <2>1. attempts[m] \in Attempts
    BY <1>3, AttemptsAssumption DEF Send, Underway, TypeOK, Attempts
  <2>2. [msg |-> m, id |-> MsgID(m), attempt |-> attempts[m]] \in Packets
    BY <2>1, MsgIDType DEF Packets
  <2>3. wire' \subseteq Packets
    BY <1>3, <2>2 DEF Send, TypeOK
  <2> QED
    BY <1>3, <2>3 DEF Send, TypeOK, streamVars
<1>4. ASSUME NEW m \in Msgs, Acknowledged(m) PROVE TypeOK'
  <2>1. PICK a \in acks : /\ acks' = acks \ {a}
                          /\ result' = [result EXCEPT ![m] = {a.ack}]
    BY <1>4 DEF Acknowledged
  <2>2. a.ack \in Results
    BY <2>1 DEF TypeOK, Acks
  <2>3. result' \in [Msgs -> SUBSET Results] /\ acks' \subseteq Acks
    BY <2>1, <2>2 DEF TypeOK
  <2> QED
    BY <1>4, <2>3 DEF Acknowledged, TypeOK, streamVars
<1>5. ASSUME NEW m \in Msgs, Fails(m) PROVE TypeOK'
  BY <1>5 DEF Fails, TypeOK, streamVars
<1>6. ASSUME NEW i \in MsgIDs, WindowEnds(i) PROVE TypeOK'
  BY <1>6 DEF WindowEnds, TypeOK, callVars
<1>7. CASE Lose
  BY <1>7 DEF Lose, TypeOK, callVars, streamVars
<1>8. CASE UNCHANGED vars
  BY <1>8 DEF TypeOK, vars, callVars, streamVars
<1> QED
  BY <1>1, <1>2, <1>3, <1>4, <1>5, <1>6, <1>7, <1>8, TypeStore DEF Next, Finished

\* What the server does with p: answer with the place of p.id, or append it.
LEMMA StoreCases ==
  ASSUME TypeOK, NEW p \in wire, Store(p)
  PROVE  /\ p.msg \in Msgs /\ p.id \in MsgIDs \union {None} /\ p.attempt \in Attempts
         /\ result' = result /\ Len(stream) \in Nat
         /\ \/ /\ p.id \in MsgIDs /\ window[p.id] # 0
               /\ acks' = acks \union {Ack(p, window[p.id], TRUE)}
               /\ stream' = stream /\ window' = window /\ expired' = expired
            \/ /\ p.id \in MsgIDs => window[p.id] = 0
               /\ stream' = Append(stream, [msg |-> p.msg, id |-> p.id])
               /\ window' = [i \in MsgIDs |-> IF i = p.id THEN Len(stream) + 1 ELSE window[i]]
               /\ acks' = acks \union {Ack(p, Len(stream) + 1, FALSE)}
               /\ expired' = expired
PROOF
<1>1. p.msg \in Msgs /\ p.id \in MsgIDs \union {None} /\ p.attempt \in Attempts
  BY DEF TypeOK, Packets
<1>2. result' = result /\ Len(stream) \in Nat
  BY DEF TypeOK, Store, callVars
<1> QED
  BY <1>1, <1>2, NoneAssumption DEF Store, InWindow, streamVars

\* An appended message changes nothing before it.
LEMMA AppendedStream ==
  ASSUME TypeOK, NEW e \in Entries, stream' = Append(stream, e)
  PROVE  /\ Len(stream) \in Nat /\ Len(stream') = Len(stream) + 1
         /\ \A s \in 1..Len(stream) : s \in 1..Len(stream') /\ stream'[s] = stream[s]
         /\ stream'[Len(stream) + 1] = e
         /\ \A s \in 1..Len(stream') : s \in 1..Len(stream) \/ s = Len(stream) + 1
PROOF
<1>1. stream \in Seq(Entries)
  BY DEF TypeOK, Entries
<1> QED
  BY <1>1, AppendProperties

-----------------------------------------------------------------------------
(* Every message in the stream, on the wire or about to be sent is an attempt *)

LEMMA CountedInit == Init => Counted /\ Underway
PROOF
<1> SUFFICES ASSUME Init PROVE Counted /\ Underway
  OBVIOUS
<1>1. wire = {} /\ Len(stream) = 0 /\ Sending = {} /\ Tried = {}
  BY AttemptsAssumption DEF Init, Sending, Tried, Attempts
<1>2. Counted
  BY <1>1, FS_EmptySet DEF Counted
<1> QED
  BY <1>2 DEF Init, Underway

\* A call is a new attempt.
LEMMA CallTries ==
  ASSUME TypeOK, NEW m \in Msgs, Call(m)
  PROVE  Cardinality(Tried') = Cardinality(Tried) + 1
PROOF
<1>1. attempts[m] \in Nat /\ attempts[m] + 1 \in Attempts
  BY AttemptsAssumption DEF TypeOK, Call, Attempts
<1>2. \A n \in Msgs : attempts'[n] = IF n = m THEN attempts[m] + 1 ELSE attempts[n]
  BY DEF TypeOK, Call
<1>3. Tried' = Tried \union {<<m, attempts[m] + 1>>}
  <2>1. ASSUME NEW n \in Msgs, NEW k \in Attempts
        PROVE  <<n, k>> \in Tried' <=> <<n, k>> \in Tried \/ (n = m /\ k = attempts[m] + 1)
    BY <1>1, <1>2 DEF Tried, Attempts
  <2>2. Tried \subseteq Msgs \X Attempts /\ Tried' \subseteq Msgs \X Attempts
    BY DEF Tried
  <2> QED
    BY <1>1, <2>1, <2>2
<1>4. <<m, attempts[m] + 1>> \notin Tried
  BY <1>1 DEF Tried
<1> QED
  BY <1>3, <1>4, AttemptsBounded, FS_AddElement

LEMMA UnderwayNext == TypeOK /\ Underway /\ [Next]_vars => Underway'
PROOF
<1> SUFFICES ASSUME TypeOK, Underway, [Next]_vars, NEW m \in Msgs, pc'[m] # "idle"
             PROVE  attempts'[m] > 0
  BY DEF Underway
<1>0. attempts[m] \in Nat
  BY AttemptsAssumption DEF TypeOK
<1>1. ASSUME NEW n \in Msgs, Call(n), pc'[m] = pc[m] \/ n = m PROVE attempts'[m] > 0
  BY <1>0, <1>1 DEF Call, Underway, TypeOK
<1>2. ASSUME NEW n \in Msgs, EncodeFails(n) \/ Publish(n) PROVE attempts'[m] > 0
  BY <1>1, <1>2 DEF EncodeFails, Publish, TypeOK
<1>3. ASSUME NEW n \in Msgs, Send(n) \/ Acknowledged(n) \/ Fails(n) PROVE attempts'[m] > 0
  BY <1>0, <1>3 DEF Send, Acknowledged, Fails, Underway, TypeOK
<1>4. CASE UNCHANGED <<pc, attempts>>
  BY <1>4 DEF Underway
<1>5. ASSUME NEW p \in wire, Store(p) PROVE attempts'[m] > 0
  BY <1>4, <1>5 DEF Store, callVars
<1> QED
  BY <1>2, <1>3, <1>4, <1>5 DEF Next, WindowEnds, Lose, Finished, vars, callVars

LEMMA CountedNext == TypeOK /\ Underway /\ Counted /\ [Next]_vars => Counted'
PROOF
<1> SUFFICES ASSUME TypeOK, Underway, Counted, [Next]_vars PROVE Counted'
  OBVIOUS
<1>a. /\ Len(stream) \in Nat /\ Cardinality(wire) \in Nat /\ IsFiniteSet(wire)
      /\ IsFiniteSet(Sending) /\ Cardinality(Sending) \in Nat /\ Cardinality(Tried) \in Nat
      /\ Len(stream) + Cardinality(wire) + Cardinality(Sending) <= Cardinality(Tried)
  BY AttemptsBounded, FS_CardinalityType DEF Counted, TypeOK
<1>1. ASSUME NEW m \in Msgs, EncodeFails(m) PROVE Counted'
  <2>1. Cardinality(Tried') = Cardinality(Tried) + 1
    BY <1>1, CallTries DEF EncodeFails
  <2>2. Sending' = Sending
    BY <1>1 DEF EncodeFails, Call, Sending, TypeOK
  <2>3. wire' = wire /\ stream' = stream
    BY <1>1 DEF EncodeFails, streamVars
  <2> QED
    BY <1>a, <2>1, <2>2, <2>3 DEF Counted
<1>2. ASSUME NEW m \in Msgs, Publish(m) PROVE Counted'
  <2>1. Cardinality(Tried') = Cardinality(Tried) + 1
    BY <1>2, CallTries DEF Publish
  <2>2. Sending' = Sending \union {m} /\ m \notin Sending
    BY <1>2 DEF Publish, Call, Sending, TypeOK
  <2>3. Cardinality(Sending') = Cardinality(Sending) + 1
    BY <1>a, <2>2, FS_AddElement
  <2>4. wire' = wire /\ stream' = stream
    BY <1>2 DEF Publish, streamVars
  <2> QED
    BY <1>a, <2>1, <2>3, <2>4 DEF Counted
<1>3. ASSUME NEW m \in Msgs, Send(m) PROVE Counted'
  <2> DEFINE packet == [msg |-> m, id |-> MsgID(m), attempt |-> attempts[m]]
  <2>1. Sending' = Sending \ {m} /\ m \in Sending
    BY <1>3 DEF Send, Sending, TypeOK
  <2>2. Cardinality(Sending') = Cardinality(Sending) - 1
    BY <1>a, <2>1, FS_RemoveElement
  <2>3. wire' = wire \union {packet}
    BY <1>3 DEF Send
  <2> HIDE DEF packet
  <2>4. IsFiniteSet(wire') /\ Cardinality(wire') \in Nat
        /\ Cardinality(wire') <= Cardinality(wire) + 1
    <3>1. IsFiniteSet(wire')
      BY <1>a, <2>3, FS_AddElement
    <3>2. Cardinality(wire') = IF packet \in wire THEN Cardinality(wire) ELSE Cardinality(wire) + 1
      BY <1>a, <2>3, FS_AddElement
    <3> QED
      BY <1>a, <3>1, <3>2
  <2>5. Tried' = Tried /\ stream' = stream
    BY <1>3 DEF Send, Tried, streamVars
  <2>6. Cardinality(Tried') = Cardinality(Tried) /\ Len(stream') = Len(stream)
    BY <2>5
  <2> QED
    BY <1>a, <2>2, <2>4, <2>6 DEF Counted
<1>4. ASSUME NEW m \in Msgs, Acknowledged(m) \/ Fails(m) PROVE Counted'
  <2>1. Sending' = Sending
    BY <1>4 DEF Acknowledged, Fails, Sending, TypeOK
  <2>2. Tried' = Tried /\ wire' = wire /\ stream' = stream
    BY <1>4 DEF Acknowledged, Fails, Tried, streamVars
  <2> QED
    BY <2>1, <2>2 DEF Counted
<1>5. ASSUME NEW p \in wire, Store(p) PROVE Counted'
  <2>1. IsFiniteSet(wire') /\ Cardinality(wire') = Cardinality(wire) - 1
    <3>1. wire' = wire \ {p}
      BY <1>5 DEF Store
    <3> QED
      BY <1>a, <3>1, FS_RemoveElement
  <2>2. Len(stream') \in Nat /\ Len(stream') <= Len(stream) + 1
    <3> DEFINE e == [msg |-> p.msg, id |-> p.id]
    <3>1. e \in Entries
      BY <1>5, StoreCases DEF Entries
    <3>2. stream' = stream \/ stream' = Append(stream, e)
      BY <1>5, StoreCases
    <3> HIDE DEF e
    <3> QED
      BY <1>a, <3>1, <3>2, AppendedStream
  <2>3. Sending' = Sending /\ Tried' = Tried
    BY <1>5 DEF Store, callVars, Sending, Tried
  <2>4. Cardinality(Sending') = Cardinality(Sending) /\ Cardinality(Tried') = Cardinality(Tried)
    BY <2>3
  <2> QED
    BY <1>a, <2>1, <2>2, <2>4 DEF Counted
<1>6. CASE Lose
  <2>1. wire' \subseteq wire /\ stream' = stream /\ Sending' = Sending /\ Tried' = Tried
    BY <1>6 DEF Lose, callVars, streamVars, Sending, Tried
  <2>2. IsFiniteSet(wire') /\ Cardinality(wire') <= Cardinality(wire) /\ Cardinality(wire') \in Nat
    BY <1>a, <2>1, FS_Subset, FS_CardinalityType
  <2>3. /\ Cardinality(Sending') = Cardinality(Sending)
        /\ Cardinality(Tried') = Cardinality(Tried) /\ Len(stream') = Len(stream)
    BY <2>1
  <2> QED
    BY <1>a, <2>2, <2>3 DEF Counted
<1>7. CASE UNCHANGED <<callVars, wire, stream>>
  BY <1>7 DEF Counted, callVars, Sending, Tried
<1> QED
  BY <1>1, <1>2, <1>3, <1>4, <1>5, <1>6, <1>7 DEF Next, WindowEnds, Finished, vars, streamVars

-----------------------------------------------------------------------------
(* Labels *)

\* The options of the calls never change.
LEMMA OptionsStay == [Next]_vars => options' = options /\ Own' = Own
PROOF
<1> SUFFICES ASSUME [Next]_vars PROVE options' = options /\ Own' = Own
  OBVIOUS
<1>1. options' = options
  BY DEF Next, EncodeFails, Publish, Send, Acknowledged, Fails, Store, WindowEnds, Lose,
         Finished, vars, callVars
<1> QED
  BY <1>1 DEF Own, SharesHeaders

LEMMA InHeadersNext == TypeOK /\ InHeaders /\ [Next]_vars => InHeaders'
PROOF
<1> SUFFICES ASSUME TypeOK, InHeaders, [Next]_vars, NEW m \in Own, options[m].headers # None
             PROVE  /\ headerID'[options[m].headers] \in {None, options[m].msgID}
                    /\ pc'[m] = "send" => headerID'[options[m].headers] = options[m].msgID
  BY OptionsStay DEF InHeaders
<1> DEFINE h == options[m].headers
<1>0. /\ m \in Msgs /\ h \in HeaderMaps /\ h # None
      /\ headerID[h] \in {None, options[m].msgID}
      /\ pc[m] = "send" => headerID[h] = options[m].msgID
  BY DEF InHeaders, Own, TypeOK, PublishOptions
<1>1. ASSUME NEW n \in Msgs, Publish(n) 
      PROVE  /\ headerID'[h] \in {None, options[m].msgID}
             /\ pc'[m] = "send" => headerID'[h] = options[m].msgID
  <2>1. headerID'[h] = IF h = options[n].headers /\ options[n].msgID # None
                       THEN options[n].msgID ELSE headerID[h]
    BY <1>0, <1>1 DEF Publish, SetMsgID
  <2>2. CASE n = m
    BY <1>0, <2>1, <2>2
  <2>3. CASE n # m
    <3>1. options[n].headers # h
      BY <1>0, <2>3 DEF Own, SharesHeaders
    <3>2. pc'[m] = pc[m]
      BY <1>0, <1>1, <2>3 DEF Publish, TypeOK
    <3> QED
      BY <1>0, <2>1, <3>1, <3>2
  <2> QED
    BY <2>2, <2>3
<1>2. ASSUME NEW n \in Msgs, EncodeFails(n) \/ Send(n) \/ Acknowledged(n) \/ Fails(n)
      PROVE  headerID' = headerID /\ (pc'[m] = "send" => pc[m] = "send")
  BY <1>0, <1>2 DEF EncodeFails, Send, Acknowledged, Fails, TypeOK
<1>3. CASE UNCHANGED callVars
  BY <1>0, <1>3 DEF callVars
<1> QED
  BY <1>0, <1>1, <1>2, <1>3 DEF Next, Store, WindowEnds, Lose, Finished, vars

\* What is sent carries its own id.
LEMMA SentLabel ==
  ASSUME TypeOK, InHeaders, NEW m \in Own, Send(m)
  PROVE  MsgID(m) = options[m].msgID
PROOF
  BY DEF InHeaders, Send, MsgID

LEMMA OnWireNext == TypeOK /\ InHeaders /\ OnWire /\ [Next]_vars => OnWire'
PROOF
<1> SUFFICES ASSUME TypeOK, InHeaders, OnWire, [Next]_vars, NEW p \in wire', p.msg \in Own
             PROVE  p.id = options[p.msg].msgID
  BY OptionsStay DEF OnWire
<1>1. CASE p \in wire
  BY <1>1 DEF OnWire
<1>2. CASE p \notin wire
  <2>1. PICK m \in Msgs : Send(m) /\ p = [msg |-> m, id |-> MsgID(m), attempt |-> attempts[m]]
    BY <1>2 DEF Next, EncodeFails, Publish, Send, Acknowledged, Fails, Store, WindowEnds,
                Lose, Finished, vars
  <2> QED
    BY <2>1, SentLabel
<1> QED
  BY <1>1, <1>2

\* Only the server changes the stream, the window, or what has left the window.
LEMMA StreamStays ==
  [Next]_vars /\ ~(\E p \in wire : Store(p)) =>
    /\ stream' = stream
    /\ \/ window' = window /\ expired' = expired
       \/ \E i \in MsgIDs : WindowEnds(i)
PROOF
  BY DEF Next, EncodeFails, Publish, Send, Acknowledged, Fails, Lose, Finished, WindowEnds,
         vars, streamVars

LEMMA InStreamNext == TypeOK /\ OnWire /\ InStream /\ [Next]_vars => InStream'
PROOF
<1> SUFFICES ASSUME TypeOK, OnWire, InStream, [Next]_vars PROVE InStream'
  OBVIOUS
<1>1. ASSUME NEW p \in wire, Store(p) PROVE InStream'
  <2> DEFINE e == [msg |-> p.msg, id |-> p.id]
  <2>1. CASE stream' = stream
    BY <2>1, OptionsStay DEF InStream
  <2>2. CASE stream' = Append(stream, e)
    <3>1. e \in Entries
      BY <1>1, StoreCases DEF Entries
    <3>2. e.msg \in Own => e.id = options[e.msg].msgID
      BY DEF OnWire
    <3> HIDE DEF e
    <3> QED
      BY <2>2, <3>1, <3>2, AppendedStream, OptionsStay DEF InStream
  <2> QED
    BY <1>1, <2>1, <2>2, StoreCases
<1>2. CASE stream' = stream
  BY <1>2, OptionsStay DEF InStream
<1> QED
  BY <1>1, <1>2, StreamStays

-----------------------------------------------------------------------------
(* The duplicate window *)

LEMMA RememberedNext == TypeOK /\ Remembered /\ [Next]_vars => Remembered'
PROOF
<1> SUFFICES ASSUME TypeOK, Remembered, [Next]_vars PROVE Remembered'
  OBVIOUS
<1>1. ASSUME NEW p \in wire, Store(p) PROVE Remembered'
  <2> DEFINE e == [msg |-> p.msg, id |-> p.id]
  <2>1. CASE UNCHANGED streamVars
    BY <2>1 DEF Remembered, streamVars
  <2>2. CASE /\ p.id \in MsgIDs => window[p.id] = 0
             /\ stream' = Append(stream, e) /\ expired' = expired
             /\ window' = [i \in MsgIDs |-> IF i = p.id THEN Len(stream) + 1 ELSE window[i]]
    <3>1. e \in Entries /\ e.id = p.id
      BY <1>1, StoreCases DEF Entries
    <3> HIDE DEF e
    <3>2. /\ Len(stream) \in Nat /\ Len(stream') = Len(stream) + 1
          /\ \A s \in 1..Len(stream) : s \in 1..Len(stream') /\ stream'[s] = stream[s]
          /\ stream'[Len(stream) + 1] = e
          /\ \A s \in 1..Len(stream') : s \in 1..Len(stream) \/ s = Len(stream) + 1
      BY <2>2, <3>1, AppendedStream
    <3>3. ASSUME NEW i \in MsgIDs, window'[i] # 0
          PROVE  window'[i] \in 1..Len(stream') /\ stream'[window'[i]].id = i
      <4>1. CASE i = p.id
        <5>1. window'[i] = Len(stream) + 1
          BY <2>2, <4>1
        <5>2. Len(stream) + 1 \in 1..Len(stream')
          BY <3>2
        <5> QED
          BY <3>1, <3>2, <4>1, <5>1, <5>2
      <4>2. CASE i # p.id
        <5>1. window'[i] = window[i]
          BY <2>2, <4>2
        <5>2. window[i] \in 1..Len(stream) /\ stream[window[i]].id = i
          BY <3>3, <5>1 DEF Remembered
        <5> QED
          BY <3>2, <5>1, <5>2
      <4> QED
        BY <4>1, <4>2
    <3>4. ASSUME NEW s \in 1..Len(stream'), NEW i \in MsgIDs, stream'[s].id = i
          PROVE  i \in expired' \/ window'[i] = s
      <4>1. CASE s \in 1..Len(stream)
        <5>1. i \in expired \/ window[i] = s
          BY <3>2, <3>4, <4>1 DEF Remembered
        <5>2. s # 0
          BY <4>1
        <5>3. window[i] = s => i # p.id
          BY <2>2, <5>2
        <5> QED
          BY <2>2, <5>1, <5>3
      <4>2. CASE s = Len(stream) + 1
        BY <2>2, <3>1, <3>2, <3>4, <4>2
      <4> QED
        BY <3>2, <4>1, <4>2
    <3> QED
      BY <3>3, <3>4 DEF Remembered
  <2> QED
    BY <1>1, <2>1, <2>2, StoreCases DEF streamVars
<1>2. ASSUME NEW i \in MsgIDs, WindowEnds(i) PROVE Remembered'
  <2>1. /\ stream' = stream /\ expired' = expired \union {i}
        /\ \A j \in MsgIDs : window'[j] = IF j = i THEN 0 ELSE window[j]
    BY <1>2 DEF WindowEnds, TypeOK
  <2> QED
    BY <2>1 DEF Remembered
<1>3. CASE stream' = stream /\ window' = window /\ expired' = expired
  BY <1>3 DEF Remembered
<1> QED
  BY <1>1, <1>2, <1>3, StreamStays

-----------------------------------------------------------------------------
(* Acknowledgements and results *)

\* What is true of the stream stays true of it.
LEMMA TruthStays ==
  ASSUME TypeOK, [Next]_vars, NEW m \in Msgs, NEW r \in Results, Truth(m, r)
  PROVE  Truth(m, r)'
PROOF
<1>1. r.sequence \in 1..Len(stream') /\ stream'[r.sequence] = stream[r.sequence]
  <2>1. CASE stream' = stream
    BY <2>1 DEF Truth
  <2>2. ASSUME NEW p \in wire, Store(p), stream' = Append(stream, [msg |-> p.msg, id |-> p.id])
        PROVE  r.sequence \in 1..Len(stream') /\ stream'[r.sequence] = stream[r.sequence]
    <3>1. [msg |-> p.msg, id |-> p.id] \in Entries
      BY <2>2, StoreCases DEF Entries
    <3> QED
      BY <2>2, <3>1, AppendedStream DEF Truth
  <2> QED
    BY <2>1, <2>2, StreamStays, StoreCases
<1> QED
  BY <1>1, OptionsStay DEF Truth

\* The server tells the truth.
LEMMA AckTruth ==
  ASSUME TypeOK, Counted, OnWire, Remembered, [Next]_vars, NEW p \in wire, Store(p)
  PROVE  \E r \in Results : acks' = acks \union {[msg |-> p.msg, attempt |-> p.attempt, ack |-> r]}
                            /\ Truth(p.msg, r)'
PROOF
<1>0. p.msg \in Msgs /\ p.id \in MsgIDs \union {None} /\ p.attempt \in Attempts
  BY StoreCases
<1>1. CASE /\ p.id \in MsgIDs /\ window[p.id] # 0
           /\ acks' = acks \union {Ack(p, window[p.id], TRUE)}
           /\ stream' = stream
  <2> DEFINE r == [sequence |-> window[p.id], duplicate |-> TRUE]
  <2>1. r \in Results
    BY <1>1 DEF TypeOK, Results
  <2>2. acks' = acks \union {[msg |-> p.msg, attempt |-> p.attempt, ack |-> r]}
    BY <1>1 DEF Ack
  <2>3. window[p.id] \in 1..Len(stream) /\ stream[window[p.id]].id = p.id
    BY <1>1 DEF Remembered
  <2>4. p.msg \in Own => p.id = options[p.msg].msgID
    BY DEF OnWire
  <2>5. r.sequence = window[p.id] /\ r.duplicate = TRUE
    OBVIOUS
  <2> HIDE DEF r
  <2>6. \A m, q : m = p.msg /\ q = r => Truth(m, q)'
    BY <1>1, <2>3, <2>4, <2>5, OptionsStay, NoneAssumption DEF Truth
  <2> QED
    BY <2>1, <2>2, <2>6
<1>2. CASE /\ stream' = Append(stream, [msg |-> p.msg, id |-> p.id])
           /\ acks' = acks \union {Ack(p, Len(stream) + 1, FALSE)}
  <2> DEFINE r == [sequence |-> Len(stream) + 1, duplicate |-> FALSE]
             e == [msg |-> p.msg, id |-> p.id]
  <2>1. acks' = acks \union {[msg |-> p.msg, attempt |-> p.attempt, ack |-> r]}
    BY <1>2 DEF Ack
  <2>2. e \in Entries /\ e.msg = p.msg
    BY <1>0 DEF Entries
  <2>3. r.sequence = Len(stream) + 1 /\ r.duplicate = FALSE
    OBVIOUS
  <2>4. r \in Results
    BY RoomInStream DEF Results
  <2>5. stream' = Append(stream, e)
    BY <1>2
  <2> HIDE DEF r, e
  <2>6. r.sequence \in 1..Len(stream') /\ stream'[r.sequence].msg = p.msg
    BY <2>2, <2>3, <2>5, AppendedStream
  <2>7. \A m, q : m = p.msg /\ q = r => Truth(m, q)'
    BY <2>3, <2>6 DEF Truth
  <2> QED
    BY <2>1, <2>4, <2>7
<1> QED
  BY <1>1, <1>2, StoreCases

LEMMA TruthfulNext ==
  TypeOK /\ Counted /\ OnWire /\ Remembered /\ Truthful /\ [Next]_vars => Truthful'
PROOF
<1> SUFFICES ASSUME TypeOK, Counted, OnWire, Remembered, Truthful, [Next]_vars
             PROVE  Truthful'
  OBVIOUS
<1>1. ASSUME NEW m \in Msgs, NEW n \in Attempts, NEW r \in Results,
             [msg |-> m, attempt |-> n, ack |-> r] \in acks'
      PROVE  Truth(m, r)'
  <2> DEFINE a == [msg |-> m, attempt |-> n, ack |-> r]
  <2>1. CASE a \in acks
    BY <2>1, TruthStays DEF Truthful
  <2>2. ASSUME NEW p \in wire, Store(p), a \notin acks PROVE Truth(m, r)'
    <3>1. PICK q \in Results :
            /\ acks' = acks \union {[msg |-> p.msg, attempt |-> p.attempt, ack |-> q]}
            /\ Truth(p.msg, q)'
      BY <2>2, AckTruth
    <3>2. a = [msg |-> p.msg, attempt |-> p.attempt, ack |-> q]
      BY <1>1, <2>2, <3>1
    <3>3. m = p.msg /\ r = q
      BY <3>2
    <3> QED
      BY <3>1, <3>3
  <2>3. acks' \subseteq acks \/ \E p \in wire : Store(p)
    BY DEF Next, EncodeFails, Publish, Send, Acknowledged, Fails, WindowEnds, Lose, Finished,
           vars
  <2> QED
    BY <1>1, <2>1, <2>2, <2>3
<1>2. ASSUME NEW m \in Msgs, NEW r \in result'[m] PROVE Truth(m, r)'
  <2>1. CASE r \in result[m]
    <3>1. r \in Results
      BY <2>1 DEF TypeOK
    <3> QED
      BY <2>1, <3>1, TruthStays DEF Truthful
  <2>2. ASSUME NEW n \in Msgs, Acknowledged(n), r \notin result[m] PROVE Truth(m, r)'
    <3>1. PICK a \in acks : a.msg = n /\ result' = [result EXCEPT ![n] = {a.ack}]
      BY <2>2 DEF Acknowledged
    <3>2. n = m /\ r = a.ack
      BY <1>2, <2>2, <3>1 DEF TypeOK
    <3>3. a = [msg |-> m, attempt |-> a.attempt, ack |-> r] /\ a.attempt \in Attempts /\ r \in Results
      BY <3>1, <3>2 DEF TypeOK, Acks
    <3>4. Truth(m, r)
      BY <3>3 DEF Truthful
    <3> QED
      BY <3>3, <3>4, TruthStays
  <2>3. result' = result \/ \E n \in Msgs : Acknowledged(n)
    BY DEF Next, EncodeFails, Publish, Send, Fails, Store, WindowEnds, Lose, Finished,
           vars, callVars
  <2> QED
    BY <1>2, <2>1, <2>2, <2>3
<1> QED
  BY <1>1, <1>2 DEF Truthful

-----------------------------------------------------------------------------
(* The theorems *)

\* The inductive invariant holds: what travels carries the MsgID that the strategy set in
\* its own header map (producer/jetstream_strategy.go), and the stream, its window and the
\* acknowledgements agree.
THEOREM Invariant == Spec => []IInv
PROOF
<1>1. Init => IInv
  <2> SUFFICES ASSUME Init PROVE IInv
    OBVIOUS
  <2>1. wire = {} /\ acks = {} /\ Len(stream) = 0
    BY DEF Init
  <2>2. \A i \in MsgIDs : window[i] = 0
    BY DEF Init
  <2>3. Remembered
    BY <2>1, <2>2 DEF Remembered
  <2>4. Truthful
    BY <2>1 DEF Init, Truthful
  <2>5. OnWire /\ InStream
    BY <2>1 DEF OnWire, InStream
  <2>6. InHeaders
    BY DEF Init, InHeaders, Own, PublishOptions
  <2> QED
    BY <2>3, <2>4, <2>5, <2>6, TypeInit, CountedInit DEF IInv, Labelled
<1>2. IInv /\ [Next]_vars => IInv'
  BY TypeNext, UnderwayNext, CountedNext, InHeadersNext, OnWireNext, InStreamNext,
     RememberedNext, TruthfulNext DEF IInv, Labelled
<1> QED
  BY <1>1, <1>2, PTL DEF Spec

\* Every variable keeps its type; the sequence numbers stay within the bound.
THEOREM TypeCorrect == Spec => []TypeOK
PROOF
<1>1. IInv => TypeOK
  BY DEF IInv
<1> QED
  BY <1>1, Invariant, PTL

\* A retry under a MsgID leaves the message in the stream once.
THEOREM StoredOnce == Spec => []RetryStoresOnce
PROOF
<1>1. IInv => RetryStoresOnce
  <2> SUFFICES ASSUME IInv, NEW m \in Msgs, options[m].msgID \notin expired \union {None},
                      ~SharesHeaders(m)
               PROVE  Cardinality(Copies(m)) <= 1
    BY DEF RetryStoresOnce
  <2> DEFINE i == options[m].msgID
  <2>1. m \in Own /\ i \in MsgIDs /\ i \notin expired
    BY DEF IInv, TypeOK, PublishOptions, Own
  <2>2. DOMAIN stream = 1..Len(stream)
    BY DEF IInv, TypeOK
  <2>3. ASSUME NEW s \in Copies(m) PROVE s = window[i]
    <3>1. s \in 1..Len(stream) /\ stream[s].msg = m
      BY <2>2 DEF Copies
    <3>2. stream[s].id = i
      BY <2>1, <3>1 DEF IInv, Labelled, InStream
    <3> QED
      BY <2>1, <3>1, <3>2 DEF IInv, Remembered
  <2>4. Copies(m) \subseteq {window[i]}
    BY <2>3
  <2>5. IsFiniteSet({window[i]}) /\ Cardinality({window[i]}) = 1
    BY FS_Singleton
  <2> QED
    BY <2>4, <2>5, FS_Subset
<1> QED
  BY <1>1, Invariant, PTL

\* What a call returns is true of the stream.
THEOREM ResultIsTrue == Spec => []ResultIsStored
PROOF
<1>1. IInv => ResultIsStored
  <2> SUFFICES ASSUME IInv, NEW m \in Msgs, NEW r \in result[m]
               PROVE  /\ r.sequence \in DOMAIN stream
                      /\ ~SharesHeaders(m) =>
                           IF r.duplicate THEN /\ options[m].msgID # None
                                               /\ stream[r.sequence].id = options[m].msgID
                           ELSE stream[r.sequence].msg = m
    BY DEF ResultIsStored
  <2>1. DOMAIN stream = 1..Len(stream)
    BY DEF IInv, TypeOK
  <2>2. Truth(m, r)
    BY DEF IInv, Truthful
  <2> QED
    BY <2>1, <2>2 DEF Truth, Own
<1> QED
  BY <1>1, Invariant, PTL

=============================================================================
