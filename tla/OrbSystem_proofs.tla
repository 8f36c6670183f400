--------------------------- MODULE OrbSystem_proofs ---------------------------
(***************************************************************************)
(* Type correctness of OrbSystem, and two properties of the end of a turn,  *)
(* for every number of streams, every length of uploads and every mode of   *)
(* the server: a turn is replied to once, and only after b"finish" went out *)
(* on its stream or the device had abandoned it.                            *)
(*                                                                          *)
(* on_endpoint pushes ExpectSpeech whether or not b"finish" could be sent.  *)
(* That the second only fails on a stream the device abandoned takes an     *)
(* invariant about everything that could otherwise make the send raise: h2  *)
(* closes a stream for a reason, no handler runs ahead of its request, and  *)
(* no response was begun on a stream whose endpointer is still armed.       *)
(***************************************************************************)
EXTENDS OrbSystem, TLAPS, SequenceTheorems

\* A stream h2 has half-closed locally was answered; one it has closed was
\* answered, or reset by the device.
ClosedForAReason ==
  \A s \in Streams :
    /\ h2[s] = "half_local" => s \in answered
    /\ h2[s] = "closed" => s \in answered \/ Gone(s)

\* A reset on the wire was sent by a device that abandoned the stream.
ResetsAreGone ==
  \A i \in DOMAIN wire : wire[i].type = "rst" => Gone(wire[i].sid)

\* h2 knows the streams of the batch the server is handling.
BatchIsKnown == \A i \in 1..batch : h2[wire[i].sid] # "idle"

\* Nothing of a stream goes before its request, and only its request does
\* without another frame before it.
RequestFirst ==
  \A i \in DOMAIN wire :
    IF wire[i].type = "req"
    THEN \A j \in DOMAIN wire : wire[j].sid = wire[i].sid => i <= j
    ELSE \/ h2[wire[i].sid] # "idle"
         \/ \E j \in 1..(i - 1) : wire[j].type = "req" /\ wire[j].sid = wire[i].sid

\* h2 knows a stream the device has opened, or will, while connected.
Introduced ==
  \A s \in Streams :
    link = "up" /\ up[s] # "idle" =>
      \/ h2[s] # "idle"
      \/ \E j \in DOMAIN wire : wire[j].type = "req" /\ wire[j].sid = s

\* Nothing is known of a stream the device has not opened, nor on its way.
Unopened ==
  /\ \A s \in Streams :
       s > opened =>
         /\ up[s] = "idle" /\ s \notin hdrs /\ offered[s] = 0
         /\ link = "up" => kind[s] = "none"
  /\ \A i \in DOMAIN wire : wire[i].sid <= opened

\* The instance has not heard of a stream whose request it has yet to handle.
Unheard ==
  \A i \in DOMAIN wire :
    wire[i].type = "req" =>
      kind[wire[i].sid] = "none" /\ wire[i].sid \notin hdrs /\ offered[wire[i].sid] = 0

\* Only a speech upload has an endpointer.
Gated == \A s \in Streams : endpointers[s] # "none" => kind[s] = "speech"

\* While it is armed, no response was begun and no reply pushed.
ArmedIsFresh ==
  \A s \in Streams :
    endpointers[s] = "armed" => (s \in hdrs => s \in answered) /\ offered[s] = 0

\* What is on the wire, or known to be open, is a request of the device.
Asked == \A s \in Streams : up[s] # "idle" => asked[s] \in Kinds

\* The wire is empty unless the connection is up, and streams are a
\* connection's.
QuietWhenDown ==
  /\ link # "up" => wire = << >>
  /\ link = "down" => opened = 0

IInv ==
  /\ TypeOK /\ Asked /\ QuietWhenDown
  /\ ClosedForAReason /\ ResetsAreGone /\ BatchIsKnown /\ RequestFirst
  /\ Introduced /\ Unopened /\ Unheard /\ Gated /\ ArmedIsFresh
  /\ ReplyAfterFinish /\ OneReplyPerTurn

-----------------------------------------------------------------------------
(***************************************************************************)
(* Queues.                                                                  *)
(***************************************************************************)

LEMMA TailFacts ==
  ASSUME NEW T, NEW q \in Seq(T), Len(q) > 0
  PROVE  /\ Head(q) = q[1] /\ q[1] \in T
         /\ Tail(q) \in Seq(T) /\ Len(Tail(q)) = Len(q) - 1
         /\ \A i \in 1..Len(Tail(q)) : Tail(q)[i] = q[i + 1]
  OBVIOUS

LEMMA ConcatFacts ==
  ASSUME NEW T, NEW p \in Seq(T), NEW q \in Seq(T)
  PROVE  /\ p \o q \in Seq(T) /\ Len(p \o q) = Len(p) + Len(q)
         /\ \A i \in 1..Len(p) : (p \o q)[i] = p[i]
         /\ \A i \in 1..Len(q) : (p \o q)[Len(p) + i] = q[i]
  BY ConcatProperties

-----------------------------------------------------------------------------
(***************************************************************************)
(* Type correctness.                                                        *)
(***************************************************************************)

\* The event being handled is a frame of a stream; what is left fits.
LEMMA EventType ==
  ASSUME TypeOK, NEW type, Handling(type)
  PROVE  /\ Event \in Frame /\ Event.sid \in Streams /\ Event.kind \in Kinds
         /\ Event = wire[1] /\ Len(wire) > 0
         /\ NextEvent => wire' \in Seq(Frame) /\ batch' \in 0..Len(wire')
<1>1. wire \in Seq(Frame) /\ batch \in 0..Len(wire) /\ batch > 0
  BY DEF TypeOK, OrbTypeOK, Handling
<1>2. Len(wire) > 0 /\ Len(wire) \in Nat
  BY <1>1
<1>3. /\ Event = wire[1] /\ wire[1] \in Frame
      /\ Tail(wire) \in Seq(Frame) /\ Len(Tail(wire)) = Len(wire) - 1
  BY <1>1, <1>2, TailFacts DEF Event
<1>4. Event.sid \in Streams /\ Event.kind \in Kinds
  BY <1>3 DEF Frame
<1> QED
  BY <1>1, <1>2, <1>3, <1>4 DEF NextEvent

LEMMA TargetIdType == ASSUME NEW learned \in Ids PROVE TargetId(learned) \in Ids
  BY DEF TargetId, Ids

LEMMA MsgType ==
  ASSUME NEW type \in {"finish", "ok", "session", "anims", "audio"},
         NEW sid \in Streams, NEW about \in Streams \cup {NoStream}, NEW target \in Ids
  PROVE  Msg(type, sid, about, target) \in Message
  BY DEF Msg, Message

LEMMA ExpectType ==
  ASSUME NEW sid \in Streams, NEW about \in Streams, NEW target \in Ids
  PROVE  Msg("expect", sid, about, target) \in Message
  BY DEF Msg, Message

\* A sequence of at most one message can be sent.
LEMMA MaybeType ==
  ASSUME NEW m, NEW c, c => m \in Message
  PROVE  (IF c THEN <<m>> ELSE << >>) \in Seq(Message)
<1>1. CASE c
  BY <1>1
<1>2. CASE ~c
  BY <1>2
<1> QED
  BY <1>1, <1>2

LEMMA InitType == Init => TypeOK
<1> SUFFICES ASSUME Init PROVE TypeOK
  OBVIOUS
<1>1. MaxStreams \in Nat /\ NoStream = 0
  BY OrbAssumption DEF NoStream
<1>2. wire \in Seq(Frame) /\ down \in Seq(Message) /\ batch \in 0..Len(wire)
  BY DEF Init, OrbInit
<1>3. NoStream \in 0..MaxStreams /\ 0 \in 0..MaxStreams
  BY <1>1
<1>4. OrbTypeOK
  BY <1>2, <1>3 DEF Init, OrbInit, OrbTypeOK
<1> QED
  BY <1>3, <1>4 DEF Init, TypeOK, Fates

\* The type invariant in parts: the device's half is untouched by a handler.
LEMMA HandlerType ==
  ASSUME TypeOK, OrbTypeOK', UNCHANGED <<device, storage>>
  PROVE  TypeOK'
  BY DEF TypeOK, device, storage

LEMMA RequestReceivedType ==
  ASSUME TypeOK, RequestReceived PROVE OrbTypeOK'
<1> DEFINE s == Event.sid
           k == Event.kind
           learned == IF k \in KindsWithId THEN DeviceId ELSE dev_id
<1>1. /\ s \in Streams /\ k \in Kinds
      /\ wire' \in Seq(Frame) /\ batch' \in 0..Len(wire')
  BY EventType DEF RequestReceived
<1>2. learned \in {NoId, DeviceId} /\ learned \in Ids
  BY DEF TypeOK, OrbTypeOK, Ids
<1>3. down' \in Seq(Message) /\ pushed_anims' \in BOOLEAN
  <2>1. down \in Seq(Message) /\ pushed_anims \in BOOLEAN
    BY DEF TypeOK, OrbTypeOK
  <2>2. CASE UNCHANGED <<down, pushed_anims>>
    BY <2>1, <2>2
  <2>3. CASE \E room \in Rooms :
               /\ AnimsPushed(downchannel_sid, room)
               /\ down' = Append(down, AnimsMsg(downchannel_sid, learned))
               /\ pushed_anims' = TRUE
    <3>1. downchannel_sid \in Streams
      BY <2>3, OrbAssumption DEF AnimsPushed, Pushed, NoStream, Streams, TypeOK, OrbTypeOK
    <3>2. AnimsMsg(downchannel_sid, learned) \in Message
      BY <1>2, <3>1, MsgType, TargetIdType DEF AnimsMsg
    <3> QED
      BY <2>1, <2>3, <3>2
  <2> QED
    BY <2>2, <2>3 DEF RequestReceived
<1>4. /\ kind' = [kind EXCEPT ![s] = k] /\ bodies' = [bodies EXCEPT ![s] = 0]
      /\ dev_id' = learned
      /\ endpointers' \in {endpointers, [endpointers EXCEPT ![s] = "armed"]}
      /\ UNCHANGED <<link, h2, hdrs, responded, downchannel_sid, ASSET_SERVED, history>>
  BY DEF RequestReceived
<1> HIDE DEF s, k, learned
<1> QED
  BY <1>1, <1>2, <1>3, <1>4 DEF TypeOK, OrbTypeOK, history

LEMMA DataIgnoredType == ASSUME TypeOK, DataIgnored PROVE OrbTypeOK'
<1>1. wire' \in Seq(Frame) /\ batch' \in 0..Len(wire')
  BY EventType DEF DataIgnored
<1> QED
  BY <1>1 DEF DataIgnored, TypeOK, OrbTypeOK, instance, history

LEMMA CountType ==
  ASSUME NEW f \in [Streams -> Nat], NEW s \in Streams
  PROVE  [f EXCEPT ![s] = @ + 1] \in [Streams -> Nat]
<1>1. f[s] + 1 \in Nat
  OBVIOUS
<1> QED
  BY <1>1, Zenon

LEMMA DataBufferedType == ASSUME TypeOK, DataBuffered PROVE OrbTypeOK'
<1>1. Event.sid \in Streams /\ wire' \in Seq(Frame) /\ batch' \in 0..Len(wire')
  BY EventType DEF DataBuffered
<1>2. bodies' \in [Streams -> Nat]
  <2>1. bodies' = [bodies EXCEPT ![Event.sid] = @ + 1] /\ bodies \in [Streams -> Nat]
    BY DEF DataBuffered, TypeOK, OrbTypeOK
  <2> QED
    BY <1>1, <2>1, CountType, Zenon
<1> QED
  BY <1>1, <1>2 DEF DataBuffered, TypeOK, OrbTypeOK, history

\* on_endpoint saves what the stream has sent so far.
LEMMA SavedType ==
  ASSUME TypeOK, NEW s \in Streams, NEW firing, SaveUtterance(s, firing)
  PROVE  utterance' \in [Streams -> Nat]
  BY DEF SaveUtterance, TypeOK, OrbTypeOK

LEMMA EndpointObservedType == ASSUME TypeOK, EndpointObserved PROVE OrbTypeOK'
<1>1. Event.sid \in Streams /\ wire' \in Seq(Frame) /\ batch' \in 0..Len(wire')
  BY EventType DEF EndpointObserved
<1>2. utterance' \in [Streams -> Nat]
  BY <1>1, SavedType DEF EndpointObserved
<1>3. bodies' \in [Streams -> Nat] /\ endpointers' \in [Streams -> {"none", "armed", "fired"}]
  BY <1>1 DEF EndpointObserved, TypeOK, OrbTypeOK
<1> QED
  BY <1>1, <1>2, <1>3 DEF EndpointObserved, TypeOK, OrbTypeOK

LEMMA AfterEndType ==
  ASSUME NEW st
  PROVE  AfterEnd(st) \in {"closed", "half_local"}
  BY DEF AfterEnd

LEMMA TurnEndType ==
  ASSUME NEW s, NEW f, NEW g,
         f => Msg("finish", s, s, NoId) \in Message,
         g => Msg("expect", downchannel_sid, s, TargetId(dev_id)) \in Message
  PROVE  TurnEnd(s, f, g) \in Seq(Message)
<1> DEFINE mf == Msg("finish", s, s, NoId)
           me == Msg("expect", downchannel_sid, s, TargetId(dev_id))
<1>1. (IF f THEN <<mf>> ELSE << >>) \in Seq(Message)
  BY MaybeType
<1>2. (IF g THEN <<me>> ELSE << >>) \in Seq(Message)
  BY MaybeType
<1>3. TurnEnd(s, f, g) = (IF f THEN <<mf>> ELSE << >>) \o (IF g THEN <<me>> ELSE << >>)
  BY DEF TurnEnd
<1> HIDE DEF mf, me
<1> QED
  BY <1>1, <1>2, <1>3, ConcatFacts

LEMMA EndpointRepliedType == ASSUME TypeOK, EndpointReplied PROVE OrbTypeOK'
<1> DEFINE s == Event.sid
<1>1. s \in Streams /\ wire' \in Seq(Frame) /\ batch' \in 0..Len(wire')
  BY EventType DEF EndpointReplied
<1>2. utterance' \in [Streams -> Nat]
  BY <1>1, SavedType DEF EndpointReplied
<1>3. bodies' \in [Streams -> Nat] /\ endpointers' \in [Streams -> {"none", "armed", "fired"}]
  <2>1. bodies' = [bodies EXCEPT ![s] = @ + 1] /\ endpointers' = [endpointers EXCEPT ![s] = "fired"]
    BY DEF EndpointReplied
  <2> QED
    BY <1>1, <2>1 DEF TypeOK, OrbTypeOK
<1>4. PICK room \in Rooms :
        LET finished == FinishSent(s, room)
            pushed == Pushed(downchannel_sid, room)
        IN  /\ hdrs' = IF CanRespond(s) THEN hdrs \cup {s} ELSE hdrs
            /\ h2' = IF finished THEN [h2 EXCEPT ![s] = AfterEnd(@)] ELSE h2
            /\ responded' = Responded(s, finished)
            /\ answered' = IF finished THEN answered \cup {s} ELSE answered
            /\ down' = down \o TurnEnd(s, finished, pushed)
            /\ offered' = IF pushed THEN [offered EXCEPT ![s] = @ + 1] ELSE offered
  BY DEF EndpointReplied
<1>5. hdrs' \subseteq Streams /\ responded' \subseteq Streams /\ answered' \subseteq Streams
  BY <1>1, <1>4 DEF Responded, TypeOK, OrbTypeOK
<1>6. h2' \in [Streams -> {"idle", "open", "half_remote", "half_local", "closed"}]
  BY <1>1, <1>4, AfterEndType DEF TypeOK, OrbTypeOK
<1>7. offered' \in [Streams -> Nat]
  <2>1. offered' \in {offered, [offered EXCEPT ![s] = @ + 1]}
    BY <1>4
  <2>2. offered \in [Streams -> Nat]
    BY DEF TypeOK, OrbTypeOK
  <2>3. [offered EXCEPT ![s] = @ + 1] \in [Streams -> Nat]
    BY <1>1, <2>2, CountType
  <2> QED
    BY <2>1, <2>2, <2>3
<1>8. down' \in Seq(Message)
  <2>1. NoId \in Ids /\ dev_id \in Ids
    BY DEF Ids, TypeOK, OrbTypeOK
  <2>2. Msg("finish", s, s, NoId) \in Message
    BY <1>1, <2>1, MsgType
  <2>3. Pushed(downchannel_sid, room) =>
          Msg("expect", downchannel_sid, s, TargetId(dev_id)) \in Message
    <3>1. Pushed(downchannel_sid, room) => downchannel_sid \in Streams
      BY OrbAssumption DEF Pushed, NoStream, Streams, TypeOK, OrbTypeOK
    <3> QED
      BY <1>1, <2>1, <3>1, ExpectType, TargetIdType
  <2>4. TurnEnd(s, FinishSent(s, room), Pushed(downchannel_sid, room)) \in Seq(Message)
    BY <2>2, <2>3, TurnEndType
  <2>5. down \in Seq(Message)
    BY DEF TypeOK, OrbTypeOK
  <2> QED
    BY <1>4, <2>4, <2>5, ConcatFacts
<1>9. UNCHANGED <<link, kind, downchannel_sid, dev_id, pushed_anims, banked, ASSET_SERVED>>
  BY DEF EndpointReplied
<1> QED
  BY <1>1, <1>2, <1>3, <1>5, <1>6, <1>7, <1>8, <1>9 DEF TypeOK, OrbTypeOK

LEMMA PersistType ==
  ASSUME TypeOK, NEW s \in Streams, Persist(s)
  PROVE  banked' \in [Streams -> Nat]
  BY DEF Persist, TypeOK, OrbTypeOK

LEMMA ForgetType ==
  ASSUME TypeOK, NEW s \in Streams, Forget(s)
  PROVE  /\ kind' \in [Streams -> Kinds \cup {"none"}]
         /\ bodies' \in [Streams -> Nat]
         /\ endpointers' \in [Streams -> {"none", "armed", "fired"}]
         /\ responded' \subseteq Streams
  BY DEF Forget, TypeOK, OrbTypeOK

LEMMA AnsweredEndedType == ASSUME TypeOK, AnsweredEnded PROVE OrbTypeOK'
<1>1. Event.sid \in Streams /\ wire' \in Seq(Frame) /\ batch' \in 0..Len(wire')
  BY EventType DEF AnsweredEnded
<1>2. banked' \in [Streams -> Nat]
  BY <1>1, PersistType DEF AnsweredEnded
<1>3. /\ kind' \in [Streams -> Kinds \cup {"none"}] /\ bodies' \in [Streams -> Nat]
      /\ endpointers' \in [Streams -> {"none", "armed", "fired"}] /\ responded' \subseteq Streams
  BY <1>1, ForgetType DEF AnsweredEnded
<1> QED
  BY <1>1, <1>2, <1>3 DEF AnsweredEnded, TypeOK, OrbTypeOK

LEMMA AnswerType == ASSUME TypeOK, NEW s \in Streams PROVE Answer(s) \in Message
<1>1. NoId \in Ids
  BY DEF Ids
<1>2. Msg("audio", s, s, NoId) \in Message /\ Msg("ok", s, s, NoId) \in Message
  BY <1>1, MsgType
<1> QED
  BY <1>2 DEF Answer

LEMMA StreamAnsweredType == ASSUME TypeOK, StreamAnswered PROVE OrbTypeOK'
<1> DEFINE s == Event.sid
<1>1. s \in Streams /\ wire' \in Seq(Frame) /\ batch' \in 0..Len(wire')
  BY EventType DEF StreamAnswered
<1>2. banked' \in [Streams -> Nat]
  BY <1>1, PersistType DEF StreamAnswered
<1>3. /\ kind' \in [Streams -> Kinds \cup {"none"}] /\ bodies' \in [Streams -> Nat]
      /\ endpointers' \in [Streams -> {"none", "armed", "fired"}] /\ responded' \subseteq Streams
  BY <1>1, ForgetType DEF StreamAnswered
<1>4. down' \in Seq(Message)
  <2>1. down' = Append(down, Answer(s)) /\ down \in Seq(Message)
    BY DEF StreamAnswered, TypeOK, OrbTypeOK
  <2> QED
    BY <1>1, <2>1, AnswerType
<1>5. h2' \in [Streams -> {"idle", "open", "half_remote", "half_local", "closed"}]
  BY <1>1, AfterEndType DEF StreamAnswered, TypeOK, OrbTypeOK
<1>6. hdrs' \subseteq Streams /\ answered' \subseteq Streams
  BY <1>1 DEF StreamAnswered, TypeOK, OrbTypeOK
<1>7. UNCHANGED <<link, downchannel_sid, dev_id, pushed_anims, utterance, offered, ASSET_SERVED>>
  BY DEF StreamAnswered
<1> QED
  BY <1>1, <1>2, <1>3, <1>4, <1>5, <1>6, <1>7 DEF TypeOK, OrbTypeOK

LEMMA DownchannelOpenedType == ASSUME TypeOK, DownchannelOpened PROVE OrbTypeOK'
<1> DEFINE s == Event.sid
<1>1. s \in Streams /\ wire' \in Seq(Frame) /\ batch' \in 0..Len(wire')
  BY EventType DEF DownchannelOpened
<1>2. banked' \in [Streams -> Nat]
  BY <1>1, PersistType DEF DownchannelOpened
<1>3. downchannel_sid' \in 0..MaxStreams /\ hdrs' \subseteq Streams
  <2>1. downchannel_sid' = s /\ hdrs' = hdrs \cup {s}
    BY DEF DownchannelOpened
  <2>2. s \in 0..MaxStreams
    BY <1>1 DEF Streams
  <2> QED
    BY <1>1, <2>1, <2>2 DEF TypeOK, OrbTypeOK
<1>4. PICK room \in Rooms \ {"none"} :
        LET session == Msg("session", s, NoStream, NoId)
            pushing == AnimsWanted /\ AnimsPushed(s, room)
        IN  /\ down' = down \o <<session>>
                         \o (IF pushing THEN <<AnimsMsg(s, dev_id)>> ELSE << >>)
            /\ pushed_anims' = (pushed_anims \/ pushing)
  BY DEF DownchannelOpened
<1>5. down' \in Seq(Message)
  <2>1. NoId \in Ids /\ dev_id \in Ids
    BY DEF Ids, TypeOK, OrbTypeOK
  <2>2. Msg("session", s, NoStream, NoId) \in Message /\ AnimsMsg(s, dev_id) \in Message
    BY <1>1, <2>1, MsgType, TargetIdType DEF AnimsMsg
  <2>3. down \o <<Msg("session", s, NoStream, NoId)>> \in Seq(Message)
    <3>1. down \in Seq(Message) /\ <<Msg("session", s, NoStream, NoId)>> \in Seq(Message)
      BY <2>2 DEF TypeOK, OrbTypeOK
    <3> QED
      BY <3>1, ConcatFacts
  <2>4. (IF AnimsWanted /\ AnimsPushed(s, room) THEN <<AnimsMsg(s, dev_id)>> ELSE << >>)
          \in Seq(Message)
    BY <2>2, MaybeType
  <2> QED
    BY <1>4, <2>3, <2>4, ConcatFacts
<1>6. pushed_anims' \in BOOLEAN
  BY <1>4
<1>7. UNCHANGED <<link, h2, kind, bodies, endpointers, responded, dev_id,
                  utterance, answered, offered, ASSET_SERVED>>
  BY DEF DownchannelOpened
<1> QED
  BY <1>1, <1>2, <1>3, <1>5, <1>6, <1>7 DEF TypeOK, OrbTypeOK

LEMMA AnswerRaisesType == ASSUME TypeOK, AnswerRaises PROVE OrbTypeOK'
<1>1. Event.sid \in Streams
  BY EventType DEF AnswerRaises
<1>2. banked' \in [Streams -> Nat]
  BY <1>1, PersistType DEF AnswerRaises
<1>3. downchannel_sid' \in 0..MaxStreams
  BY <1>1 DEF AnswerRaises, Streams, TypeOK, OrbTypeOK
<1>4. wire' \in Seq(Frame) /\ batch' \in 0..Len(wire') /\ link' = "dead"
  BY DEF AnswerRaises, Fatal
<1> QED
  BY <1>2, <1>3, <1>4 DEF AnswerRaises, TypeOK, OrbTypeOK

LEMMA StreamResetType == ASSUME TypeOK, StreamReset PROVE OrbTypeOK'
<1>1. Event.sid \in Streams /\ wire' \in Seq(Frame) /\ batch' \in 0..Len(wire')
  BY EventType DEF StreamReset
<1>2. banked' \in [Streams -> Nat]
  BY <1>1, PersistType DEF StreamReset
<1>3. /\ kind' \in [Streams -> Kinds \cup {"none"}] /\ bodies' \in [Streams -> Nat]
      /\ endpointers' \in [Streams -> {"none", "armed", "fired"}] /\ responded' \subseteq Streams
  BY <1>1, ForgetType DEF StreamReset
<1> QED
  BY <1>1, <1>2, <1>3 DEF StreamReset, TypeOK, OrbTypeOK

LEMMA AfterBatchType ==
  ASSUME TypeOK, NEW b, NEW s \in Streams
  PROVE  AfterBatch(b, s) \in {"idle", "open", "half_remote", "half_local", "closed"}
  BY DEF AfterBatch, TypeOK, OrbTypeOK

LEMMA ReceiveDataType == ASSUME TypeOK, ReceiveData PROVE OrbTypeOK'
<1>1. PICK n \in 1..Len(wire) :
        /\ batch' = n
        /\ h2' = [s \in Streams |-> AfterBatch(SubSeq(wire, 1, n), s)]
  BY DEF ReceiveData
<1>2. h2' \in [Streams -> {"idle", "open", "half_remote", "half_local", "closed"}]
  BY <1>1, AfterBatchType
<1>3. batch' \in 0..Len(wire')
  BY <1>1 DEF ReceiveData, TypeOK, OrbTypeOK
<1> QED
  BY <1>2, <1>3 DEF ReceiveData, TypeOK, OrbTypeOK, instance, history

LEMMA OrbEventType == ASSUME TypeOK, OrbEvent PROVE OrbTypeOK'
  BY RequestReceivedType, DataIgnoredType, DataBufferedType, EndpointObservedType,
     EndpointRepliedType, AnsweredEndedType, StreamAnsweredType, DownchannelOpenedType,
     AnswerRaisesType, StreamResetType DEF OrbEvent

\* Frames the device sends go to the end of the wire.
LEMMA SendType ==
  ASSUME TypeOK, NEW frames \in Seq(Frame), Send(frames)
  PROVE  OrbTypeOK'
<1>1. /\ wire \in Seq(Frame) /\ batch \in 0..Len(wire) /\ wire' = wire \o frames
      /\ batch' = batch
  BY DEF Send, TypeOK, OrbTypeOK
<1>2. wire' \in Seq(Frame) /\ Len(wire') = Len(wire) + Len(frames)
  BY <1>1, ConcatFacts
<1>3. batch' \in 0..Len(wire')
  BY <1>1, <1>2
<1> QED
  BY <1>2, <1>3 DEF Send, TypeOK, OrbTypeOK, instance, history

LEMMA FrameType ==
  ASSUME NEW type \in {"req", "data", "end", "rst"}, NEW s \in Streams, NEW k \in Kinds
  PROVE  [type |-> type, sid |-> s, kind |-> k] \in Frame
  BY DEF Frame

LEMMA DeviceRequestType ==
  ASSUME TypeOK, Asked, NEW k \in DeviceKinds, DeviceRequest(k)
  PROVE  TypeOK' /\ Asked'
<1> DEFINE s == opened + 1
           req == [type |-> "req", sid |-> s, kind |-> k]
           end == [type |-> "end", sid |-> s, kind |-> k]
<1>1. s \in Streams /\ k \in Kinds /\ s \in 0..MaxStreams
  BY OrbAssumption, OrbSystemAssumption DEF DeviceRequest, TypeOK, Streams
<1>2. OrbTypeOK'
  <2>1. req \in Frame /\ end \in Frame
    BY <1>1, FrameType
  <2>2. <<req>> \in Seq(Frame) /\ <<req, end>> \in Seq(Frame)
    BY <2>1
  <2>3. Send(<<req, end>>) \/ Send(<<req>>)
    BY DEF DeviceRequest
  <2> QED
    BY <2>2, <2>3, SendType
<1>3. /\ opened' = s /\ asked' = [asked EXCEPT ![s] = k]
      /\ up' \in {[up EXCEPT ![s] = "ended"], [up EXCEPT ![s] = "open"]}
      /\ turn' \in {turn, s} /\ interacting' \in {interacting, TRUE}
      /\ UNCHANGED <<spoke, fetch, played, rejected, missed, directive, storage>>
  BY DEF DeviceRequest
<1> HIDE DEF s
<1>4. interacting' \in BOOLEAN
  BY <1>3, Zenon DEF TypeOK
<1>5. TypeOK'
  BY <1>1, <1>2, <1>3, <1>4 DEF TypeOK, storage
<1> QED
  BY <1>1, <1>3, <1>5 DEF TypeOK, Asked

\* What the device sends on a stream it has opened.
LEMMA DeviceSendType ==
  ASSUME TypeOK, Asked, NEW s \in Streams, DeviceData(s) \/ DeviceEnd(s) \/ DeviceReset(s)
  PROVE  TypeOK' /\ Asked'
<1>1. asked[s] \in Kinds /\ up[s] # "idle"
  BY DEF DeviceData, DeviceEnd, DeviceReset, Asked
<1>2. OrbTypeOK'
  <2>1. /\ [type |-> "data", sid |-> s, kind |-> asked[s]] \in Frame
        /\ [type |-> "end", sid |-> s, kind |-> asked[s]] \in Frame
        /\ [type |-> "rst", sid |-> s, kind |-> asked[s]] \in Frame
    BY <1>1, FrameType
  <2>2. /\ <<[type |-> "data", sid |-> s, kind |-> asked[s]]>> \in Seq(Frame)
        /\ <<[type |-> "end", sid |-> s, kind |-> asked[s]]>> \in Seq(Frame)
        /\ <<[type |-> "rst", sid |-> s, kind |-> asked[s]]>> \in Seq(Frame)
    BY <2>1
  <2>3. \/ Send(<<[type |-> "data", sid |-> s, kind |-> asked[s]]>>)
        \/ Send(<<[type |-> "end", sid |-> s, kind |-> asked[s]]>>)
        \/ Send(<<[type |-> "rst", sid |-> s, kind |-> asked[s]]>>)
    BY DEF DeviceData, DeviceEnd, DeviceReset
  <2> QED
    BY <2>2, <2>3, SendType
<1>3. /\ UNCHANGED <<opened, asked, fetch, played, rejected, missed, directive, storage>>
      /\ turn' \in {turn, NoStream} /\ interacting' \in {interacting, FALSE}
      /\ spoke' \in {spoke, [spoke EXCEPT ![s] = @ + 1]}
      /\ \/ up' = up
         \/ \E st \in {"ended", "reset", "cancelled"} : up' = [up EXCEPT ![s] = st]
  BY DEF DeviceData, DeviceEnd, DeviceReset
<1>4. interacting' \in BOOLEAN
  BY <1>3, Zenon DEF TypeOK
<1>5. spoke' \in [Streams -> Nat]
  <2>1. [spoke EXCEPT ![s] = @ + 1] \in [Streams -> Nat]
    BY CountType DEF TypeOK
  <2> QED
    BY <1>3, <2>1 DEF TypeOK
<1>6. turn' \in 0..MaxStreams
  BY <1>3, OrbAssumption DEF TypeOK, NoStream
<1>7. up' \in [Streams -> {"idle", "open", "ended", "reset", "cancelled"}]
  BY <1>3 DEF TypeOK
<1>8. TypeOK'
  BY <1>2, <1>3, <1>4, <1>5, <1>6, <1>7 DEF TypeOK, storage
<1>9. Asked'
  BY <1>1, <1>3 DEF TypeOK, Asked
<1> QED
  BY <1>8, <1>9

LEMMA DeviceReadType == ASSUME TypeOK, DeviceRead PROVE TypeOK'
<1> DEFINE m == Head(down)
<1>1. m \in Message /\ down' \in Seq(Message)
  BY TailFacts DEF DeviceRead, TypeOK, OrbTypeOK
<1>2. m.type = "expect" => m.about \in Streams
  BY <1>1 DEF Message
<1>3. /\ turn' \in {turn, NoStream} /\ interacting' \in {interacting, FALSE}
      /\ want' \in {want, Files \ got}
      /\ UNCHANGED <<link, wire, batch, h2, hdrs, instance, history, ASSET_SERVED,
                     opened, asked, up, spoke, played, got>>
  BY DEF DeviceRead
<1>4. /\ missed' \in {missed, missed \cup {m.about}}
      /\ rejected' \in {rejected, rejected \cup {m.about}}
      /\ fetch' \in {fetch, fetch \cup {m.about}}
      /\ m.type = "expect" \/ UNCHANGED <<missed, rejected, fetch>>
  BY DEF DeviceRead
<1>5. directive' \in Fates
  <2>1. Fate(m) \in Fates
    BY DEF Fate, Fates
  <2>2. directive' \in {directive, Fate(m)}
    BY DEF DeviceRead
  <2> QED
    BY <2>1, <2>2 DEF TypeOK
<1> HIDE DEF m
<1>6. missed' \subseteq Streams /\ rejected' \subseteq Streams /\ fetch' \subseteq Streams
  BY <1>2, <1>4 DEF TypeOK
<1>7. interacting' \in BOOLEAN
  BY <1>3, Zenon DEF TypeOK
<1>8. turn' \in 0..MaxStreams
  BY <1>3, OrbAssumption DEF TypeOK, NoStream
<1>9. OrbTypeOK'
  BY <1>1, <1>3 DEF TypeOK, OrbTypeOK, instance, history
<1> QED
  BY <1>3, <1>5, <1>6, <1>7, <1>8, <1>9 DEF TypeOK

LEMMA ConnectType == ASSUME TypeOK, Connect PROVE TypeOK'
<1>1. NoStream \in 0..MaxStreams
  BY OrbAssumption DEF NoStream
<1>2. OrbTypeOK'
  BY <1>1 DEF Connect, ConnectionMade, TypeOK, OrbTypeOK, history
<1> QED
  BY <1>2, HandlerType DEF Connect

LEMMA DisconnectType == ASSUME TypeOK, Disconnect \/ Reboot PROVE TypeOK'
<1>1. /\ ConnectionLost /\ DeviceDisconnected /\ want' \in {want, {}} /\ got' = got
  BY DEF Disconnect, Reboot, storage
<1>2. 0 \in Nat /\ 0 \in 0..MaxStreams /\ NoStream \in 0..MaxStreams
  BY OrbAssumption DEF NoStream
<1>3. wire' \in Seq(Frame) /\ down' \in Seq(Message) /\ batch' \in 0..Len(wire')
  BY <1>1 DEF ConnectionLost
<1>4. OrbTypeOK'
  BY <1>1, <1>2, <1>3 DEF ConnectionLost, TypeOK, OrbTypeOK
<1> QED
  BY <1>1, <1>2, <1>4 DEF DeviceDisconnected, TypeOK, Fates

LEMMA SideChannelType ==
  ASSUME TypeOK, (\E s \in Streams : GetAudio(s)) \/ (\E f \in Files : GetBin(f))
  PROVE  TypeOK'
<1>1. CASE \E s \in Streams : GetAudio(s)
  <2>1. OrbTypeOK'
    BY <1>1 DEF GetAudio, orbVars, transport, instance, history, TypeOK, OrbTypeOK
  <2>2. fetch' \subseteq Streams /\ played' \subseteq Streams
    BY <1>1 DEF GetAudio, TypeOK
  <2> QED
    BY <1>1, <2>1, <2>2 DEF GetAudio, TypeOK, storage
<1>2. CASE \E f \in Files : GetBin(f)
  <2>1. want' \subseteq Files /\ got' \subseteq Files
    BY <1>2 DEF GetBin, TypeOK
  <2>2. OrbTypeOK'
    BY <1>2 DEF GetBin, transport, instance, history, TypeOK, OrbTypeOK
  <2> QED
    BY <1>2, <2>1, <2>2 DEF GetBin, TypeOK, device
<1> QED
  BY <1>1, <1>2

\* The steps of Next, by what they have in common.
LEMMA NextSteps ==
  ASSUME Next
  PROVE  \/ OrbEvent /\ UNCHANGED <<device, storage>>
         \/ ReceiveData /\ UNCHANGED <<device, storage>>
         \/ Connect \/ Disconnect \/ Reboot
         \/ \E k \in DeviceKinds : DeviceRequest(k)
         \/ \E s \in Streams : DeviceData(s) \/ DeviceEnd(s) \/ DeviceReset(s)
         \/ \E s \in Streams : GetAudio(s)
         \/ DeviceRead
         \/ \E f \in Files : GetBin(f)
  BY DEF Next, OrbEvent

LEMMA NextType == ASSUME TypeOK, Asked, [Next]_vars PROVE TypeOK' /\ Asked'
<1>1. CASE OrbEvent /\ UNCHANGED <<device, storage>>
  BY <1>1, OrbEventType, HandlerType DEF Asked, device
<1>2. CASE ReceiveData /\ UNCHANGED <<device, storage>>
  BY <1>2, ReceiveDataType, HandlerType DEF Asked, device
<1>3. CASE Connect
  BY <1>3, ConnectType DEF Connect, Asked, device
<1>4. CASE Disconnect \/ Reboot
  BY <1>4, DisconnectType DEF Disconnect, Reboot, DeviceDisconnected, Asked
<1>5. CASE \E k \in DeviceKinds : DeviceRequest(k)
  BY <1>5, DeviceRequestType
<1>6. CASE \E s \in Streams : DeviceData(s) \/ DeviceEnd(s) \/ DeviceReset(s)
  BY <1>6, DeviceSendType
<1>7. CASE DeviceRead
  BY <1>7, DeviceReadType DEF DeviceRead, Asked
<1>8. CASE (\E s \in Streams : GetAudio(s)) \/ (\E f \in Files : GetBin(f))
  BY <1>8, SideChannelType DEF GetAudio, GetBin, Asked, device
<1>9. CASE UNCHANGED vars
  BY <1>9 DEF vars, orbVars, transport, instance, history, device, storage, TypeOK,
              OrbTypeOK, Asked
<1> QED
  BY <1>1, <1>2, <1>3, <1>4, <1>5, <1>6, <1>7, <1>8, <1>9, NextSteps

\* Every variable keeps to its type: what Orb keeps per stream, what is on the
\* wire in either direction, and what the device knows.
THEOREM TypeCorrect == Spec => []TypeOK
<1>1. Init => TypeOK /\ Asked
  BY InitType DEF Init, Asked
<1>2. TypeOK /\ Asked /\ [Next]_vars => (TypeOK /\ Asked)'
  BY NextType
<1> QED
  BY <1>1, <1>2, PTL DEF Spec

-----------------------------------------------------------------------------
(***************************************************************************)
(* The end of a turn.                                                       *)
(***************************************************************************)

\* What every handler that returns does: it takes an event of stream s off
\* the batch, touches no other stream, ends a stream only by answering it,
\* and leaves s in an order that Gated, ArmedIsFresh and the two goals ask for.
HandlerStep(s) ==
  /\ wire' = Tail(wire) /\ batch' = batch - 1
  /\ UNCHANGED <<link, opened, asked, up>>
  /\ \A t \in Streams \ {s} :
       /\ h2'[t] = h2[t] /\ kind'[t] = kind[t] /\ endpointers'[t] = endpointers[t]
       /\ offered'[t] = offered[t] /\ (t \in hdrs' <=> t \in hdrs)
  /\ answered \subseteq answered'
  /\ h2'[s] = h2[s] \/ (s \in answered' /\ h2'[s] \in {"half_local", "closed"})
  /\ endpointers'[s] # "none" => kind'[s] = "speech"
  /\ endpointers'[s] = "armed" => (s \in hdrs' => s \in answered') /\ offered'[s] = 0
  /\ offered'[s] > 0 => s \in answered' \/ Gone(s)
  /\ offered'[s] <= 1

\* Such a step keeps the invariant.
LEMMA HandlerStepInv ==
  ASSUME IInv, TypeOK', Asked', NEW s \in Streams, Event.sid = s, batch > 0, link = "up",
         HandlerStep(s)
  PROVE  IInv'
<1>1. /\ wire \in Seq(Frame) /\ batch \in 1..Len(wire) /\ Len(wire) > 0
      /\ opened \in Nat /\ Streams \subseteq Nat
  BY DEF IInv, TypeOK, OrbTypeOK, Streams
<1>2. /\ wire' \in Seq(Frame) /\ Len(wire') = Len(wire) - 1 /\ Event = wire[1]
      /\ \A i \in 1..Len(wire') : wire'[i] = wire[i + 1]
  BY <1>1, TailFacts DEF HandlerStep, Event
<1>3. DOMAIN wire = 1..Len(wire) /\ DOMAIN wire' = 1..Len(wire')
  BY <1>1, <1>2
<1>4. /\ \A i \in 1..Len(wire) : wire[i].sid \in Streams
      /\ wire[1].sid = s
  <2>1. \A i \in 1..Len(wire) : wire[i] \in Frame
    BY <1>1
  <2> QED
    BY <1>2, <2>1 DEF Frame
<1>5. \A t \in Streams : Gone(t)' <=> Gone(t)
  BY DEF HandlerStep, Gone
<1>6. \A t \in Streams : h2[t] # "idle" => h2'[t] # "idle"
  BY DEF HandlerStep
<1>7. h2[s] # "idle"
  BY <1>1, <1>4 DEF IInv, BatchIsKnown
<1>8. s <= opened
  BY <1>1, <1>3, <1>4 DEF IInv, Unopened
<1>9. ClosedForAReason'
  <2> SUFFICES ASSUME NEW t \in Streams
               PROVE  /\ h2'[t] = "half_local" => t \in answered'
                      /\ h2'[t] = "closed" => t \in answered' \/ Gone(t)'
    BY DEF ClosedForAReason
  <2>1. /\ h2[t] = "half_local" => t \in answered
        /\ h2[t] = "closed" => t \in answered \/ Gone(t)
    BY DEF IInv, ClosedForAReason
  <2>2. answered \subseteq answered'
    BY DEF HandlerStep
  <2>3. h2'[t] = h2[t] \/ t \in answered'
    BY DEF HandlerStep
  <2> QED
    BY <1>5, <2>1, <2>2, <2>3
<1>10. ResetsAreGone'
  <2> SUFFICES ASSUME NEW i \in 1..Len(wire'), wire'[i].type = "rst"
               PROVE  up'[wire'[i].sid] \in {"reset", "cancelled"}
    BY <1>3 DEF ResetsAreGone, Gone
  <2>1. i + 1 \in 1..Len(wire) /\ wire'[i] = wire[i + 1] /\ wire[i + 1].sid \in Streams
    BY <1>1, <1>2, <1>4
  <2>2. Gone(wire[i + 1].sid)
    BY <1>3, <2>1 DEF IInv, ResetsAreGone
  <2> QED
    BY <2>1, <2>2 DEF HandlerStep, Gone
<1>11. BatchIsKnown'
  <2> SUFFICES ASSUME NEW i \in 1..batch' PROVE h2'[wire'[i].sid] # "idle"
    BY DEF BatchIsKnown
  <2>1. i + 1 \in 1..batch /\ i \in 1..Len(wire') /\ i + 1 \in 1..Len(wire)
    BY <1>1, <1>2 DEF HandlerStep
  <2>2. wire'[i] = wire[i + 1] /\ wire[i + 1].sid \in Streams
    BY <1>2, <1>4, <2>1
  <2>3. h2[wire[i + 1].sid] # "idle"
    BY <2>1 DEF IInv, BatchIsKnown
  <2> QED
    BY <1>6, <2>2, <2>3
<1>12. RequestFirst'
  <2> SUFFICES ASSUME NEW i \in 1..Len(wire')
               PROVE  IF wire'[i].type = "req"
                      THEN \A j \in 1..Len(wire') : wire'[j].sid = wire'[i].sid => i <= j
                      ELSE \/ h2'[wire'[i].sid] # "idle"
                           \/ \E j \in 1..(i - 1) :
                                wire'[j].type = "req" /\ wire'[j].sid = wire'[i].sid
    BY <1>3 DEF RequestFirst
  <2>1. i + 1 \in 1..Len(wire) /\ wire'[i] = wire[i + 1] /\ wire[i + 1].sid \in Streams
    BY <1>1, <1>2, <1>4
  <2>2. CASE wire[i + 1].type = "req"
    <3>1. \A j \in 1..Len(wire) : wire[j].sid = wire[i + 1].sid => i + 1 <= j
      BY <1>3, <2>1, <2>2 DEF IInv, RequestFirst
    <3>2. \A j \in 1..Len(wire') : j + 1 \in 1..Len(wire) /\ wire'[j] = wire[j + 1]
      BY <1>1, <1>2
    <3> QED
      BY <2>1, <2>2, <3>1, <3>2
  <2>3. CASE wire[i + 1].type # "req"
    <3>1. \/ h2[wire[i + 1].sid] # "idle"
          \/ \E j \in 1..i : wire[j].type = "req" /\ wire[j].sid = wire[i + 1].sid
      BY <1>3, <2>1, <2>3 DEF IInv, RequestFirst
    <3>2. CASE h2[wire[i + 1].sid] # "idle"
      BY <1>6, <2>1, <2>3, <3>2
    <3>3. CASE \E j \in 1..i : wire[j].type = "req" /\ wire[j].sid = wire[i + 1].sid
      <4>1. PICK j \in 1..i : wire[j].type = "req" /\ wire[j].sid = wire[i + 1].sid
        BY <3>3
      <4>2. CASE j = 1
        BY <1>4, <1>6, <1>7, <2>1, <2>3, <4>1, <4>2
      <4>3. CASE j # 1
        <5>1. j - 1 \in 1..(i - 1) /\ j - 1 \in 1..Len(wire') /\ (j - 1) + 1 = j
          BY <4>3
        <5>2. wire'[j - 1] = wire[j]
          BY <1>2, <5>1
        <5> QED
          BY <2>1, <2>3, <4>1, <5>1, <5>2
      <4> QED
        BY <4>2, <4>3
    <3> QED
      BY <3>1, <3>2, <3>3
  <2> QED
    BY <2>2, <2>3
<1>13. Introduced'
  <2> SUFFICES ASSUME NEW t \in Streams, up[t] # "idle"
               PROVE  \/ h2'[t] # "idle"
                      \/ \E j \in DOMAIN wire' : wire'[j].type = "req" /\ wire'[j].sid = t
    BY DEF Introduced, HandlerStep
  <2>1. CASE h2[t] # "idle"
    BY <1>6, <2>1
  <2>2. CASE \E j \in 1..Len(wire) : wire[j].type = "req" /\ wire[j].sid = t
    <3>1. PICK j \in 1..Len(wire) : wire[j].type = "req" /\ wire[j].sid = t
      BY <2>2
    <3>2. CASE j = 1
      BY <1>4, <1>6, <1>7, <3>1, <3>2
    <3>3. CASE j # 1
      <4>1. j - 1 \in 1..Len(wire') /\ (j - 1) + 1 = j
        BY <1>1, <1>2, <3>3
      <4> QED
        BY <1>2, <1>3, <3>1, <4>1
    <3> QED
      BY <3>2, <3>3
  <2> QED
    BY <1>3, <2>1, <2>2 DEF IInv, Introduced
<1>14. Unopened'
  <2>1. \A i \in 1..Len(wire') : wire'[i].sid <= opened
    BY <1>1, <1>2, <1>3 DEF IInv, Unopened
  <2>2. \A t \in Streams : t > opened => t # s
    BY <1>1, <1>8
  <2>3. \A t \in Streams : t > opened =>
          /\ up'[t] = "idle" /\ t \notin hdrs' /\ offered'[t] = 0
          /\ link = "up" => kind'[t] = "none"
    BY <2>2 DEF IInv, Unopened, HandlerStep
  <2>4. opened' = opened /\ link' = link
    BY DEF HandlerStep
  <2> QED
    BY <1>3, <2>1, <2>3, <2>4 DEF Unopened
<1>15. Unheard'
  <2> SUFFICES ASSUME NEW i \in 1..Len(wire'), wire'[i].type = "req"
               PROVE  /\ kind'[wire'[i].sid] = "none" /\ wire'[i].sid \notin hdrs'
                      /\ offered'[wire'[i].sid] = 0
    BY <1>3 DEF Unheard
  <2>1. i + 1 \in 1..Len(wire) /\ wire'[i] = wire[i + 1] /\ wire[i + 1].sid \in Streams
    BY <1>1, <1>2, <1>4
  <2>2. wire[i + 1].sid # s
    <3>1. 1 \in 1..Len(wire) /\ ~(i + 1 <= 1)
      BY <1>1
    <3> QED
      BY <1>3, <1>4, <2>1, <3>1 DEF IInv, RequestFirst
  <2>3. /\ kind[wire[i + 1].sid] = "none" /\ wire[i + 1].sid \notin hdrs
        /\ offered[wire[i + 1].sid] = 0
    BY <1>3, <2>1 DEF IInv, Unheard
  <2> QED
    BY <2>1, <2>2, <2>3 DEF HandlerStep
<1>16. Gated'
  BY DEF IInv, Gated, HandlerStep
<1>17. ArmedIsFresh'
  BY DEF IInv, ArmedIsFresh, HandlerStep
<1>18. ReplyAfterFinish'
  BY <1>5 DEF IInv, ReplyAfterFinish, HandlerStep
<1>19. OneReplyPerTurn'
  BY DEF IInv, OneReplyPerTurn, HandlerStep
<1>20. QuietWhenDown'
  BY DEF IInv, QuietWhenDown, HandlerStep
<1> QED
  BY <1>9, <1>10, <1>11, <1>12, <1>13, <1>14, <1>15, <1>16, <1>17, <1>18, <1>19, <1>20
     DEF IInv

\* Facts about the event being handled.
LEMMA EventFacts ==
  ASSUME IInv, NEW type, Handling(type)
  PROVE  /\ Event.sid \in Streams /\ Event.kind \in Kinds /\ batch > 0 /\ link = "up"
         /\ Event = wire[1] /\ 1 \in DOMAIN wire
<1>1. TypeOK
  BY DEF IInv
<1>2. Event.sid \in Streams /\ Event.kind \in Kinds /\ Event = wire[1] /\ Len(wire) > 0
  BY <1>1, EventType
<1> QED
  BY <1>1, <1>2 DEF Handling, TypeOK, OrbTypeOK

\* A stream on which the endpointer can fire has it armed.
LEMMA FiringArmed ==
  ASSUME NEW s, NEW firing \in Firing(s) \ {"none"}
  PROVE  endpointers[s] = "armed"
  BY DEF Firing

LEMMA RequestReceivedStep ==
  ASSUME IInv, RequestReceived, UNCHANGED device PROVE HandlerStep(Event.sid)
<1> DEFINE s == Event.sid
           k == Event.kind
<1>1. s \in Streams /\ Event = wire[1] /\ 1 \in DOMAIN wire /\ Event.type = "req"
  BY EventFacts DEF RequestReceived, Handling
<1>2. kind[s] = "none" /\ s \notin hdrs /\ offered[s] = 0
  BY <1>1 DEF IInv, Unheard
<1>3. endpointers[s] = "none"
  BY <1>1, <1>2 DEF IInv, Gated
<1>4. /\ kind' = [kind EXCEPT ![s] = k]
      /\ endpointers' = IF VadOn /\ k = "speech" THEN [endpointers EXCEPT ![s] = "armed"]
                        ELSE endpointers
      /\ wire' = Tail(wire) /\ batch' = batch - 1
      /\ UNCHANGED <<link, opened, asked, up, h2, hdrs, answered, offered>>
  BY DEF RequestReceived, NextEvent, history, device
<1>5. kind \in [Streams -> Kinds \cup {"none"}]
      /\ endpointers \in [Streams -> {"none", "armed", "fired"}]
  BY DEF IInv, TypeOK, OrbTypeOK
<1> HIDE DEF s, k
<1>6. endpointers'[s] # "none" => kind'[s] = "speech"
  BY <1>1, <1>3, <1>4, <1>5
<1>7. HandlerStep(s)
  BY <1>1, <1>2, <1>4, <1>5, <1>6 DEF HandlerStep
<1> QED
  BY <1>7 DEF s

\* A handler that neither sends nor pushes, and leaves the endpointer alone or
\* drops or fires it.
LEMMA QuietStep ==
  ASSUME IInv, NEW s \in Streams,
         wire' = Tail(wire), batch' = batch - 1,
         UNCHANGED <<link, opened, asked, up, h2, hdrs, answered, offered>>,
         \A t \in Streams \ {s} : kind'[t] = kind[t] /\ endpointers'[t] = endpointers[t],
         \/ endpointers'[s] = "none"
         \/ kind'[s] = kind[s] /\ endpointers'[s] = endpointers[s]
         \/ kind'[s] = kind[s] /\ endpointers'[s] = "fired" /\ endpointers[s] = "armed"
  PROVE  HandlerStep(s)
<1>1. endpointers'[s] # "none" => kind'[s] = "speech"
  BY DEF IInv, Gated
<1>2. endpointers'[s] = "armed" => (s \in hdrs' => s \in answered') /\ offered'[s] = 0
  BY DEF IInv, ArmedIsFresh
<1>3. (offered'[s] > 0 => s \in answered' \/ Gone(s)) /\ offered'[s] <= 1
  BY DEF IInv, ReplyAfterFinish, OneReplyPerTurn
<1> QED
  BY <1>1, <1>2, <1>3 DEF HandlerStep

LEMMA QuietHandlers ==
  ASSUME IInv, UNCHANGED device,
         DataIgnored \/ DataBuffered \/ EndpointObserved \/ AnsweredEnded \/ StreamReset
  PROVE  HandlerStep(Event.sid)
<1> DEFINE s == Event.sid
<1>1. s \in Streams
  BY EventFacts DEF DataIgnored, DataBuffered, EndpointObserved, AnsweredEnded, StreamReset
<1>2. /\ wire' = Tail(wire) /\ batch' = batch - 1
      /\ UNCHANGED <<link, opened, asked, up, h2, hdrs, answered, offered>>
  BY DEF DataIgnored, DataBuffered, EndpointObserved, AnsweredEnded, StreamReset, NextEvent,
         history, device
<1>3. kind \in [Streams -> Kinds \cup {"none"}]
      /\ endpointers \in [Streams -> {"none", "armed", "fired"}]
  BY DEF IInv, TypeOK, OrbTypeOK
<1>4. CASE DataIgnored \/ DataBuffered
  <2>1. UNCHANGED <<kind, endpointers>>
    BY <1>4 DEF DataIgnored, DataBuffered, instance
  <2> QED
    BY <1>1, <1>2, <2>1, QuietStep
<1>5. CASE EndpointObserved
  <2>1. kind' = kind /\ endpointers' = [endpointers EXCEPT ![s] = "fired"]
    BY <1>5 DEF EndpointObserved
  <2>2. endpointers[s] = "armed"
    BY <1>5, FiringArmed DEF EndpointObserved
  <2> HIDE DEF s
  <2>3. HandlerStep(s)
    BY <1>1, <1>2, <1>3, <2>1, <2>2, QuietStep
  <2> QED
    BY <2>3 DEF s
<1>6. CASE AnsweredEnded \/ StreamReset
  <2>1. /\ kind' = [kind EXCEPT ![s] = "none"]
        /\ endpointers' = [endpointers EXCEPT ![s] = "none"]
    BY <1>6 DEF AnsweredEnded, StreamReset, Forget
  <2> HIDE DEF s
  <2>2. HandlerStep(s)
    BY <1>1, <1>2, <1>3, <2>1, QuietStep
  <2> QED
    BY <2>2 DEF s
<1> QED
  BY <1>4, <1>5, <1>6

\* The reply: if b"finish" cannot be sent, the push fails with it, or the
\* stream was answered before, or abandoned.
LEMMA EndpointRepliedStep ==
  ASSUME IInv, EndpointReplied, UNCHANGED device PROVE HandlerStep(Event.sid)
<1> DEFINE s == Event.sid
<1>1. s \in Streams /\ batch > 0 /\ wire[1] = Event
  BY EventFacts DEF EndpointReplied
<1>2. PICK room \in Rooms :
        LET finished == FinishSent(s, room)
            pushed == Pushed(downchannel_sid, room)
        IN  /\ hdrs' = IF CanRespond(s) THEN hdrs \cup {s} ELSE hdrs
            /\ h2' = IF finished THEN [h2 EXCEPT ![s] = AfterEnd(@)] ELSE h2
            /\ responded' = Responded(s, finished)
            /\ answered' = IF finished THEN answered \cup {s} ELSE answered
            /\ down' = down \o TurnEnd(s, finished, pushed)
            /\ offered' = IF pushed THEN [offered EXCEPT ![s] = @ + 1] ELSE offered
  BY DEF EndpointReplied
<1>3. /\ wire' = Tail(wire) /\ batch' = batch - 1
      /\ UNCHANGED <<link, kind, opened, asked, up>>
      /\ endpointers' = [endpointers EXCEPT ![s] = "fired"]
  BY DEF EndpointReplied, NextEvent, device
<1>4. endpointers[s] = "armed"
  BY FiringArmed DEF EndpointReplied
<1>5. kind[s] = "speech" /\ (s \in hdrs => s \in answered) /\ offered[s] = 0
  BY <1>1, <1>4 DEF IInv, Gated, ArmedIsFresh
<1>6. /\ endpointers \in [Streams -> {"none", "armed", "fired"}]
      /\ h2 \in [Streams -> {"idle", "open", "half_remote", "half_local", "closed"}]
      /\ offered \in [Streams -> Nat]
  BY DEF IInv, TypeOK, OrbTypeOK
<1>7. h2[s] # "idle"
  BY <1>1, 1 \in 1..batch DEF IInv, BatchIsKnown, TypeOK, OrbTypeOK
<1>8. Pushed(downchannel_sid, room) => FinishSent(s, room) \/ s \in answered \/ Gone(s)
  <2>1. SUFFICES ASSUME room = "all", ~FinishSent(s, room)
                 PROVE  s \in answered \/ Gone(s)
    BY DEF Pushed
  <2>2. CASE s \in hdrs
    BY <1>5, <2>2
  <2>3. CASE s \notin hdrs
    <3>1. h2[s] \in {"half_local", "closed"}
      BY <1>1, <1>6, <1>7, <2>1, <2>3 DEF FinishSent, CanRespond, CanSend
    <3> QED
      BY <1>1, <3>1 DEF IInv, ClosedForAReason
  <2> QED
    BY <2>2, <2>3
<1> HIDE DEF s
<1>9. /\ answered \subseteq answered'
      /\ FinishSent(s, room) => s \in answered'
      /\ \A t \in Streams \ {s} : t \in hdrs' <=> t \in hdrs
  BY <1>2
<1>10. /\ h2'[s] = h2[s] \/ (s \in answered' /\ h2'[s] \in {"half_local", "closed"})
       /\ \A t \in Streams \ {s} : h2'[t] = h2[t]
  BY <1>1, <1>2, <1>6, AfterEndType
<1>11. /\ offered'[s] > 0 => Pushed(downchannel_sid, room)
       /\ offered'[s] <= 1
       /\ \A t \in Streams \ {s} : offered'[t] = offered[t]
  BY <1>1, <1>2, <1>5, <1>6
<1>12. /\ endpointers'[s] = "fired"
       /\ \A t \in Streams \ {s} : endpointers'[t] = endpointers[t]
  BY <1>1, <1>3, <1>6
<1>13. offered'[s] > 0 => s \in answered' \/ Gone(s)
  BY <1>8, <1>9, <1>11
<1>14. HandlerStep(s)
  BY <1>3, <1>5, <1>9, <1>10, <1>11, <1>12, <1>13 DEF HandlerStep
<1> QED
  BY <1>14 DEF s

LEMMA StreamAnsweredStep ==
  ASSUME IInv, StreamAnswered, UNCHANGED device PROVE HandlerStep(Event.sid)
<1> DEFINE s == Event.sid
<1>1. s \in Streams
  BY EventFacts DEF StreamAnswered
<1>2. /\ wire' = Tail(wire) /\ batch' = batch - 1
      /\ UNCHANGED <<link, opened, asked, up, offered>>
      /\ hdrs' = hdrs \cup {s} /\ answered' = answered \cup {s}
      /\ h2' = [h2 EXCEPT ![s] = AfterEnd(@)]
      /\ kind' = [kind EXCEPT ![s] = "none"]
      /\ endpointers' = [endpointers EXCEPT ![s] = "none"]
  BY DEF StreamAnswered, NextEvent, Forget, device
<1>3. /\ kind \in [Streams -> Kinds \cup {"none"}]
      /\ endpointers \in [Streams -> {"none", "armed", "fired"}]
      /\ h2 \in [Streams -> {"idle", "open", "half_remote", "half_local", "closed"}]
  BY DEF IInv, TypeOK, OrbTypeOK
<1>4. offered[s] <= 1
  BY <1>1 DEF IInv, OneReplyPerTurn
<1> HIDE DEF s
<1>5. HandlerStep(s)
  BY <1>1, <1>2, <1>3, <1>4, AfterEndType DEF HandlerStep
<1> QED
  BY <1>5 DEF s

LEMMA DownchannelOpenedStep ==
  ASSUME IInv, DownchannelOpened, UNCHANGED device PROVE HandlerStep(Event.sid)
<1> DEFINE s == Event.sid
<1>1. s \in Streams
  BY EventFacts DEF DownchannelOpened
<1>2. /\ wire' = Tail(wire) /\ batch' = batch - 1
      /\ UNCHANGED <<link, opened, asked, up, h2, kind, endpointers, answered, offered>>
      /\ hdrs' = hdrs \cup {s} /\ kind[s] = "connect"
  BY DEF DownchannelOpened, NextEvent, device
<1>3. endpointers[s] = "none"
  BY <1>1, <1>2 DEF IInv, Gated
<1>4. (offered[s] > 0 => s \in answered \/ Gone(s)) /\ offered[s] <= 1
  BY <1>1 DEF IInv, ReplyAfterFinish, OneReplyPerTurn
<1> HIDE DEF s
<1>5. HandlerStep(s)
  BY <1>1, <1>2, <1>3, <1>4 DEF HandlerStep
<1> QED
  BY <1>5 DEF s

\* An exception loses the batch, and changes nothing the invariant is about.
LEMMA AnswerRaisesInv ==
  ASSUME IInv, AnswerRaises, UNCHANGED <<device, storage>>, TypeOK', Asked' PROVE IInv'
<1>1. /\ wire' = << >> /\ batch' = 0 /\ link' = "dead"
      /\ UNCHANGED <<h2, hdrs, kind, endpointers, answered, offered, opened, asked, up>>
  BY DEF AnswerRaises, Fatal, device
<1>2. DOMAIN wire' = {} /\ 1..batch' = {}
  BY <1>1
<1>3. ResetsAreGone' /\ BatchIsKnown' /\ RequestFirst' /\ Unheard'
  BY <1>2 DEF ResetsAreGone, BatchIsKnown, RequestFirst, Unheard
<1>4. Introduced' /\ QuietWhenDown' /\ Unopened'
  BY <1>1, <1>2 DEF IInv, Introduced, QuietWhenDown, Unopened
<1>5. ClosedForAReason' /\ ReplyAfterFinish'
  BY <1>1 DEF IInv, ClosedForAReason, ReplyAfterFinish, Gone
<1>6. Gated' /\ ArmedIsFresh' /\ OneReplyPerTurn'
  BY <1>1 DEF IInv, Gated, ArmedIsFresh, OneReplyPerTurn
<1> QED
  BY <1>3, <1>4, <1>5, <1>6 DEF IInv

LEMMA OrbEventInv ==
  ASSUME IInv, OrbEvent, UNCHANGED <<device, storage>>, TypeOK', Asked' PROVE IInv'
<1>1. CASE AnswerRaises
  BY <1>1, AnswerRaisesInv
<1>2. CASE ~AnswerRaises
  <2>1. UNCHANGED device
    OBVIOUS
  <2>2. HandlerStep(Event.sid)
    BY <1>2, <2>1, RequestReceivedStep, QuietHandlers, EndpointRepliedStep,
       StreamAnsweredStep, DownchannelOpenedStep DEF OrbEvent
  <2>3. Event.sid \in Streams /\ batch > 0 /\ link = "up"
    BY <1>2, EventFacts DEF OrbEvent, RequestReceived, DataIgnored, DataBuffered,
       EndpointObserved, EndpointReplied, AnsweredEnded, StreamAnswered, DownchannelOpened,
       StreamReset
  <2> QED
    BY <2>2, <2>3, HandlerStepInv
<1> QED
  BY <1>1, <1>2

\* h2 applies a batch: it closes what the device reset or both sides ended.
LEMMA ReceiveDataInv ==
  ASSUME IInv, ReceiveData, UNCHANGED <<device, storage>>, TypeOK', Asked' PROVE IInv'
<1>1. PICK n \in 1..Len(wire) :
        /\ batch' = n
        /\ h2' = [s \in Streams |-> AfterBatch(SubSeq(wire, 1, n), s)]
  BY DEF ReceiveData
<1>2. UNCHANGED <<link, wire, hdrs, kind, endpointers, answered, offered, opened, asked, up>>
  BY DEF ReceiveData, instance, history, device
<1>3. wire \in Seq(Frame) /\ n \in Nat /\ n <= Len(wire) /\ DOMAIN wire = 1..Len(wire)
  BY <1>1 DEF IInv, TypeOK, OrbTypeOK
<1> DEFINE b == SubSeq(wire, 1, n)
<1>4. DOMAIN b = 1..n /\ \A i \in 1..n : b[i] = wire[i]
  BY <1>3
<1>5. \A i \in 1..Len(wire) : wire[i].sid \in Streams /\ wire[i].type \in {"req", "data", "end", "rst"}
  <2>1. \A i \in 1..Len(wire) : wire[i] \in Frame
    BY <1>3
  <2> QED
    BY <2>1 DEF Frame
<1> HIDE DEF b
<1>6. \A s \in Streams : h2[s] # "idle" => h2'[s] # "idle"
  BY <1>1 DEF AfterBatch, b
<1>7. \A s \in Streams : (\E i \in 1..n : wire[i].sid = s /\ wire[i].type # "data") => h2'[s] # "idle"
  <2> SUFFICES ASSUME NEW s \in Streams, NEW i \in 1..n, wire[i].sid = s, wire[i].type # "data"
               PROVE  h2'[s] # "idle"
    OBVIOUS
  <2>1. h2'[s] = AfterBatch(b, s)
    BY <1>1 DEF b
  <2>2. \E t \in {"req", "end", "rst"} : \E j \in DOMAIN b : b[j].type = t /\ b[j].sid = s
    BY <1>3, <1>4, <1>5
  <2> QED
    BY <2>1, <2>2 DEF AfterBatch
<1>8. ClosedForAReason'
  <2> SUFFICES ASSUME NEW s \in Streams
               PROVE  /\ h2'[s] = "half_local" => s \in answered
                      /\ h2'[s] = "closed" => s \in answered \/ Gone(s)
    BY <1>2 DEF ClosedForAReason, Gone
  <2>1. /\ h2[s] = "half_local" => s \in answered
        /\ h2[s] = "closed" => s \in answered \/ Gone(s)
    BY DEF IInv, ClosedForAReason
  <2>2. h2'[s] = AfterBatch(b, s)
    BY <1>1 DEF b
  <2>3. CASE \E j \in DOMAIN b : b[j].type = "rst" /\ b[j].sid = s
    <3>1. Gone(s)
      BY <1>3, <1>4, <2>3 DEF IInv, ResetsAreGone
    <3> QED
      BY <2>2, <2>3, <3>1 DEF AfterBatch
  <2>4. CASE ~\E j \in DOMAIN b : b[j].type = "rst" /\ b[j].sid = s
    <3>1. \/ h2'[s] = h2[s] \/ h2'[s] \in {"open", "half_remote"}
          \/ h2'[s] = "closed" /\ h2[s] = "half_local"
      BY <2>2, <2>4 DEF AfterBatch
    <3> QED
      BY <2>1, <3>1
  <2> QED
    BY <2>3, <2>4
<1>9. BatchIsKnown'
  <2> SUFFICES ASSUME NEW i \in 1..n PROVE h2'[wire[i].sid] # "idle"
    BY <1>1, <1>2 DEF BatchIsKnown
  <2>1. i \in 1..Len(wire) /\ wire[i].sid \in Streams
    BY <1>3, <1>5
  <2>2. CASE wire[i].type # "data"
    BY <1>7, <2>1, <2>2
  <2>3. CASE wire[i].type = "data"
    <3>1. \/ h2[wire[i].sid] # "idle"
          \/ \E j \in 1..(i - 1) : wire[j].type = "req" /\ wire[j].sid = wire[i].sid
      BY <1>3, <2>1, <2>3 DEF IInv, RequestFirst
    <3>2. CASE h2[wire[i].sid] # "idle"
      BY <1>6, <2>1, <3>2
    <3>3. CASE \E j \in 1..(i - 1) : wire[j].type = "req" /\ wire[j].sid = wire[i].sid
      <4>1. PICK j \in 1..(i - 1) : wire[j].type = "req" /\ wire[j].sid = wire[i].sid
        BY <3>3
      <4>2. j \in 1..n
        BY <1>3
      <4> QED
        BY <1>7, <2>1, <4>1, <4>2
    <3> QED
      BY <3>1, <3>2, <3>3
  <2> QED
    BY <2>2, <2>3
<1>10. RequestFirst'
  BY <1>2, <1>3, <1>5, <1>6 DEF IInv, RequestFirst
<1>11. Introduced'
  BY <1>2, <1>6 DEF IInv, Introduced
<1>12. ResetsAreGone' /\ ReplyAfterFinish' /\ OneReplyPerTurn'
  BY <1>2 DEF IInv, ResetsAreGone, ReplyAfterFinish, OneReplyPerTurn, Gone
<1>13. Unopened' /\ Unheard' /\ QuietWhenDown'
  BY <1>2 DEF IInv, Unopened, Unheard, QuietWhenDown
<1>14. Gated' /\ ArmedIsFresh'
  BY <1>2 DEF IInv, Gated, ArmedIsFresh
<1> QED
  BY <1>8, <1>9, <1>10, <1>11, <1>12, <1>13, <1>14 DEF IInv

LEMMA ConnectInv == ASSUME IInv, Connect, TypeOK', Asked' PROVE IInv'
<1>1. /\ link = "down" /\ link' = "up" /\ kind' = [s \in Streams |-> "none"]
      /\ endpointers' = [s \in Streams |-> "none"]
      /\ UNCHANGED <<wire, batch, h2, hdrs, answered, offered, opened, asked, up>>
  BY DEF Connect, ConnectionMade, history, device
<1>2. wire = << >> /\ opened = 0
  BY <1>1 DEF IInv, QuietWhenDown
<1>3. DOMAIN wire' = {} /\ batch' = 0
  BY <1>1, <1>2 DEF IInv, TypeOK, OrbTypeOK
<1>4. ResetsAreGone' /\ BatchIsKnown' /\ RequestFirst' /\ Unheard'
  BY <1>3 DEF ResetsAreGone, BatchIsKnown, RequestFirst, Unheard
<1>5. Unopened' /\ Introduced'
  <2>1. \A s \in Streams : s > opened
    BY <1>2, OrbAssumption DEF Streams
  <2>2. \A s \in Streams : up[s] = "idle" /\ s \notin hdrs /\ offered[s] = 0
    BY <2>1 DEF IInv, Unopened
  <2> QED
    BY <1>1, <1>3, <2>2 DEF Unopened, Introduced
<1>6. Gated' /\ ArmedIsFresh' /\ QuietWhenDown'
  BY <1>1 DEF Gated, ArmedIsFresh, QuietWhenDown
<1>7. ClosedForAReason' /\ ReplyAfterFinish' /\ OneReplyPerTurn'
  BY <1>1 DEF IInv, ClosedForAReason, ReplyAfterFinish, OneReplyPerTurn, Gone
<1> QED
  BY <1>4, <1>5, <1>6, <1>7 DEF IInv

LEMMA DisconnectInv == ASSUME IInv, Disconnect \/ Reboot, TypeOK', Asked' PROVE IInv'
<1>1. /\ link' = "down" /\ wire' = << >> /\ batch' = 0 /\ opened' = 0
      /\ h2' = [s \in Streams |-> "idle"] /\ hdrs' = {}
      /\ offered' = [s \in Streams |-> 0]
      /\ up' = [s \in Streams |-> "idle"]
      /\ UNCHANGED <<kind, endpointers>>
  BY DEF Disconnect, Reboot, ConnectionLost, DeviceDisconnected, IInv, TypeOK, OrbTypeOK
<1>2. DOMAIN wire' = {} /\ 1..batch' = {}
  BY <1>1
<1>3. ResetsAreGone' /\ BatchIsKnown' /\ RequestFirst' /\ Unheard'
  BY <1>2 DEF ResetsAreGone, BatchIsKnown, RequestFirst, Unheard
<1>4. Unopened' /\ Introduced' /\ QuietWhenDown'
  BY <1>1, <1>2 DEF Unopened, Introduced, QuietWhenDown
<1>5. Gated' /\ ArmedIsFresh'
  BY <1>1 DEF IInv, Gated, ArmedIsFresh
<1>6. ClosedForAReason' /\ ReplyAfterFinish' /\ OneReplyPerTurn'
  BY <1>1 DEF ClosedForAReason, ReplyAfterFinish, OneReplyPerTurn
<1> QED
  BY <1>3, <1>4, <1>5, <1>6 DEF IInv

\* A frame on a stream the device has opened joins the wire.
LEMMA DeviceSendInv ==
  ASSUME IInv, NEW s \in Streams, DeviceData(s) \/ DeviceEnd(s) \/ DeviceReset(s),
         TypeOK', Asked'
  PROVE  IInv'
<1> DEFINE n == Len(wire)
<1>1. PICK f \in Frame :
        /\ f.sid = s /\ f.type # "req" /\ wire' = wire \o <<f>>
        /\ f.type = "rst" => up'[s] \in {"reset", "cancelled"}
  <2>1. asked[s] \in Kinds
    BY DEF IInv, Asked, DeviceData, DeviceEnd, DeviceReset
  <2>2. CASE DeviceData(s)
    <3>1. [type |-> "data", sid |-> s, kind |-> asked[s]] \in Frame
      BY <2>1, FrameType
    <3> QED
      BY <2>2, <3>1 DEF DeviceData, Send
  <2>3. CASE DeviceEnd(s)
    <3>1. [type |-> "end", sid |-> s, kind |-> asked[s]] \in Frame
      BY <2>1, FrameType
    <3> QED
      BY <2>3, <3>1 DEF DeviceEnd, Send
  <2>4. CASE DeviceReset(s)
    <3>1. [type |-> "rst", sid |-> s, kind |-> asked[s]] \in Frame
      BY <2>1, FrameType
    <3>2. up'[s] \in {"reset", "cancelled"}
      BY <2>4 DEF DeviceReset, IInv, TypeOK
    <3> QED
      BY <2>4, <3>1, <3>2 DEF DeviceReset, Send
  <2> QED
    BY <2>2, <2>3, <2>4
<1>2. /\ link = "up" /\ up[s] # "idle"
      /\ \/ up' = up
         \/ \E st \in {"ended", "reset", "cancelled"} : up' = [up EXCEPT ![s] = st]
      /\ Gone(s) => up' = up
      /\ UNCHANGED <<link, batch, h2, hdrs, kind, endpointers, answered, offered, opened>>
  BY DEF DeviceData, DeviceEnd, DeviceReset, Send, Gone, instance, history
<1>3. /\ wire \in Seq(Frame) /\ n \in Nat /\ DOMAIN wire = 1..n
      /\ wire' \in Seq(Frame) /\ Len(wire') = n + 1 /\ DOMAIN wire' = 1..(n + 1)
      /\ \A i \in 1..n : wire'[i] = wire[i]
      /\ wire'[n + 1] = f
  <2>1. wire \in Seq(Frame) /\ <<f>> \in Seq(Frame) /\ Len(<<f>>) = 1
    BY DEF IInv, TypeOK, OrbTypeOK
  <2>2. /\ wire' \in Seq(Frame) /\ Len(wire') = n + 1
        /\ \A i \in 1..n : wire'[i] = wire[i]
        /\ \A i \in 1..1 : wire'[n + i] = <<f>>[i]
    BY <1>1, <2>1, ConcatFacts
  <2> QED
    BY <2>1, <2>2
<1> HIDE DEF n
<1>4. up \in [Streams -> {"idle", "open", "ended", "reset", "cancelled"}] /\ batch \in 0..n
      /\ opened \in Nat /\ s \in Nat
  BY DEF n, IInv, TypeOK, OrbTypeOK, Streams
<1>5. \A t \in Streams : (Gone(t) => Gone(t)') /\ (up'[t] = "idle" <=> up[t] = "idle")
  BY <1>2, <1>4 DEF Gone
<1>6. s <= opened
  BY <1>2, <1>4 DEF IInv, Unopened
<1>7. \A i \in 1..(n + 1) : i \in 1..n \/ i = n + 1
  BY <1>3
<1>8. \A i \in 1..n : wire[i].sid \in Streams
  <2>1. \A i \in 1..n : wire[i] \in Frame
    BY <1>3
  <2> QED
    BY <2>1 DEF Frame
<1>9. ClosedForAReason' /\ ReplyAfterFinish' /\ OneReplyPerTurn'
  BY <1>2, <1>5 DEF IInv, ClosedForAReason, ReplyAfterFinish, OneReplyPerTurn
<1>10. ResetsAreGone'
  <2> SUFFICES ASSUME NEW i \in 1..(n + 1), wire'[i].type = "rst"
               PROVE  up'[wire'[i].sid] \in {"reset", "cancelled"}
    BY <1>3 DEF ResetsAreGone, Gone
  <2>1. CASE i \in 1..n
    BY <1>3, <1>5, <1>8, <2>1 DEF IInv, ResetsAreGone, Gone
  <2>2. CASE i = n + 1
    BY <1>1, <1>3, <2>2
  <2> QED
    BY <1>7, <2>1, <2>2
<1>11. BatchIsKnown'
  <2>1. \A i \in 1..batch : wire'[i] = wire[i]
    BY <1>3, <1>4
  <2> QED
    BY <1>2, <2>1 DEF IInv, BatchIsKnown
<1>12. RequestFirst'
  <2> SUFFICES ASSUME NEW i \in 1..(n + 1)
               PROVE  IF wire'[i].type = "req"
                      THEN \A j \in 1..(n + 1) : wire'[j].sid = wire'[i].sid => i <= j
                      ELSE \/ h2[wire'[i].sid] # "idle"
                           \/ \E j \in 1..(i - 1) :
                                wire'[j].type = "req" /\ wire'[j].sid = wire'[i].sid
    BY <1>2, <1>3 DEF RequestFirst
  <2>1. CASE i \in 1..n
    <3>1. CASE wire[i].type = "req"
      <4>1. \A j \in 1..n : wire[j].sid = wire[i].sid => i <= j
        BY <1>3, <2>1, <3>1 DEF IInv, RequestFirst
      <4>2. \A j \in 1..(n + 1) : j \in 1..n \/ i <= j
        BY <1>3, <2>1
      <4> QED
        BY <1>3, <2>1, <3>1, <4>1, <4>2
    <3>2. CASE wire[i].type # "req"
      <4>1. \/ h2[wire[i].sid] # "idle"
            \/ \E j \in 1..(i - 1) : wire[j].type = "req" /\ wire[j].sid = wire[i].sid
        BY <1>3, <2>1, <3>2 DEF IInv, RequestFirst
      <4>2. \A j \in 1..(i - 1) : wire'[j] = wire[j]
        BY <1>3, <2>1
      <4> QED
        BY <1>3, <2>1, <3>2, <4>1, <4>2
    <3> QED
      BY <3>1, <3>2
  <2>2. CASE i = n + 1
    <3>1. h2[s] # "idle" \/ \E j \in 1..n : wire[j].type = "req" /\ wire[j].sid = s
      BY <1>2, <1>3 DEF IInv, Introduced
    <3>2. (i - 1) = n
      BY <1>3, <2>2
    <3> QED
      BY <1>1, <1>3, <2>2, <3>1, <3>2
  <2> QED
    BY <1>7, <2>1, <2>2
<1>13. Introduced'
  <2> SUFFICES ASSUME NEW t \in Streams, up[t] # "idle"
               PROVE  h2[t] # "idle" \/ \E j \in DOMAIN wire' : wire'[j].type = "req" /\ wire'[j].sid = t
    BY <1>2, <1>5 DEF Introduced
  <2>1. h2[t] # "idle" \/ \E j \in 1..n : wire[j].type = "req" /\ wire[j].sid = t
    BY <1>2, <1>3 DEF IInv, Introduced
  <2>2. \A j \in 1..n : j \in DOMAIN wire'
    BY <1>3
  <2> QED
    BY <1>3, <2>1, <2>2
<1>14. Unopened'
  <2>1. \A i \in 1..(n + 1) : wire'[i].sid <= opened
    BY <1>1, <1>3, <1>6, <1>7 DEF IInv, Unopened
  <2>2. \A t \in Streams : t > opened =>
          /\ up'[t] = "idle" /\ t \notin hdrs /\ offered[t] = 0
          /\ link = "up" => kind[t] = "none"
    BY <1>5 DEF IInv, Unopened
  <2> QED
    BY <1>2, <1>3, <2>1, <2>2 DEF Unopened
<1>15. Unheard'
  <2> SUFFICES ASSUME NEW i \in 1..(n + 1), wire'[i].type = "req"
               PROVE  /\ kind[wire'[i].sid] = "none" /\ wire'[i].sid \notin hdrs
                      /\ offered[wire'[i].sid] = 0
    BY <1>2, <1>3 DEF Unheard
  <2>1. i \in 1..n
    BY <1>1, <1>3, <1>7
  <2> QED
    BY <1>3, <2>1 DEF IInv, Unheard
<1>16. Gated' /\ ArmedIsFresh' /\ QuietWhenDown'
  BY <1>2 DEF IInv, Gated, ArmedIsFresh, QuietWhenDown
<1> QED
  BY <1>9, <1>10, <1>11, <1>12, <1>13, <1>14, <1>15, <1>16 DEF IInv

\* A new stream: its request, and the end of one without a body, join the wire.
LEMMA DeviceRequestInv ==
  ASSUME IInv, NEW k \in DeviceKinds, DeviceRequest(k), TypeOK', Asked' PROVE IInv'
<1> DEFINE n == Len(wire)
           s == opened + 1
           req == [type |-> "req", sid |-> s, kind |-> k]
           end == [type |-> "end", sid |-> s, kind |-> k]
<1>1. /\ link = "up" /\ opened' = s
      /\ up' = [up EXCEPT ![s] = "ended"] \/ up' = [up EXCEPT ![s] = "open"]
      /\ UNCHANGED <<link, batch, h2, hdrs, kind, endpointers, answered, offered>>
      /\ wire' = wire \o <<req>> \/ wire' = wire \o <<req, end>>
  BY DEF DeviceRequest, Send, instance, history
<1>2. /\ s \in Streams /\ s \in Nat /\ opened \in Nat /\ k \in Kinds /\ s > opened
      /\ Streams \subseteq Nat
  BY OrbAssumption, OrbSystemAssumption DEF DeviceRequest, IInv, TypeOK, Streams
<1>3. req \in Frame /\ end \in Frame
  BY <1>2, FrameType
<1>4. /\ wire \in Seq(Frame) /\ n \in Nat /\ DOMAIN wire = 1..n
      /\ \A i \in 1..n : wire[i] \in Frame
  BY DEF IInv, TypeOK, OrbTypeOK
<1>5. /\ req.sid = s /\ req.type = "req" /\ end.sid = s /\ end.type = "end"
  OBVIOUS
<1> DEFINE m == Len(wire')
<1>6. /\ m \in {n + 1, n + 2} /\ DOMAIN wire' = 1..m
      /\ \A i \in 1..n : wire'[i] = wire[i]
      /\ wire'[n + 1] = req
      /\ m = n + 2 => wire'[n + 2] = end
  <2>1. <<req>> \in Seq(Frame) /\ <<req, end>> \in Seq(Frame)
    BY <1>3
  <2> HIDE DEF req, end, s
  <2>2. CASE wire' = wire \o <<req>>
    <3>1. /\ wire' \in Seq(Frame) /\ Len(wire') = n + Len(<<req>>)
          /\ \A i \in 1..n : wire'[i] = wire[i]
          /\ \A i \in 1..Len(<<req>>) : wire'[n + i] = <<req>>[i]
      BY <1>4, <2>1, <2>2, ConcatFacts
    <3> QED
      BY <1>4, <3>1
  <2>3. CASE wire' = wire \o <<req, end>>
    <3>1. /\ wire' \in Seq(Frame) /\ Len(wire') = n + Len(<<req, end>>)
          /\ \A i \in 1..n : wire'[i] = wire[i]
          /\ \A i \in 1..Len(<<req, end>>) : wire'[n + i] = <<req, end>>[i]
      BY <1>4, <2>1, <2>3, ConcatFacts
    <3>2. Len(<<req, end>>) = 2 /\ 1 \in 1..2 /\ 2 \in 1..2
      OBVIOUS
    <3>3. wire'[n + 1] = req /\ wire'[n + 2] = end
      BY <3>1, <3>2
    <3> QED
      BY <1>4, <3>1, <3>2, <3>3
  <2> QED
    BY <1>1, <2>2, <2>3
<1> HIDE DEF n, m, s, req, end
<1>7. /\ up \in [Streams -> {"idle", "open", "ended", "reset", "cancelled"}] /\ batch \in 0..n
      /\ up[s] = "idle" /\ s \notin hdrs /\ offered[s] = 0 /\ kind[s] = "none"
  BY <1>1, <1>2 DEF n, IInv, TypeOK, OrbTypeOK, Unopened
<1>8. \A i \in 1..n : wire[i].sid \in Streams /\ wire[i].sid <= opened /\ wire[i].sid # s
  <2>1. \A i \in 1..n : wire[i].sid \in Streams /\ wire[i].sid <= opened
    BY <1>4 DEF Frame, IInv, Unopened
  <2> QED
    BY <1>2, <2>1
<1>9. \A i \in 1..m : i \in 1..n \/ i = n + 1 \/ (i = n + 2 /\ m = n + 2)
  BY <1>4, <1>6
<1>10. \A t \in Streams \ {s} : up'[t] = up[t]
  BY <1>1, <1>7
<1>11. ClosedForAReason' /\ ReplyAfterFinish' /\ OneReplyPerTurn'
  <2>1. \A t \in Streams : Gone(t) => Gone(t)'
    BY <1>7, <1>10 DEF Gone
  <2> QED
    BY <1>1, <2>1 DEF IInv, ClosedForAReason, ReplyAfterFinish, OneReplyPerTurn
<1>12. ResetsAreGone'
  <2> SUFFICES ASSUME NEW i \in 1..m, wire'[i].type = "rst"
               PROVE  up'[wire'[i].sid] \in {"reset", "cancelled"}
    BY <1>6 DEF ResetsAreGone, Gone
  <2>1. i \in 1..n
    BY <1>5, <1>6, <1>9
  <2> QED
    BY <1>4, <1>6, <1>8, <1>10, <2>1 DEF IInv, ResetsAreGone, Gone
<1>13. BatchIsKnown'
  <2>1. \A i \in 1..batch : wire'[i] = wire[i]
    BY <1>4, <1>6, <1>7
  <2> QED
    BY <1>1, <2>1 DEF IInv, BatchIsKnown
<1>14. RequestFirst'
  <2> SUFFICES ASSUME NEW i \in 1..m
               PROVE  IF wire'[i].type = "req"
                      THEN \A j \in 1..m : wire'[j].sid = wire'[i].sid => i <= j
                      ELSE \/ h2[wire'[i].sid] # "idle"
                           \/ \E j \in 1..(i - 1) :
                                wire'[j].type = "req" /\ wire'[j].sid = wire'[i].sid
    BY <1>1, <1>6 DEF RequestFirst
  <2>1. CASE i \in 1..n
    <3>1. CASE wire[i].type = "req"
      <4>1. \A j \in 1..n : wire[j].sid = wire[i].sid => i <= j
        BY <1>4, <1>6, <2>1, <3>1 DEF IInv, RequestFirst
      <4>2. \A j \in 1..m : j \in 1..n \/ i <= j
        BY <1>4, <1>6, <2>1
      <4> QED
        BY <1>4, <1>6, <2>1, <3>1, <4>1, <4>2
    <3>2. CASE wire[i].type # "req"
      <4>1. \/ h2[wire[i].sid] # "idle"
            \/ \E j \in 1..(i - 1) : wire[j].type = "req" /\ wire[j].sid = wire[i].sid
        BY <1>4, <1>6, <2>1, <3>2 DEF IInv, RequestFirst
      <4>2. \A j \in 1..(i - 1) : wire'[j] = wire[j]
        BY <1>4, <1>6, <2>1
      <4> QED
        BY <1>4, <1>6, <2>1, <3>2, <4>1, <4>2
    <3> QED
      BY <3>1, <3>2
  <2>2. CASE i = n + 1
    <3>1. \A j \in 1..m : j \in 1..n \/ i <= j
      BY <1>4, <1>6, <2>2
    <3> QED
      BY <1>4, <1>5, <1>6, <1>8, <2>2, <3>1
  <2>3. CASE i = n + 2 /\ m = n + 2
    <3>1. n + 1 \in 1..(i - 1)
      BY <1>4, <1>6, <2>3
    <3>2. wire'[i] = end /\ wire'[n + 1] = req
      BY <1>4, <1>6, <2>3
    <3> QED
      BY <1>5, <3>1, <3>2
  <2> QED
    BY <1>9, <2>1, <2>2, <2>3
<1>15. Introduced'
  <2> SUFFICES ASSUME NEW t \in Streams, up'[t] # "idle"
               PROVE  h2[t] # "idle" \/ \E j \in 1..m : wire'[j].type = "req" /\ wire'[j].sid = t
    BY <1>1, <1>6 DEF Introduced
  <2>1. CASE t = s
    <3>1. n + 1 \in 1..m
      BY <1>4, <1>6
    <3> QED
      BY <1>4, <1>5, <1>6, <2>1, <3>1
  <2>2. CASE t # s
    <3>1. up[t] # "idle"
      BY <1>10, <2>2
    <3>2. h2[t] # "idle" \/ \E j \in 1..n : wire[j].type = "req" /\ wire[j].sid = t
      BY <1>1, <1>4, <1>6, <3>1 DEF IInv, Introduced
    <3>3. \A j \in 1..n : j \in 1..m /\ wire'[j] = wire[j]
      BY <1>4, <1>6
    <3> QED
      BY <3>2, <3>3
  <2> QED
    BY <2>1, <2>2
<1>16. Unopened'
  <2>1. \A i \in 1..m : wire'[i].sid <= s
    <3> SUFFICES ASSUME NEW i \in 1..m PROVE wire'[i].sid <= s
      OBVIOUS
    <3>1. CASE i \in 1..n
      <4>1. wire[i].sid \in Nat /\ wire[i].sid <= opened
        BY <1>2, <1>8, <3>1
      <4> QED
        BY <1>2, <1>4, <1>6, <3>1, <4>1
    <3>2. CASE i = n + 1 \/ (i = n + 2 /\ m = n + 2)
      <4>1. wire'[i].sid = s
        BY <1>4, <1>5, <1>6, <3>2
      <4> QED
        BY <1>2, <4>1
    <3> QED
      BY <1>9, <3>1, <3>2
  <2>2. \A t \in Streams : t > s => t > opened /\ t # s
    BY <1>2
  <2>3. \A t \in Streams : t > s =>
          /\ up'[t] = "idle" /\ t \notin hdrs /\ offered[t] = 0
          /\ link = "up" => kind[t] = "none"
    BY <1>10, <2>2 DEF IInv, Unopened
  <2> QED
    BY <1>1, <1>6, <2>1, <2>3 DEF Unopened
<1>17. Unheard'
  <2> SUFFICES ASSUME NEW i \in 1..m, wire'[i].type = "req"
               PROVE  /\ kind[wire'[i].sid] = "none" /\ wire'[i].sid \notin hdrs
                      /\ offered[wire'[i].sid] = 0
    BY <1>1, <1>6 DEF Unheard
  <2>1. CASE i \in 1..n
    BY <1>4, <1>6, <2>1 DEF IInv, Unheard
  <2>2. CASE i = n + 1 \/ (i = n + 2 /\ m = n + 2)
    <3>1. wire'[i].sid = s
      BY <1>4, <1>5, <1>6, <2>2
    <3> QED
      BY <1>7, <3>1
  <2> QED
    BY <1>9, <2>1, <2>2
<1>18. Gated' /\ ArmedIsFresh'
  BY <1>1 DEF IInv, Gated, ArmedIsFresh
<1>19. QuietWhenDown'
  BY <1>1 DEF QuietWhenDown
<1> QED
  BY <1>11, <1>12, <1>13, <1>14, <1>15, <1>16, <1>17, <1>18, <1>19 DEF IInv

\* What the device reads or fetches is none of the invariant's business.
LEMMA ElsewhereInv ==
  ASSUME IInv, TypeOK', Asked',
         UNCHANGED <<link, wire, batch, h2, hdrs, kind, endpointers, answered, offered,
                     opened, asked, up>>
  PROVE  IInv'
<1>1. ClosedForAReason' /\ ReplyAfterFinish' /\ OneReplyPerTurn' /\ ResetsAreGone'
  BY DEF IInv, ClosedForAReason, ReplyAfterFinish, OneReplyPerTurn, ResetsAreGone, Gone
<1>2. BatchIsKnown' /\ RequestFirst' /\ Introduced'
  BY DEF IInv, BatchIsKnown, RequestFirst, Introduced
<1>3. Unopened' /\ Unheard' /\ QuietWhenDown'
  BY DEF IInv, Unopened, Unheard, QuietWhenDown
<1>4. Gated' /\ ArmedIsFresh'
  BY DEF IInv, Gated, ArmedIsFresh
<1> QED
  BY <1>1, <1>2, <1>3, <1>4 DEF IInv

LEMMA InitIInv == Init => IInv
<1> SUFFICES ASSUME Init PROVE IInv
  OBVIOUS
<1>1. TypeOK
  BY InitType
<1>2. DOMAIN wire = {} /\ 1..batch = {}
  BY DEF Init, OrbInit
<1>3. ResetsAreGone /\ BatchIsKnown /\ RequestFirst /\ Unheard
  BY <1>2 DEF ResetsAreGone, BatchIsKnown, RequestFirst, Unheard
<1>4. Asked /\ QuietWhenDown /\ Introduced /\ Unopened
  BY <1>2 DEF Init, OrbInit, Asked, QuietWhenDown, Introduced, Unopened
<1>5. ClosedForAReason /\ Gated /\ ArmedIsFresh /\ ReplyAfterFinish /\ OneReplyPerTurn
  BY DEF Init, OrbInit, ClosedForAReason, Gated, ArmedIsFresh, ReplyAfterFinish, OneReplyPerTurn
<1> QED
  BY <1>1, <1>3, <1>4, <1>5 DEF IInv

LEMMA NextIInv == ASSUME IInv, [Next]_vars PROVE IInv'
<1>0. TypeOK' /\ Asked'
  BY NextType DEF IInv
<1>1. CASE OrbEvent /\ UNCHANGED <<device, storage>>
  BY <1>0, <1>1, OrbEventInv
<1>2. CASE ReceiveData /\ UNCHANGED <<device, storage>>
  BY <1>0, <1>2, ReceiveDataInv
<1>3. CASE Connect
  BY <1>0, <1>3, ConnectInv
<1>4. CASE Disconnect \/ Reboot
  BY <1>0, <1>4, DisconnectInv
<1>5. CASE \E k \in DeviceKinds : DeviceRequest(k)
  BY <1>0, <1>5, DeviceRequestInv
<1>6. CASE \E s \in Streams : DeviceData(s) \/ DeviceEnd(s) \/ DeviceReset(s)
  BY <1>0, <1>6, DeviceSendInv
<1>7. CASE \/ DeviceRead \/ \E s \in Streams : GetAudio(s)
           \/ \E f \in Files : GetBin(f)
           \/ UNCHANGED vars
  <2>1. UNCHANGED <<link, wire, batch, h2, hdrs, kind, endpointers, answered, offered,
                    opened, asked, up>>
    BY <1>7 DEF DeviceRead, GetAudio, GetBin, vars, orbVars, transport, instance, history,
                device
  <2> QED
    BY <1>0, <2>1, ElsewhereInv
<1> QED
  BY <1>1, <1>2, <1>3, <1>4, <1>5, <1>6, <1>7, NextSteps

THEOREM Invariance == Spec => []IInv
<1>1. IInv /\ [Next]_vars => IInv'
  BY NextIInv
<1> QED
  BY <1>1, InitIInv, PTL DEF Spec

\* on_endpoint pushes ExpectSpeech only for a turn it has sent b"finish" on,
\* unless the device had reset that turn.
THEOREM FinishBeforeReply == Spec => []ReplyAfterFinish
<1>1. IInv => ReplyAfterFinish
  BY DEF IInv
<1> QED
  BY <1>1, Invariance, PTL

\* The endpointer of a stream triggers on_endpoint once: a turn is replied to
\* once, however the upload goes on.
THEOREM AtMostOneReply == Spec => []OneReplyPerTurn
<1>1. IInv => OneReplyPerTurn
  BY DEF IInv
<1> QED
  BY <1>1, Invariance, PTL
=============================================================================
