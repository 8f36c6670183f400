--------------------------- MODULE OrbReplies_proofs ---------------------------
(***************************************************************************)
(* What the device makes of the messages that reach it, for every number of *)
(* streams and configuration: it never rejects the reply to the turn it is  *)
(* capturing, no reply is aimed at another id, and asset directives stop.   *)
(*                                                                          *)
(* All three are about `down', the messages the device has yet to read.     *)
(* On top of the invariant of OrbSystem_proofs one must know that b"finish" *)
(* for the turn under way is ahead of its reply in that queue, and that a   *)
(* stream whose endpointer is armed carried the device's id; and for the    *)
(* assets, that pushed_anims and ASSET_SERVED keep up with what is in the   *)
(* queue, what the device read from it and what it downloaded.              *)
(***************************************************************************)
EXTENDS OrbSystem_proofs, FiniteSetTheorems

\* Only a stream with headers out was answered, and none that is still armed.
AnsweredBegan ==
  /\ answered \subseteq hdrs
  /\ \A s \in Streams : endpointers[s] = "armed" => s \notin answered

\* The upload of the turn under way is open on the device's side.
TurnIsOpen == turn # NoStream => up[turn] = "open"

\* A reply in the queue was counted.
RepliesOffered ==
  \A i \in DOMAIN down : down[i].type = "expect" => offered[down[i].about] > 0

\* b"finish" for the turn under way is ahead of its reply.
FinishAhead ==
  \A i \in DOMAIN down :
    down[i].type = "expect" /\ down[i].about = turn =>
      \E j \in 1..(i - 1) : down[j].type = "finish" /\ down[j].sid = turn

\* The id was learned from the speech upload itself, before any reply.
Learned == \A s \in Streams : endpointers[s] = "armed" => dev_id = DeviceId
Aimed == \A i \in DOMAIN down : down[i].type = "expect" => down[i].target = DeviceId

ReplyInv == AnsweredBegan /\ TurnIsOpen /\ RepliesOffered /\ FinishAhead
IdInv == "speech" \in KindsWithId => Learned /\ Aimed /\ missed = {}

-----------------------------------------------------------------------------
(***************************************************************************)
(* What a handler sends.                                                    *)
(***************************************************************************)
Without(type, q) == \A i \in DOMAIN q : q[i].type # type

\* Two messages, one behind the other.
LEMMA SinglesConcat ==
  ASSUME NEW T, NEW p \in Seq(T), NEW q \in Seq(T), Len(p) = 1, Len(q) = 1
  PROVE  p \o q = <<p[1], q[1]>>
<1>1. /\ p \o q \in Seq(T) /\ Len(p \o q) = 2
      /\ (p \o q)[1] = p[1] /\ (p \o q)[2] = q[1]
  BY ConcatFacts
<1>2. p[1] \in T /\ q[1] \in T
  BY ElementOfSeq
<1>3. /\ <<p[1], q[1]>> \in Seq(T) /\ Len(<<p[1], q[1]>>) = 2
      /\ <<p[1], q[1]>>[1] = p[1] /\ <<p[1], q[1]>>[2] = q[1]
  BY <1>2
<1> DEFINE l == p \o q
           r == <<p[1], q[1]>>
<1> HIDE DEF l, r
<1>4. \A i \in 1..Len(l) : l[i] = r[i]
  BY <1>1, <1>3 DEF l, r
<1>5. l = r
  BY <1>1, <1>3, <1>4, SeqEqual DEF l, r
<1> QED
  BY <1>5 DEF l, r

LEMMA PairIsConcat ==
  ASSUME NEW T, NEW a \in T, NEW b \in T
  PROVE  <<a, b>> \in Seq(T) /\ <<a>> \o <<b>> = <<a, b>>
<1>1. /\ <<a>> \in Seq(T) /\ <<b>> \in Seq(T) /\ Len(<<a>>) = 1 /\ Len(<<b>>) = 1
      /\ <<a>>[1] = a /\ <<b>>[1] = b /\ <<a, b>> \in Seq(T)
  OBVIOUS
<1>2. <<a>> \o <<b>> = <<<<a>>[1], <<b>>[1]>>
  BY <1>1, SinglesConcat
<1> QED
  BY <1>1, <1>2

LEMMA TurnEndIs ==
  ASSUME NEW s, NEW f \in BOOLEAN, NEW g \in BOOLEAN
  PROVE  LET mf == Msg("finish", s, s, NoId)
             me == Msg("expect", downchannel_sid, s, TargetId(dev_id))
         IN  TurnEnd(s, f, g) = IF f THEN IF g THEN <<mf, me>> ELSE <<mf>>
                                ELSE IF g THEN <<me>> ELSE << >>
<1> DEFINE mf == Msg("finish", s, s, NoId)
           me == Msg("expect", downchannel_sid, s, TargetId(dev_id))
<1>1. TurnEnd(s, f, g) = (IF f THEN <<mf>> ELSE << >>) \o (IF g THEN <<me>> ELSE << >>)
  BY DEF TurnEnd
<1> HIDE DEF mf, me
<1>2. <<mf>> \in Seq({mf, me}) /\ <<me>> \in Seq({mf, me}) /\ << >> \in Seq({mf, me})
  OBVIOUS
<1>3. <<mf>> \o << >> = <<mf>> /\ << >> \o <<me>> = <<me>> /\ << >> \o << >> = << >>
  BY <1>2, ConcatEmptySeq
<1>4. <<mf>> \o <<me>> = <<mf, me>>
  <2>1. mf \in {mf, me} /\ me \in {mf, me}
    OBVIOUS
  <2> QED
    BY <2>1, PairIsConcat
<1>5. TurnEnd(s, f, g) = IF f THEN IF g THEN <<mf, me>> ELSE <<mf>>
                         ELSE IF g THEN <<me>> ELSE << >>
  BY <1>1, <1>3, <1>4
<1> QED
  BY <1>5 DEF mf, me

\* Assets are sent only if they are wanted, and then that is noted.
Noted(q) == Without("anims", q) \/ (AnimsWanted /\ pushed_anims')

\* Handlers other than the reply: no ExpectSpeech, and assets noted.
LEMMA HandlerSends ==
  ASSUME TypeOK, OrbEvent, ~EndpointReplied
  PROVE  \E q \in Seq(Message) : down' = down \o q /\ Without("expect", q) /\ Noted(q)
<1> USE DEF TypeOK, OrbTypeOK
<1>1. down \in Seq(Message) /\ dev_id \in Ids /\ NoId \in Ids
  BY DEF Ids
<1>2. CASE down' = down
  <2>1. << >> \in Seq(Message) /\ down' = down \o << >> /\ Without("expect", << >>)
        /\ Without("anims", << >>)
    BY <1>1, <1>2 DEF Without
  <2> QED
    BY <2>1 DEF Noted
<1>3. ASSUME NEW m \in Message, down' = Append(down, m), m.type # "expect",
             m.type = "anims" => AnimsWanted /\ pushed_anims'
      PROVE  \E q \in Seq(Message) : down' = down \o q /\ Without("expect", q) /\ Noted(q)
  <2>1. <<m>> \in Seq(Message) /\ down' = down \o <<m>> /\ Without("expect", <<m>>)
    BY <1>1, <1>3, AppendIsConcat DEF Without
  <2>2. Noted(<<m>>)
    BY <1>3 DEF Noted, Without
  <2> QED
    BY <2>1, <2>2
<1>4. CASE RequestReceived
  <2> DEFINE learned == IF Event.kind \in KindsWithId THEN DeviceId ELSE dev_id
             m == AnimsMsg(downchannel_sid, learned)
  <2>1. \/ down' = down
        \/ /\ AnimsWanted /\ downchannel_sid # NoStream /\ down' = Append(down, m)
           /\ pushed_anims'
    BY <1>4 DEF RequestReceived, AnimsPushed, Pushed
  <2>2. CASE down' # down
    <3>1. downchannel_sid \in Streams /\ learned \in Ids
      BY <2>1, <2>2, <1>1, OrbAssumption DEF NoStream, Streams, Ids
    <3>2. m \in Message
      BY <3>1, MsgType, TargetIdType DEF AnimsMsg
    <3>3. m.type = "anims"
      BY DEF AnimsMsg, Msg
    <3> HIDE DEF m
    <3> QED
      BY <1>3, <2>1, <2>2, <3>2, <3>3
  <2> QED
    BY <1>2, <2>2
<1>5. CASE StreamAnswered
  <2>1. Event.sid \in Streams /\ down' = Append(down, Answer(Event.sid))
    BY <1>5, EventType DEF StreamAnswered
  <2>2. Answer(Event.sid) \in Message
    BY <2>1, AnswerType
  <2>3. Answer(Event.sid).type \in {"audio", "ok"}
    BY DEF Answer, Msg
  <2> HIDE DEF Event
  <2> QED
    BY <1>3, <2>1, <2>2, <2>3
<1>6. CASE DownchannelOpened
  <2> DEFINE s == Event.sid
             ms == Msg("session", s, NoStream, NoId)
             ma == AnimsMsg(s, dev_id)
  <2>1. s \in Streams
    BY <1>6, EventType DEF DownchannelOpened
  <2>2. \E pushing \in BOOLEAN :
          /\ down' = down \o <<ms>> \o (IF pushing THEN <<ma>> ELSE << >>)
          /\ pushing => AnimsWanted /\ pushed_anims'
    BY <1>6 DEF DownchannelOpened, AnimsPushed, Pushed, AnimsWanted
  <2>3. ms \in Message /\ ma \in Message
    BY <1>1, <2>1, MsgType, TargetIdType DEF AnimsMsg
  <2>4. ms.type = "session" /\ ma.type = "anims"
    BY DEF Msg, AnimsMsg
  <2> HIDE DEF ms, ma
  <2>5. PICK pushing \in BOOLEAN :
          /\ down' = down \o <<ms>> \o (IF pushing THEN <<ma>> ELSE << >>)
          /\ pushing => AnimsWanted /\ pushed_anims'
    BY <2>2
  <2>6. CASE pushing
    <3>1. <<ms, ma>> \in Seq(Message) /\ down' = down \o <<ms, ma>>
      <4>1. <<ms>> \in Seq(Message) /\ <<ma>> \in Seq(Message)
        BY <2>3
      <4>2. down' = down \o (<<ms>> \o <<ma>>)
        BY <1>1, <2>5, <2>6, <4>1, ConcatAssociative
      <4> QED
        BY <2>3, <4>2, PairIsConcat
    <3>2. Without("expect", <<ms, ma>>)
      BY <2>4 DEF Without
    <3> QED
      BY <2>5, <2>6, <3>1, <3>2 DEF Noted
  <2>7. CASE ~pushing
    <3>1. <<ms>> \in Seq(Message) /\ down' = down \o <<ms>>
      BY <1>1, <2>3, <2>5, <2>7
    <3>2. Without("expect", <<ms>>) /\ Without("anims", <<ms>>)
      BY <2>4 DEF Without
    <3> QED
      BY <3>1, <3>2 DEF Noted
  <2> QED
    BY <2>6, <2>7
<1>7. CASE DataIgnored \/ DataBuffered \/ EndpointObserved \/ AnsweredEnded \/ AnswerRaises
           \/ StreamReset
  BY <1>2, <1>7 DEF DataIgnored, DataBuffered, EndpointObserved, AnsweredEnded, AnswerRaises,
     StreamReset
<1> QED
  BY <1>4, <1>5, <1>6, <1>7 DEF OrbEvent

\* The reply: at most b"finish" and ExpectSpeech, about the turn it ends.
LEMMA ReplySends ==
  ASSUME TypeOK, EndpointReplied
  PROVE  \E q \in Seq(Message) : down' = down \o q /\ Without("anims", q)
<1> DEFINE s == Event.sid
           mf == Msg("finish", s, s, NoId)
           me == Msg("expect", downchannel_sid, s, TargetId(dev_id))
<1>1. s \in Streams
  BY EventType DEF EndpointReplied
<1>2. PICK room \in Rooms :
        down' = down \o TurnEnd(s, FinishSent(s, room), Pushed(downchannel_sid, room))
  BY DEF EndpointReplied
<1> DEFINE f == FinishSent(s, room)
           g == Pushed(downchannel_sid, room)
<1>3. f \in BOOLEAN /\ g \in BOOLEAN
  BY DEF FinishSent, Pushed
<1>4. dev_id \in Ids /\ NoId \in Ids /\ (g => downchannel_sid \in Streams)
  BY OrbAssumption DEF Ids, TypeOK, OrbTypeOK, Pushed, NoStream, Streams
<1>5. mf \in Message /\ (g => me \in Message)
  BY <1>1, <1>4, MsgType, ExpectType, TargetIdType
<1>6. mf.type = "finish" /\ me.type = "expect"
  BY DEF Msg
<1>7. TurnEnd(s, f, g) = IF f THEN IF g THEN <<mf, me>> ELSE <<mf>>
                         ELSE IF g THEN <<me>> ELSE << >>
  BY <1>3, TurnEndIs
<1>8. TurnEnd(s, f, g) \in Seq(Message)
  BY <1>5, TurnEndType
<1> HIDE DEF mf, me
<1>9. Without("anims", TurnEnd(s, f, g))
  BY <1>6, <1>7 DEF Without
<1> QED
  BY <1>2, <1>8, <1>9

\* Steps that leave the queue alone.
LEMMA ElsewhereDown ==
  ASSUME \/ ReceiveData \/ Connect \/ \E k \in DeviceKinds : DeviceRequest(k)
         \/ \E s \in Streams : DeviceData(s) \/ DeviceEnd(s) \/ DeviceReset(s)
         \/ \E s \in Streams : GetAudio(s)
         \/ \E f \in Files : GetBin(f)
         \/ UNCHANGED vars
  PROVE  down' = down
  BY DEF ReceiveData, Connect, ConnectionMade, DeviceRequest, DeviceData, DeviceEnd,
     DeviceReset, Send, GetAudio, GetBin, vars, orbVars, transport

\* A message behind the end of the queue is one of those just sent.
LEMMA QueueSplit ==
  ASSUME TypeOK, NEW q \in Seq(Message), down' = down \o q
  PROVE  /\ \A i \in 1..Len(down) : i \in DOMAIN down' /\ down'[i] = down[i]
         /\ \A k \in 1..Len(q) : down'[Len(down) + k] = q[k]
         /\ \A i \in DOMAIN down' :
              \/ i \in 1..Len(down)
              \/ i - Len(down) \in 1..Len(q) /\ i = Len(down) + (i - Len(down))
<1>1. down \in Seq(Message)
  BY DEF TypeOK, OrbTypeOK
<1>2. /\ down \o q \in Seq(Message) /\ Len(down \o q) = Len(down) + Len(q)
      /\ \A i \in 1..Len(down) : (down \o q)[i] = down[i]
      /\ \A i \in 1..Len(q) : (down \o q)[Len(down) + i] = q[i]
  BY <1>1, ConcatFacts
<1>3. /\ down' \in Seq(Message) /\ Len(down') = Len(down) + Len(q)
      /\ \A i \in 1..Len(down) : down'[i] = down[i]
      /\ \A i \in 1..Len(q) : down'[Len(down) + i] = q[i]
  BY <1>2
<1>4. DOMAIN down' = 1..Len(down') /\ Len(down) \in Nat /\ Len(q) \in Nat
  BY <1>1, <1>3
<1> QED
  BY <1>3, <1>4

-----------------------------------------------------------------------------
(***************************************************************************)
(* Asset directives.                                                        *)
(***************************************************************************)
AnimsAt(q) == {i \in DOMAIN q : q[i].type = "anims"}

\* Asset directives in a queue are counted by a natural number.
LEMMA AnimsType ==
  ASSUME NEW q \in Seq(Message)
  PROVE  IsFiniteSet(AnimsAt(q)) /\ Anims(q) \in Nat /\ Anims(q) = Cardinality(AnimsAt(q))
<1>1. IsFiniteSet(1..Len(q)) /\ AnimsAt(q) \subseteq 1..Len(q)
  BY FS_Interval DEF AnimsAt
<1>2. IsFiniteSet(AnimsAt(q))
  BY <1>1, FS_Subset
<1> QED
  BY <1>2, FS_CardinalityType DEF Anims, AnimsAt

LEMMA AnimsAppend ==
  ASSUME NEW q \in Seq(Message), NEW r \in Seq(Message), Without("anims", r)
  PROVE  Anims(q \o r) = Anims(q)
<1>1. /\ q \o r \in Seq(Message) /\ Len(q \o r) = Len(q) + Len(r)
      /\ \A i \in 1..Len(q) : (q \o r)[i] = q[i]
      /\ \A i \in 1..Len(r) : (q \o r)[Len(q) + i] = r[i]
  BY ConcatFacts
<1> DEFINE l == q \o r
<1> HIDE DEF l
<1>2. ASSUME NEW i \in 1..Len(l), l[i].type = "anims" PROVE i \in 1..Len(q)
  <2>1. SUFFICES ASSUME i > Len(q) PROVE FALSE
    OBVIOUS
  <2>2. i - Len(q) \in 1..Len(r) /\ l[Len(q) + (i - Len(q))] = r[i - Len(q)]
    BY <1>1, <2>1 DEF l
  <2>3. l[i] = r[i - Len(q)]
    BY <2>2
  <2> QED
    BY <1>2, <2>2, <2>3 DEF Without
<1>3. AnimsAt(l) = AnimsAt(q)
  BY <1>1, <1>2 DEF AnimsAt, l
<1> QED
  BY <1>1, <1>3, AnimsType DEF l

LEMMA AnimsTail ==
  ASSUME NEW q \in Seq(Message), q # << >>
  PROVE  Anims(Tail(q)) <= Anims(q)
<1>1. Len(q) > 0
  OBVIOUS
<1>2. /\ Tail(q) \in Seq(Message) /\ Len(Tail(q)) = Len(q) - 1
      /\ \A i \in 1..Len(Tail(q)) : Tail(q)[i] = q[i + 1]
  BY <1>1, TailFacts
<1> DEFINE A == AnimsAt(Tail(q))
           B == AnimsAt(q)
           f == [i \in A |-> i + 1]
<1>3. \A i \in A : i \in Nat /\ i + 1 \in B
  BY <1>2 DEF AnimsAt
<1>4. f \in Injection(A, B)
  BY <1>3 DEF Injection, IsInjective
<1>5. Cardinality(A) <= Cardinality(B)
  BY <1>4, AnimsType, FS_Injection
<1> QED
  BY <1>2, <1>5, AnimsType

\* No asset directive, none to count.
LEMMA AnimsNone ==
  ASSUME NEW q \in Seq(Message), Without("anims", q)
  PROVE  Anims(q) = 0
<1>1. AnimsAt(q) = {}
  BY DEF AnimsAt, Without
<1> QED
  BY <1>1, AnimsType, FS_EmptySet

\* An asset directive the device was sent on this connection, read or not, is
\* remembered in pushed_anims; a file it has, in ASSET_SERVED; and nothing is
\* sent or remembered of it while there is no connection.
PushNoted == (directive = "none" /\ Without("anims", down)) \/ pushed_anims
ServedNoted == got # {} => ASSET_SERVED
NothingSent == link = "down" => directive = "none" /\ down = << >>

PushInv == PushNoted /\ ServedNoted /\ NothingSent

\* A handler sends assets only if they are wanted, notes it, and never takes
\* the note back.
LEMMA HandlerAnims ==
  ASSUME TypeOK, OrbEvent
  PROVE  /\ pushed_anims => pushed_anims'
         /\ ASSET_SERVED' = ASSET_SERVED /\ link # "down" /\ link' # "down"
         /\ \E q \in Seq(Message) : down' = down \o q /\ Noted(q)
<1>1. \E q \in Seq(Message) : down' = down \o q /\ Noted(q)
  BY HandlerSends, ReplySends DEF Noted
<1>2. CASE RequestReceived
  BY <1>1, <1>2 DEF RequestReceived, Handling
<1>3. CASE DownchannelOpened
  BY <1>1, <1>3 DEF DownchannelOpened, Handling
<1>4. CASE \/ DataIgnored \/ DataBuffered \/ EndpointObserved \/ EndpointReplied
           \/ AnsweredEnded \/ StreamAnswered \/ StreamReset
  <2>1. UNCHANGED <<pushed_anims, ASSET_SERVED, link>> /\ link = "up"
    BY <1>4 DEF DataIgnored, DataBuffered, EndpointObserved, EndpointReplied, AnsweredEnded,
       StreamAnswered, StreamReset, Handling, instance
  <2> QED
    BY <1>1, <2>1
<1>5. CASE AnswerRaises
  BY <1>1, <1>5 DEF AnswerRaises, Fatal, Handling
<1> QED
  BY <1>2, <1>3, <1>4, <1>5 DEF OrbEvent

\* What the device has read is not there twice.
LEMMA ReadAnims ==
  ASSUME TypeOK, DeviceRead, PushNoted
  PROVE  PushNoted'
<1>1. down \in Seq(Message) /\ Len(down) > 0
  BY DEF DeviceRead, TypeOK, OrbTypeOK
<1>2. /\ Head(down) = down[1] /\ down' = Tail(down) /\ Len(Tail(down)) = Len(down) - 1
      /\ \A i \in 1..Len(Tail(down)) : Tail(down)[i] = down[i + 1]
  BY <1>1, TailFacts DEF DeviceRead
<1>3. pushed_anims' = pushed_anims
  BY DEF DeviceRead, instance
<1>4. ASSUME directive = "none", Without("anims", down)
      PROVE  directive' = "none" /\ Without("anims", down')
  <2>1. Head(down).type # "anims"
    BY <1>1, <1>2, <1>4 DEF Without
  <2>2. directive' = "none"
    BY <1>4, <2>1 DEF DeviceRead
  <2>3. \A i \in 1..Len(Tail(down)) : i + 1 \in 1..Len(down)
    BY <1>1, <1>2
  <2>4. DOMAIN down' = 1..Len(Tail(down)) /\ DOMAIN down = 1..Len(down)
    BY <1>1, <1>2, TailFacts
  <2>5. Without("anims", down')
    BY <1>2, <1>4, <2>3, <2>4 DEF Without
  <2> QED
    BY <2>2, <2>5
<1> QED
  BY <1>3, <1>4 DEF PushNoted

LEMMA InitPushInv == Init => PushInv
<1> SUFFICES ASSUME Init PROVE PushInv
  OBVIOUS
<1>1. DOMAIN down = {}
  BY DEF Init, OrbInit
<1> QED
  BY <1>1 DEF Init, OrbInit, PushInv, PushNoted, ServedNoted, NothingSent, Without

LEMMA NextPushInv == ASSUME TypeOK, PushInv, [Next]_vars PROVE PushInv'
<1> USE DEF PushInv
<1>1. CASE OrbEvent /\ UNCHANGED <<device, storage>>
  <2>1. PICK q \in Seq(Message) : down' = down \o q /\ Noted(q)
    BY <1>1, HandlerAnims
  <2>2. /\ pushed_anims => pushed_anims'
        /\ ASSET_SERVED' = ASSET_SERVED /\ link' # "down"
        /\ directive' = directive /\ got' = got
    BY <1>1, HandlerAnims DEF device, storage
  <2>3. CASE ~Without("anims", q)
    BY <2>1, <2>2, <2>3 DEF Noted, PushNoted, ServedNoted, NothingSent
  <2>4. CASE Without("anims", q)
    <3>1. ASSUME Without("anims", down) PROVE Without("anims", down')
      BY <2>1, <2>4, <3>1, QueueSplit DEF Without
    <3> QED
      BY <2>2, <3>1 DEF PushNoted, ServedNoted, NothingSent
  <2> QED
    BY <2>3, <2>4
<1>2. CASE DeviceRead
  <2>1. PushNoted'
    BY <1>2, ReadAnims
  <2> QED
    BY <1>2, <2>1 DEF DeviceRead, ServedNoted, NothingSent
<1>3. CASE Disconnect \/ Reboot
  <2>1. /\ directive' = "none" /\ down' = << >> /\ got' = got
        /\ ASSET_SERVED' = ASSET_SERVED
    BY <1>3 DEF Disconnect, Reboot, ConnectionLost, DeviceDisconnected, storage
  <2>2. DOMAIN down' = {}
    BY <2>1
  <2> QED
    BY <2>1, <2>2 DEF PushNoted, ServedNoted, NothingSent, Without
<1>4. CASE Connect
  <2>1. /\ directive' = "none" /\ down' = << >> /\ got' = got
        /\ ASSET_SERVED' = ASSET_SERVED
    BY <1>4 DEF Connect, ConnectionMade, NothingSent, device, storage
  <2>2. DOMAIN down' = {}
    BY <2>1
  <2> QED
    BY <2>1, <2>2 DEF PushNoted, ServedNoted, NothingSent, Without
<1>5. CASE \E f \in Files : GetBin(f)
  BY <1>5 DEF GetBin, PushNoted, ServedNoted, NothingSent, Without, instance, transport, device
<1>6. CASE \/ ReceiveData /\ UNCHANGED <<device, storage>>
           \/ \E k \in DeviceKinds : DeviceRequest(k)
           \/ \E s \in Streams : DeviceData(s) \/ DeviceEnd(s) \/ DeviceReset(s)
           \/ \E s \in Streams : GetAudio(s)
           \/ UNCHANGED vars
  <2>1. UNCHANGED <<link, down, pushed_anims, ASSET_SERVED, directive, got>>
    BY <1>6 DEF ReceiveData, DeviceRequest, DeviceData, DeviceEnd, DeviceReset, Send, GetAudio,
       vars, orbVars, transport, instance, device, storage
  <2> QED
    BY <2>1 DEF PushNoted, ServedNoted, NothingSent, Without
<1> QED
  BY <1>1, <1>2, <1>3, <1>4, <1>5, <1>6, NextSteps

\* Only a handler adds an asset directive, and only if they are wanted.
LEMMA PushWasWanted ==
  ASSUME TypeOK, [Next]_vars, Anims(down') > Anims(down)
  PROVE  AnimsWanted
<1>1. down \in Seq(Message) /\ Anims(down) \in Nat
  BY AnimsType DEF TypeOK, OrbTypeOK
<1>2. ASSUME NEW q \in Seq(Message), down' = down \o q, Without("anims", q) PROVE FALSE
  BY <1>1, <1>2, AnimsAppend
<1>3. CASE OrbEvent
  <2>1. PICK q \in Seq(Message) : down' = down \o q /\ Noted(q)
    BY <1>3, HandlerAnims
  <2> QED
    BY <1>2, <2>1 DEF Noted
<1>4. CASE DeviceRead
  <2>1. down # << >> /\ down' = Tail(down) /\ Tail(down) \in Seq(Message)
    BY <1>1, <1>4, TailFacts DEF DeviceRead
  <2>2. Anims(Tail(down)) <= Anims(down) /\ Anims(Tail(down)) \in Nat
    BY <1>1, <2>1, AnimsTail, AnimsType
  <2>3. Anims(down') = Anims(Tail(down))
    BY <2>1
  <2> QED
    BY <1>1, <2>2, <2>3
<1>5. CASE Disconnect \/ Reboot
  <2>1. down' = << >> /\ << >> \in Seq(Message) /\ Without("anims", << >>)
    BY <1>5 DEF Disconnect, Reboot, ConnectionLost, Without
  <2>2. Anims(<< >>) = 0 /\ Anims(down') = Anims(<< >>)
    BY <2>1, AnimsNone
  <2> QED
    BY <1>1, <2>2
<1>6. CASE \/ ReceiveData \/ Connect \/ \E k \in DeviceKinds : DeviceRequest(k)
           \/ \E s \in Streams : DeviceData(s) \/ DeviceEnd(s) \/ DeviceReset(s)
           \/ \E s \in Streams : GetAudio(s)
           \/ \E f \in Files : GetBin(f)
           \/ UNCHANGED vars
  BY <1>1, <1>6, ElsewhereDown
<1> QED
  BY <1>3, <1>4, <1>5, <1>6, NextSteps

\* A device is pushed assets only while it has none of the files, and was sent
\* no such directive on its connection: the two flags the handlers test,
\* pushed_anims and ASSET_SERVED, are never behind what the device has read,
\* what is on its way to it, and what it downloaded on other connections.
THEOREM AssetsStop == Spec => PushesStop
<1>1. TypeOK /\ PushInv /\ [Next]_vars => PushInv'
  BY NextPushInv
<1>2. ASSUME TypeOK, PushInv, [Next]_vars, Anims(down') > Anims(down)
      PROVE  got = {} /\ directive = "none" /\ Anims(down) = 0
  <2>1. ~pushed_anims /\ ~ASSET_SERVED
    BY <1>2, PushWasWanted DEF AnimsWanted
  <2>2. got = {} /\ directive = "none" /\ Without("anims", down)
    BY <1>2, <2>1 DEF PushInv, PushNoted, ServedNoted
  <2>3. down \in Seq(Message)
    BY <1>2 DEF TypeOK, OrbTypeOK
  <2> QED
    BY <2>2, <2>3, AnimsNone
<1>3. TypeOK /\ PushInv /\ [Next]_vars =>
        [Anims(down') > Anims(down) => got = {} /\ directive = "none" /\ Anims(down) = 0]_vars
  BY <1>2
<1> QED
  BY <1>1, <1>3, InitPushInv, TypeCorrect, PTL DEF Spec, PushesStop
-----------------------------------------------------------------------------
(***************************************************************************)
(* The queue, step by step.                                                 *)
(***************************************************************************)
QueueInv == RepliesOffered /\ FinishAhead

LEMMA AppendKeeps ==
  ASSUME TypeOK, NEW q \in Seq(Message), down' = down \o q, Without("expect", q),
         turn' = turn, offered' = offered
  PROVE  (QueueInv => QueueInv') /\ (Aimed => Aimed')
<1>1. /\ DOMAIN q = 1..Len(q) /\ DOMAIN down = 1..Len(down)
  BY DEF TypeOK, OrbTypeOK
<1>2. ASSUME NEW i \in DOMAIN down', down'[i].type = "expect"
      PROVE  i \in DOMAIN down /\ down'[i] = down[i]
  BY <1>1, <1>2, QueueSplit DEF Without
<1>3. RepliesOffered => RepliesOffered'
  BY <1>2 DEF RepliesOffered
<1>4. ASSUME FinishAhead, NEW i \in DOMAIN down', down'[i].type = "expect",
             down'[i].about = turn
      PROVE  \E j \in 1..(i - 1) : down'[j].type = "finish" /\ down'[j].sid = turn
  <2>1. i \in 1..Len(down) /\ down'[i] = down[i]
    BY <1>1, <1>2, <1>4
  <2>2. PICK j \in 1..(i - 1) : down[j].type = "finish" /\ down[j].sid = turn
    BY <1>1, <1>4, <2>1 DEF FinishAhead
  <2>3. j \in 1..Len(down)
    BY <2>1
  <2> QED
    BY <2>2, <2>3, QueueSplit
<1>5. FinishAhead => FinishAhead'
  BY <1>4 DEF FinishAhead
<1>6. Aimed => Aimed'
  BY <1>2 DEF Aimed
<1> QED
  BY <1>3, <1>5, <1>6 DEF QueueInv

\* Nothing sent and nothing read; a turn may have begun that has no reply yet.
LEMMA SameKeeps ==
  ASSUME TypeOK, down' = down, offered' = offered,
         turn' \in {turn, NoStream} \/ offered[turn'] = 0
  PROVE  (QueueInv => QueueInv') /\ (Aimed => Aimed')
<1>1. ASSUME NEW i \in DOMAIN down, down[i].type = "expect"
      PROVE  down[i].about # NoStream
  <2>1. down[i] \in Message
    BY DEF TypeOK, OrbTypeOK
  <2> QED
    BY <1>1, <2>1, OrbAssumption DEF Message, Streams, NoStream
<1> QED
  BY <1>1 DEF QueueInv, RepliesOffered, FinishAhead, Aimed

\* The reply: b"finish" is ahead of it, or the turn is no longer under way.
LEMMA ReplyKeeps ==
  ASSUME IInv, IInv', ReplyInv, EndpointReplied, UNCHANGED device
  PROVE  QueueInv' /\ (Learned /\ Aimed => Aimed')
<1> DEFINE s == Event.sid
           mf == Msg("finish", s, s, NoId)
           me == Msg("expect", downchannel_sid, s, TargetId(dev_id))
<1>0. TypeOK
  BY DEF IInv
<1>1. s \in Streams
  BY EventFacts DEF EndpointReplied
<1>2. PICK room \in Rooms :
        LET finished == FinishSent(s, room)
            pushed == Pushed(downchannel_sid, room)
        IN  /\ answered' = IF finished THEN answered \cup {s} ELSE answered
            /\ down' = down \o TurnEnd(s, finished, pushed)
            /\ offered' = IF pushed THEN [offered EXCEPT ![s] = @ + 1] ELSE offered
  BY DEF EndpointReplied
<1> DEFINE f == FinishSent(s, room)
           g == Pushed(downchannel_sid, room)
           q == TurnEnd(s, f, g)
<1>3. f \in BOOLEAN /\ g \in BOOLEAN
  BY DEF FinishSent, Pushed
<1>4. dev_id \in Ids /\ NoId \in Ids /\ (g => downchannel_sid \in Streams)
  BY <1>0, OrbAssumption DEF Ids, TypeOK, OrbTypeOK, Pushed, NoStream, Streams
<1>5. mf \in Message /\ (g => me \in Message)
  BY <1>1, <1>4, MsgType, ExpectType, TargetIdType
<1>6. /\ mf.type = "finish" /\ mf.sid = s
      /\ me.type = "expect" /\ me.about = s /\ me.target = TargetId(dev_id)
  BY DEF Msg
<1>7. q = IF f THEN IF g THEN <<mf, me>> ELSE <<mf>> ELSE IF g THEN <<me>> ELSE << >>
  BY <1>3, TurnEndIs
<1>8. q \in Seq(Message)
  BY <1>5, TurnEndType
<1>9. endpointers[s] = "armed"
  BY FiringArmed DEF EndpointReplied
<1>10. s \notin answered
  BY <1>1, <1>9 DEF ReplyInv, AnsweredBegan
<1>11. /\ answered' = IF f THEN answered \cup {s} ELSE answered
       /\ offered' = IF g THEN [offered EXCEPT ![s] = @ + 1] ELSE offered
       /\ down' = down \o q /\ turn' = turn /\ up' = up
  BY <1>2 DEF device
<1>12. offered \in [Streams -> Nat] /\ DOMAIN down = 1..Len(down) /\ Len(down) \in Nat
  BY <1>0 DEF TypeOK, OrbTypeOK
<1>13. ASSUME g, ~f PROVE turn # s
  <2>1. offered'[s] > 0
    BY <1>1, <1>11, <1>12, <1>13
  <2>2. \A t \in Streams :
          offered'[t] > 0 => t \in answered' \/ up'[t] \in {"reset", "cancelled"}
    BY DEF IInv, ReplyAfterFinish, Gone
  <2>3. up[s] # "open"
    BY <1>1, <1>10, <1>11, <1>13, <2>1, <2>2
  <2> QED
    BY <1>1, <2>3, OrbAssumption DEF ReplyInv, TurnIsOpen, NoStream, Streams
<1> HIDE DEF s, mf, me, f, g, q
<1>14. ASSUME NEW i \in DOMAIN down', down'[i].type = "expect"
       PROVE  \/ i \in DOMAIN down /\ down'[i] = down[i]
              \/ /\ g /\ down'[i] = me
                 /\ f => i - 1 \in 1..(i - 1) /\ down'[i - 1] = mf
  <2>1. CASE i \in 1..Len(down)
    BY <1>0, <1>8, <1>11, <1>12, <2>1, QueueSplit
  <2>2. CASE i \notin 1..Len(down)
    <3> DEFINE k == i - Len(down)
    <3>1. k \in 1..Len(q) /\ i = Len(down) + k /\ down'[i] = q[k]
          /\ \A n \in 1..Len(q) : down'[Len(down) + n] = q[n]
      BY <1>0, <1>8, <1>11, <2>2, QueueSplit
    <3>2. CASE f /\ g
      <4>1. Len(q) = 2 /\ q[1] = mf /\ q[2] = me
        BY <1>7, <3>2
      <4>2. k = 2
        BY <1>6, <1>14, <3>1, <4>1
      <4>3. i - 1 = Len(down) + 1 /\ 1 \in 1..Len(q)
        BY <1>12, <3>1, <4>1, <4>2
      <4>4. down'[i - 1] = mf /\ i - 1 \in 1..(i - 1)
        BY <1>12, <3>1, <4>1, <4>3
      <4> QED
        BY <3>1, <3>2, <4>1, <4>2, <4>4
    <3>3. CASE f /\ ~g
      <4>1. Len(q) = 1 /\ q[1] = mf
        BY <1>7, <3>3
      <4> QED
        BY <1>6, <1>14, <3>1, <4>1
    <3>4. CASE ~f /\ g
      <4>1. Len(q) = 1 /\ q[1] = me
        BY <1>7, <3>4
      <4> QED
        BY <3>1, <3>4, <4>1
    <3>5. CASE ~f /\ ~g
      <4>1. Len(q) = 0
        BY <1>7, <3>5
      <4> QED
        BY <3>1, <4>1
    <3> QED
      BY <1>3, <3>2, <3>3, <3>4, <3>5
  <2> QED
    BY <2>1, <2>2
<1>15. ASSUME NEW i \in DOMAIN down, down[i].type = "expect"
       PROVE  down[i].about \in Streams
  <2>1. down[i] \in Message
    BY <1>0 DEF TypeOK, OrbTypeOK
  <2> QED
    BY <1>15, <2>1 DEF Message
<1>16. \A t \in Streams : offered[t] > 0 => offered'[t] > 0
  BY <1>1, <1>11, <1>12
<1>17. g => offered'[s] > 0
  BY <1>1, <1>11, <1>12
<1>18. RepliesOffered'
  BY <1>6, <1>14, <1>15, <1>16, <1>17 DEF ReplyInv, RepliesOffered
<1>19. ASSUME NEW i \in DOMAIN down', down'[i].type = "expect", down'[i].about = turn
       PROVE  \E j \in 1..(i - 1) : down'[j].type = "finish" /\ down'[j].sid = turn
  <2>1. CASE i \in DOMAIN down /\ down'[i] = down[i]
    <3>1. PICK j \in 1..(i - 1) : down[j].type = "finish" /\ down[j].sid = turn
      BY <1>19, <2>1 DEF ReplyInv, FinishAhead
    <3>2. j \in 1..Len(down)
      BY <1>12, <2>1
    <3>3. down'[j] = down[j]
      BY <1>0, <1>8, <1>11, <3>2, QueueSplit
    <3> QED
      BY <3>1, <3>3
  <2>2. CASE g /\ down'[i] = me /\ (f => i - 1 \in 1..(i - 1) /\ down'[i - 1] = mf)
    BY <1>6, <1>13, <1>19, <2>2
  <2> QED
    BY <1>14, <1>19, <2>1, <2>2
<1>20. FinishAhead'
  BY <1>11, <1>19 DEF FinishAhead
<1>21. ASSUME Learned, Aimed PROVE Aimed'
  <2>1. dev_id = DeviceId
    BY <1>1, <1>9, <1>21 DEF Learned
  <2>2. TargetId(dev_id) = DeviceId
    BY <2>1, OrbAssumption DEF TargetId
  <2> QED
    BY <1>6, <1>14, <1>21, <2>2 DEF Aimed
<1> QED
  BY <1>18, <1>20, <1>21 DEF QueueInv

\* The device reads the head of the queue; if that is the b"finish" of the
\* turn under way, the turn is over.
LEMMA ReadKeeps ==
  ASSUME TypeOK, ReplyInv, DeviceRead
  PROVE  QueueInv' /\ (Aimed => Aimed')
<1>1. /\ down \in Seq(Message) /\ Len(down) > 0 /\ down' = Tail(down)
      /\ offered' = offered /\ turn' \in {turn, NoStream}
      /\ down[1].type = "finish" /\ Heard(down[1]) /\ down[1].sid = turn => turn' = NoStream
  <2>1. down \in Seq(Message) /\ down # << >>
    BY DEF TypeOK, OrbTypeOK, DeviceRead
  <2>2. Len(down) > 0 /\ Head(down) = down[1]
    BY <2>1
  <2> QED
    BY <2>1, <2>2 DEF DeviceRead, history
<1>2. /\ DOMAIN down' = 1..(Len(down) - 1) /\ DOMAIN down = 1..Len(down) /\ Len(down) \in Nat
      /\ \A i \in DOMAIN down' : down'[i] = down[i + 1] /\ i + 1 \in DOMAIN down
  BY <1>1, TailFacts
<1>3. ASSUME NEW i \in DOMAIN down, down[i].type = "expect"
      PROVE  down[i].about # NoStream
  <2>1. down[i] \in Message
    BY <1>1
  <2> QED
    BY <1>3, <2>1, OrbAssumption DEF Message, Streams, NoStream
<1>4. RepliesOffered'
  BY <1>1, <1>2 DEF ReplyInv, RepliesOffered
<1>5. ASSUME NEW i \in DOMAIN down', down'[i].type = "expect", down'[i].about = turn'
      PROVE  \E j \in 1..(i - 1) : down'[j].type = "finish" /\ down'[j].sid = turn'
  <2>1. turn' = turn /\ turn # NoStream
    BY <1>1, <1>2, <1>3, <1>5
  <2>2. PICK j \in 1..i : down[j].type = "finish" /\ down[j].sid = turn
    <3>1. i + 1 \in DOMAIN down /\ down[i + 1].type = "expect" /\ down[i + 1].about = turn
          /\ (i + 1) - 1 = i
      BY <1>2, <1>5, <2>1
    <3> QED
      BY <3>1 DEF ReplyInv, FinishAhead
  <2>3. up[turn] = "open"
    BY <2>1 DEF ReplyInv, TurnIsOpen
  <2>4. j # 1
    <3>1. SUFFICES ASSUME j = 1 PROVE FALSE
      OBVIOUS
    <3>2. Heard(down[1])
      BY <2>2, <2>3, <3>1 DEF Heard, Gone
    <3> QED
      BY <1>1, <2>1, <2>2, <3>1, <3>2
  <2>5. j - 1 \in 1..(i - 1) /\ j - 1 \in DOMAIN down' /\ (j - 1) + 1 = j
    BY <1>2, <2>4
  <2>6. down'[j - 1] = down[j]
    BY <1>2, <2>5
  <2> QED
    BY <2>1, <2>2, <2>5, <2>6
<1>6. FinishAhead'
  BY <1>5 DEF FinishAhead
<1>7. Aimed => Aimed'
  BY <1>2 DEF Aimed
<1> QED
  BY <1>4, <1>6, <1>7 DEF QueueInv

-----------------------------------------------------------------------------
(***************************************************************************)
(* Every step.                                                              *)
(***************************************************************************)

\* A handler other than the reply leaves the streams answered and armed as
\* AnsweredBegan and Learned ask for.
LEMMA HandlerBegan ==
  ASSUME IInv, AnsweredBegan, OrbEvent
  PROVE  AnsweredBegan' /\ ("speech" \in KindsWithId /\ Learned => Learned')
<1> DEFINE s == Event.sid
<1>1. s \in Streams
  BY EventFacts DEF OrbEvent, RequestReceived, DataIgnored, DataBuffered, EndpointObserved,
     EndpointReplied, AnsweredEnded, StreamAnswered, DownchannelOpened, AnswerRaises, StreamReset
<1>2. /\ endpointers \in [Streams -> {"none", "armed", "fired"}]
      /\ answered \subseteq Streams /\ dev_id \in {NoId, DeviceId}
  BY DEF IInv, TypeOK, OrbTypeOK
<1>3. CASE RequestReceived
  <2>1. s \notin hdrs
    BY <1>3, EventFacts DEF RequestReceived, Handling, IInv, Unheard
  <2>2. /\ UNCHANGED <<hdrs, answered>>
        /\ dev_id' = IF Event.kind \in KindsWithId THEN DeviceId ELSE dev_id
        /\ \/ endpointers' = endpointers
           \/ Event.kind = "speech" /\ endpointers' = [endpointers EXCEPT ![s] = "armed"]
    BY <1>3 DEF RequestReceived, history
  <2> HIDE DEF s
  <2> QED
    BY <1>1, <1>2, <2>1, <2>2 DEF AnsweredBegan, Learned
<1>4. CASE EndpointReplied
  <2>1. PICK room \in Rooms :
          /\ hdrs' = IF CanRespond(s) THEN hdrs \cup {s} ELSE hdrs
          /\ answered' = IF FinishSent(s, room) THEN answered \cup {s} ELSE answered
    BY <1>4 DEF EndpointReplied
  <2>2. endpointers' = [endpointers EXCEPT ![s] = "fired"] /\ dev_id' = dev_id
    BY <1>4 DEF EndpointReplied
  <2>3. FinishSent(s, room) => CanRespond(s)
    BY DEF FinishSent
  <2> HIDE DEF s
  <2> QED
    BY <1>1, <1>2, <2>1, <2>2, <2>3 DEF AnsweredBegan, Learned
<1>5. CASE StreamAnswered
  <2>1. /\ hdrs' = hdrs \cup {s} /\ answered' = answered \cup {s} /\ dev_id' = dev_id
        /\ endpointers' = [endpointers EXCEPT ![s] = "none"]
    BY <1>5 DEF StreamAnswered, Forget
  <2> HIDE DEF s
  <2> QED
    BY <1>1, <1>2, <2>1 DEF AnsweredBegan, Learned
<1>6. CASE DownchannelOpened
  BY <1>6 DEF DownchannelOpened, AnsweredBegan, Learned
<1>7. CASE \/ DataIgnored \/ DataBuffered \/ EndpointObserved \/ AnsweredEnded
           \/ AnswerRaises \/ StreamReset
  <2>1. /\ UNCHANGED <<hdrs, answered, dev_id>>
        /\ \/ endpointers' = endpointers
           \/ \E e \in {"none", "fired"} : endpointers' = [endpointers EXCEPT ![s] = e]
    BY <1>7 DEF DataIgnored, DataBuffered, EndpointObserved, AnsweredEnded, AnswerRaises,
       StreamReset, Forget, instance, history
  <2> HIDE DEF s
  <2> QED
    BY <1>1, <1>2, <2>1 DEF AnsweredBegan, Learned
<1> QED
  BY <1>3, <1>4, <1>5, <1>6, <1>7 DEF OrbEvent

\* What the device does next it does on streams of its own; the turn under way
\* stays open, and nothing else it does touches the server.
LEMMA DeviceTurn ==
  ASSUME IInv, TurnIsOpen,
         \/ \E k \in DeviceKinds : DeviceRequest(k)
         \/ \E s \in Streams : DeviceData(s) \/ DeviceEnd(s) \/ DeviceReset(s)
  PROVE  /\ TurnIsOpen' /\ UNCHANGED <<hdrs, answered, endpointers, dev_id, down, offered, missed>>
         /\ turn' \in {turn, NoStream} \/ offered[turn'] = 0
<1>1. /\ up \in [Streams -> {"idle", "open", "ended", "reset", "cancelled"}]
      /\ opened \in Nat /\ turn \in 0..MaxStreams /\ MaxStreams \in Nat
  BY OrbAssumption DEF IInv, TypeOK
<1>2. CASE \E k \in DeviceKinds : DeviceRequest(k)
  <2>1. PICK k \in DeviceKinds : DeviceRequest(k)
    BY <1>2
  <2> DEFINE s == opened + 1
  <2>2. /\ s \in Streams
        /\ up' = [up EXCEPT ![s] = IF Bodiless(k) THEN "ended" ELSE "open"]
        /\ turn' = IF k = "speech" THEN s ELSE turn
        /\ UNCHANGED <<hdrs, answered, endpointers, dev_id, down, offered, missed>>
    BY <1>1, <2>1 DEF DeviceRequest, Send, Streams, instance, history
  <2>3. offered[s] = 0 /\ up[s] = "idle"
    BY <1>1, <2>2 DEF IInv, Unopened
  <2>4. k = "speech" => ~Bodiless(k)
    BY DEF Bodiless
  <2> HIDE DEF s
  <2>5. TurnIsOpen'
    BY <1>1, <2>2, <2>3, <2>4 DEF TurnIsOpen, NoStream, Streams
  <2> QED
    BY <2>2, <2>3, <2>5
<1>3. ASSUME NEW s \in Streams, DeviceData(s)
      PROVE  /\ TurnIsOpen'
             /\ UNCHANGED <<hdrs, answered, endpointers, dev_id, down, offered, missed, turn>>
  BY <1>3 DEF DeviceData, Send, TurnIsOpen, instance, history
<1>4. ASSUME NEW s \in Streams, DeviceEnd(s) \/ DeviceReset(s)
      PROVE  /\ TurnIsOpen' /\ turn' \in {turn, NoStream}
             /\ UNCHANGED <<hdrs, answered, endpointers, dev_id, down, offered, missed>>
  <2>1. /\ \E u \in {"ended", "reset", "cancelled"} : up' = [up EXCEPT ![s] = u]
        /\ turn' = IF s = turn THEN NoStream ELSE turn
        /\ UNCHANGED <<hdrs, answered, endpointers, dev_id, down, offered, missed>>
    BY <1>4 DEF DeviceEnd, DeviceReset, Send, instance, history
  <2> QED
    BY <1>1, <2>1 DEF TurnIsOpen, NoStream, Streams
<1> QED
  BY <1>2, <1>3, <1>4

\* The steps that are neither a handler nor the device's sending or reading.
LEMMA OtherSteps ==
  ASSUME IInv, ReplyInv,
         \/ ReceiveData /\ UNCHANGED <<device, storage>>
         \/ Connect \/ Disconnect \/ Reboot
         \/ \E s \in Streams : GetAudio(s)
         \/ \E f \in Files : GetBin(f)
         \/ UNCHANGED vars
  PROVE  ReplyInv' /\ (IdInv => IdInv')
<1>0. TypeOK
  BY DEF IInv
<1>1. CASE Disconnect \/ Reboot
  <2>1. /\ down' = << >> /\ turn' = NoStream /\ missed' = {} /\ answered' = {} /\ hdrs' = {}
        /\ UNCHANGED <<endpointers, dev_id>>
    BY <1>1 DEF Disconnect, Reboot, ConnectionLost, DeviceDisconnected
  <2>2. DOMAIN down' = {}
    BY <2>1
  <2> QED
    BY <2>1, <2>2 DEF ReplyInv, AnsweredBegan, TurnIsOpen, RepliesOffered, FinishAhead, IdInv,
       Learned, Aimed
<1>2. CASE Connect
  <2>1. /\ UNCHANGED <<down, offered, turn, up, missed, answered, hdrs>>
        /\ endpointers' = [s \in Streams |-> "none"]
    BY <1>2 DEF Connect, ConnectionMade, device, history
  <2>2. AnsweredBegan' /\ TurnIsOpen' /\ Learned'
    BY <2>1 DEF ReplyInv, AnsweredBegan, TurnIsOpen, Learned
  <2>3. QueueInv' /\ (Aimed => Aimed')
    BY <1>0, <2>1, SameKeeps DEF ReplyInv, QueueInv
  <2> QED
    BY <2>1, <2>2, <2>3 DEF ReplyInv, QueueInv, IdInv
<1>3. CASE \/ ReceiveData /\ UNCHANGED <<device, storage>>
           \/ \E s \in Streams : GetAudio(s)
           \/ \E f \in Files : GetBin(f)
           \/ UNCHANGED vars
  <2>1. UNCHANGED <<down, offered, turn, up, missed, answered, hdrs, endpointers, dev_id>>
    BY <1>3 DEF ReceiveData, GetAudio, GetBin, vars, orbVars, transport, instance, history,
       device
  <2>2. AnsweredBegan' /\ TurnIsOpen' /\ (Learned => Learned')
    BY <2>1 DEF ReplyInv, AnsweredBegan, TurnIsOpen, Learned
  <2>3. QueueInv' /\ (Aimed => Aimed')
    BY <1>0, <2>1, SameKeeps DEF ReplyInv, QueueInv
  <2> QED
    BY <2>1, <2>2, <2>3 DEF ReplyInv, QueueInv, IdInv
<1> QED
  BY <1>1, <1>2, <1>3

LEMMA NextReplyInv ==
  ASSUME IInv, IInv', ReplyInv, [Next]_vars
  PROVE  ReplyInv' /\ (IdInv => IdInv')
<1>0. TypeOK
  BY DEF IInv
<1>1. CASE OrbEvent /\ UNCHANGED <<device, storage>>
  <2>1. AnsweredBegan' /\ ("speech" \in KindsWithId /\ Learned => Learned')
    BY <1>1, HandlerBegan DEF ReplyInv
  <2>2. TurnIsOpen' /\ missed' = missed /\ turn' = turn
    BY <1>1 DEF ReplyInv, TurnIsOpen, device
  <2>3. QueueInv' /\ (Learned /\ Aimed => Aimed')
    <3>1. CASE EndpointReplied
      BY <1>1, <3>1, ReplyKeeps
    <3>2. CASE ~EndpointReplied
      <4>1. offered' = offered
        BY <1>1, <3>2 DEF OrbEvent, RequestReceived, DataIgnored, DataBuffered,
           EndpointObserved, AnsweredEnded, StreamAnswered, DownchannelOpened, AnswerRaises,
           StreamReset, history
      <4>2. PICK q \in Seq(Message) : down' = down \o q /\ Without("expect", q)
        BY <1>0, <1>1, <3>2, HandlerSends
      <4> QED
        BY <1>0, <2>2, <4>1, <4>2, AppendKeeps DEF ReplyInv, QueueInv
    <3> QED
      BY <3>1, <3>2
  <2> QED
    BY <2>1, <2>2, <2>3 DEF ReplyInv, QueueInv, IdInv
<1>2. CASE \/ \E k \in DeviceKinds : DeviceRequest(k)
           \/ \E s \in Streams : DeviceData(s) \/ DeviceEnd(s) \/ DeviceReset(s)
  <2>1. /\ TurnIsOpen' /\ UNCHANGED <<hdrs, answered, endpointers, dev_id, down, offered, missed>>
        /\ turn' \in {turn, NoStream} \/ offered[turn'] = 0
    BY <1>2, DeviceTurn DEF ReplyInv
  <2>2. AnsweredBegan' /\ (Learned => Learned')
    BY <2>1 DEF ReplyInv, AnsweredBegan, Learned
  <2>3. QueueInv' /\ (Aimed => Aimed')
    BY <1>0, <2>1, SameKeeps DEF ReplyInv, QueueInv
  <2> QED
    BY <2>1, <2>2, <2>3 DEF ReplyInv, QueueInv, IdInv
<1>3. CASE DeviceRead
  <2>1. QueueInv' /\ (Aimed => Aimed')
    BY <1>0, <1>3, ReadKeeps
  <2>2. UNCHANGED <<hdrs, answered, endpointers, dev_id, up>> /\ turn' \in {turn, NoStream}
    BY <1>3 DEF DeviceRead, instance, history
  <2>3. AnsweredBegan' /\ TurnIsOpen' /\ (Learned => Learned')
    BY <2>2 DEF ReplyInv, AnsweredBegan, TurnIsOpen, Learned
  <2>4. ASSUME Aimed PROVE missed' = missed
    <3>1. Head(down) = down[1] /\ 1 \in DOMAIN down
      BY <1>0, <1>3 DEF DeviceRead, TypeOK, OrbTypeOK
    <3>2. Head(down).type = "expect" => Head(down).target = DeviceId
      BY <2>4, <3>1 DEF Aimed
    <3> QED
      BY <1>3, <3>2 DEF DeviceRead
  <2> QED
    BY <2>1, <2>3, <2>4 DEF ReplyInv, QueueInv, IdInv
<1>4. CASE \/ ReceiveData /\ UNCHANGED <<device, storage>>
           \/ Connect \/ Disconnect \/ Reboot
           \/ \E s \in Streams : GetAudio(s)
           \/ \E f \in Files : GetBin(f)
           \/ UNCHANGED vars
  BY <1>4, OtherSteps
<1> QED
  BY <1>1, <1>2, <1>3, <1>4, NextSteps

LEMMA InitReplyInv == Init => ReplyInv /\ IdInv
<1> SUFFICES ASSUME Init PROVE ReplyInv /\ IdInv
  OBVIOUS
<1>1. DOMAIN down = {}
  BY DEF Init, OrbInit
<1> QED
  BY <1>1 DEF Init, OrbInit, ReplyInv, AnsweredBegan, TurnIsOpen, RepliesOffered, FinishAhead,
     IdInv, Learned, Aimed

\* The invariant of the queue, beside that of OrbSystem_proofs.
THEOREM QueueInvariance == Spec => [](IInv /\ ReplyInv /\ IdInv)
<1>1. IInv /\ ReplyInv /\ IdInv /\ [Next]_vars => (IInv /\ ReplyInv /\ IdInv)'
  BY NextIInv, NextReplyInv
<1> QED
  BY <1>1, InitIInv, InitReplyInv, PTL DEF Spec

\* No reply is dropped for its target: the speech upload that is replied to
\* carried the device's id, and push_directive prefers it to the configured one.
THEOREM RepliesAreAimed == Spec => []NoReplyMissed
<1>1. IdInv => NoReplyMissed
  BY DEF IdInv, NoReplyMissed
<1> QED
  BY <1>1, QueueInvariance, PTL

\* The device never rejects the reply to the turn it is still capturing: what
\* on_endpoint sends first on the stream ends the turn before the reply is read.
THEOREM OwnReplyIsHeard == Spec => NeverRejectsOwnReply
<1>1. ASSUME IInv, ReplyInv, [Next]_vars, NEW s \in rejected' \ rejected
      PROVE  turn # s
  <2>1. CASE DeviceRead
    <3>1. TypeOK
      BY <1>1 DEF IInv
    <3>2. Head(down) = down[1] /\ 1 \in DOMAIN down
      BY <2>1, <3>1 DEF DeviceRead, TypeOK, OrbTypeOK
    <3>3. down[1].type = "expect" /\ s = down[1].about
      BY <1>1, <2>1, <3>2 DEF DeviceRead
    <3> QED
      BY <1>1, <3>2, <3>3 DEF ReplyInv, FinishAhead
  <2>2. CASE ~DeviceRead
    <3>1. rejected' \in {rejected, {}}
      BY <1>1, <2>2 DEF Next, Connect, Disconnect, Reboot, DeviceDisconnected, DeviceRequest,
         DeviceData, DeviceEnd, DeviceReset, GetAudio, GetBin, device, vars
    <3> QED
      BY <1>1, <3>1
  <2> QED
    BY <2>1, <2>2
<1>2. IInv /\ ReplyInv /\ [Next]_vars => [\A s \in rejected' \ rejected : turn # s]_vars
  BY <1>1
<1> QED
  BY <1>2, QueueInvariance, PTL DEF Spec, NeverRejectsOwnReply
=============================================================================
