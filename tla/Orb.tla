--------------------------------- MODULE Orb ---------------------------------
(***************************************************************************)
(* server/orb_server.py, class Orb: the asyncio protocol that answers one   *)
(* HTTP/2 connection of the ORB.  This module holds the state of the        *)
(* instance that serves the current connection, the part of the h2 library  *)
(* it relies on (per-stream state, sends that raise) and one action per     *)
(* event the instance handles.  OrbSystem adds the device, the plain-HTTP   *)
(* side channel and the loss of connections.                                *)
(*                                                                          *)
(* One data_received call gets a batch of bytes; h2 applies every frame of  *)
(* the batch to its stream states and only then hands the events over, one  *)
(* by one.  `batch' counts the events of the running call that are still to *)
(* be handled: they are the first `batch' frames of `wire', and h2 already  *)
(* knows of them.  asyncio is single-threaded, so no other callback of the  *)
(* server runs while batch > 0; the device runs all the time.               *)
(*                                                                          *)
(* Abstractions.  A body is the number of DATA events it holds.  A request  *)
(* is its kind: what :path, the meta envelope and is-record tell the code   *)
(* apart by.  Its dialogRequestId is named by its stream.  The endpointer   *)
(* is its contract (module TurnDetector): it fires at most once, at any     *)
(* frame, at the latest at the cap.  Captures are counted, not written.     *)
(***************************************************************************)
EXTENDS Naturals, Sequences, FiniteSets

CONSTANTS
  MaxStreams,       \* streams a connection can open (bound)
  MaxData,          \* DATA events of one stream (bound): the endpointer's cap
  Reply,            \* ENDPOINT_ACTION = "reply"
  VadOn,            \* VAD is not None
  AssetZip,         \* ASSET_ZIP is set: --push-anims
  PlaceholderOpus,  \* PLACEHOLDER_OPUS is not empty
  WindowFills,      \* the peer's flow-control window may be too small to send
  AnimsFit,         \* the asset directive fits into one DATA frame
  DeviceId,         \* the device's real id
  ConfiguredId,     \* DEVICE_ID: the placeholder, --device-id or ORB_DEVICE_ID
  NoId,             \* None
  KindsWithId       \* requests whose headers carry the device's id

Streams == 1..MaxStreams
NoStream == 0
Kinds == {"connect", "speech", "event", "assets", "audio"}
Ids == {DeviceId, ConfiguredId, NoId}

ASSUME OrbAssumption ==
  /\ MaxStreams \in Nat
  /\ MaxData \in Nat \ {0}
  /\ {Reply, VadOn, AssetZip, PlaceholderOpus, WindowFills, AnimsFit} \subseteq BOOLEAN
  /\ DeviceId # NoId /\ ConfiguredId # NoId
  /\ KindsWithId \subseteq Kinds

VARIABLES
  link,             \* the transport: "up", "dead" (an exception escaped) or "down"
  wire,             \* frames from the device the server has not handled
  batch,            \* how many of them the running data_received still holds
  h2,               \* state of each stream in the server's H2Connection
  hdrs,             \* streams the server sent response headers on
  kind,             \* paths, headers and dialog: "none" if the key is absent
  bodies,           \* DATA events accumulated, 0 if the key is absent
  endpointers,      \* "none" (absent), "armed" or "fired"
  responded,        \* streams ended early by on_endpoint
  downchannel_sid,  \* the tracked /connect stream, or NoStream
  dev_id,           \* id learned from this connection's headers, or NoId
  pushed_anims,     \* the asset directive was sent on this connection
  ASSET_SERVED,     \* module global: a .bin was fetched
  down,             \* messages of the server the device has not read
  banked,           \* DATA events of each stream in an audio_/events capture
  utterance,        \* DATA events of each stream in its utt_ capture
  answered,         \* history: streams the server sent END_STREAM on
  offered           \* history: ExpectSpeech messages sent for each stream

instance == <<kind, bodies, endpointers, responded, downchannel_sid, dev_id,
              pushed_anims>>
transport == <<link, wire, batch, h2, hdrs, down>>
history == <<banked, utterance, answered, offered>>
orbVars == <<instance, transport, history, ASSET_SERVED>>

Frame == [type : {"req", "data", "end", "rst"}, sid : Streams, kind : Kinds]
Message ==
  [type : {"expect"}, sid : Streams, about : Streams, target : Ids] \cup
  [type : {"finish", "ok", "session", "anims", "audio"},
   sid : Streams, about : Streams \cup {NoStream}, target : Ids]

OrbTypeOK ==
  /\ link \in {"up", "dead", "down"}
  /\ wire \in Seq(Frame)
  /\ batch \in 0..Len(wire)
  /\ h2 \in [Streams -> {"idle", "open", "half_remote", "half_local", "closed"}]
  /\ hdrs \subseteq Streams
  /\ kind \in [Streams -> Kinds \cup {"none"}]
  /\ bodies \in [Streams -> Nat]
  /\ endpointers \in [Streams -> {"none", "armed", "fired"}]
  /\ responded \subseteq Streams
  /\ downchannel_sid \in 0..MaxStreams
  /\ dev_id \in {NoId, DeviceId}
  /\ pushed_anims \in BOOLEAN
  /\ ASSET_SERVED \in BOOLEAN
  /\ down \in Seq(Message)
  /\ banked \in [Streams -> Nat]
  /\ utterance \in [Streams -> Nat]
  /\ answered \subseteq Streams
  /\ offered \in [Streams -> Nat]

(***************************************************************************)
(* The h2 library, as the server uses it.                                   *)
(***************************************************************************)

\* A send on a stream raises unless the stream can still carry server frames.
CanSend(s) == h2[s] \in {"open", "half_remote"}

\* A response starts with its headers; a second ":status" block is refused.
CanRespond(s) == CanSend(s) /\ s \notin hdrs

\* The state of a stream after the server's END_STREAM.
AfterEnd(st) == IF st = "half_remote" THEN "closed" ELSE "half_local"

\* The state of stream s once every frame of the batch b has been applied.
AfterBatch(b, s) ==
  LET has(t) == \E i \in DOMAIN b : b[i].type = t /\ b[i].sid = s
  IN  IF has("rst") THEN "closed"
      ELSE IF has("end")
           THEN IF h2[s] = "half_local" THEN "closed" ELSE "half_remote"
      ELSE IF has("req") THEN "open"
      ELSE h2[s]

\* What fits into the send window during one handler: nothing, a short body
\* (b"finish", the session-start) or any directive.
Rooms == IF WindowFills THEN {"none", "token", "all"} ELSE {"all"}

(***************************************************************************)
(* Helpers of the instance.                                                 *)
(***************************************************************************)

\* Mutant of TargetId: directives keep the configured id.
TargetId_Configured(learned) == ConfiguredId

\* Target of a directive: the learned id beats the configured one.
TargetId(learned) == IF learned # NoId THEN learned ELSE ConfiguredId

Msg(type, sid, about, target) ==
  [type |-> type, sid |-> sid, about |-> about, target |-> target]

\* push_directive: TRUE iff the directive goes out on downchannel dc.
Pushed(dc, room) == dc # NoStream /\ CanSend(dc) /\ room = "all"

\* The guard both call sites of _push_anims share.
AnimsWanted == AssetZip /\ ~pushed_anims /\ ~ASSET_SERVED

\* _push_anims: send_data refuses a frame larger than the peer takes, whatever
\* the window.
AnimsPushed(dc, room) == AnimsFit /\ Pushed(dc, room)

AnimsMsg(dc, learned) == Msg("anims", dc, NoStream, TargetId(learned))

\* The event being handled.
Event == Head(wire)

Handling(type) ==
  /\ link = "up"
  /\ batch > 0
  /\ Event.type = type

\* Mutant of NextEvent: the event is taken off the wire, not off the batch.
NextEvent_KeepsCount ==
  /\ wire' = Tail(wire)
  /\ batch' = batch

NextEvent ==
  /\ wire' = Tail(wire)
  /\ batch' = batch - 1

\* _persist: the body reaches the disk (an audio capture or events.log).
Persist(s) ==
  banked' = IF bodies[s] > 0 THEN [banked EXCEPT ![s] = bodies[s]] ELSE banked

\* Mutant of Forget: one dict is forgotten about.
Forget_KeepsPaths(s) ==
  /\ kind' = kind
  /\ bodies' = [bodies EXCEPT ![s] = 0]
  /\ endpointers' = [endpointers EXCEPT ![s] = "none"]
  /\ responded' = responded \ {s}

\* _forget: every per-stream key goes.
Forget(s) ==
  /\ kind' = [kind EXCEPT ![s] = "none"]
  /\ bodies' = [bodies EXCEPT ![s] = 0]
  /\ endpointers' = [endpointers EXCEPT ![s] = "none"]
  /\ responded' = responded \ {s}

(***************************************************************************)
(* The connection.                                                          *)
(***************************************************************************)

OrbInit ==
  /\ link = "down"
  /\ wire = << >> /\ batch = 0 /\ down = << >>
  /\ h2 = [s \in Streams |-> "idle"] /\ hdrs = {}
  /\ kind = [s \in Streams |-> "none"]
  /\ bodies = [s \in Streams |-> 0]
  /\ endpointers = [s \in Streams |-> "none"]
  /\ responded = {}
  /\ downchannel_sid = NoStream
  /\ dev_id = NoId
  /\ pushed_anims = FALSE
  /\ ASSET_SERVED = FALSE
  /\ banked = [s \in Streams |-> 0]
  /\ utterance = [s \in Streams |-> 0]
  /\ answered = {}
  /\ offered = [s \in Streams |-> 0]

\* Mutant of ConnectionMade: pushed_anims outlives its connection.
ConnectionMade_KeepsPushed ==
  /\ link = "down"
  /\ link' = "up"
  /\ kind' = [s \in Streams |-> "none"]
  /\ bodies' = [s \in Streams |-> 0]
  /\ endpointers' = [s \in Streams |-> "none"]
  /\ responded' = {}
  /\ downchannel_sid' = NoStream
  /\ dev_id' = NoId
  /\ UNCHANGED <<pushed_anims, wire, batch, h2, hdrs, down, history, ASSET_SERVED>>

\* __init__ and connection_made: a connection gets an instance of its own.
ConnectionMade ==
  /\ link = "down"
  /\ link' = "up"
  /\ kind' = [s \in Streams |-> "none"]
  /\ bodies' = [s \in Streams |-> 0]
  /\ endpointers' = [s \in Streams |-> "none"]
  /\ responded' = {}
  /\ downchannel_sid' = NoStream
  /\ dev_id' = NoId
  /\ pushed_anims' = FALSE
  /\ UNCHANGED <<wire, batch, h2, hdrs, down, history, ASSET_SERVED>>

\* connection_lost: the instance only clears downchannel_sid; what it still
\* holds in bodies is never written.  The H2Connection and whatever was in
\* flight go with the transport (and the history of its streams with them).
\* The same happens when h2 refuses a batch: data_received closes the
\* transport before it handles any event of it.
ConnectionLost ==
  /\ link # "down"
  /\ batch = 0
  /\ link' = "down"
  /\ downchannel_sid' = NoStream
  /\ wire' = << >> /\ down' = << >>
  /\ h2' = [s \in Streams |-> "idle"] /\ hdrs' = {}
  /\ banked' = [s \in Streams |-> 0]
  /\ utterance' = [s \in Streams |-> 0]
  /\ answered' = {}
  /\ offered' = [s \in Streams |-> 0]
  /\ UNCHANGED <<batch, kind, bodies, endpointers, responded, dev_id, pushed_anims,
                 ASSET_SERVED>>

\* An exception leaves data_received: asyncio closes the transport, the rest
\* of the batch is never handled.
Fatal ==
  /\ link' = "dead"
  /\ wire' = << >> /\ batch' = 0

(***************************************************************************)
(* data_received.                                                           *)
(***************************************************************************)

\* A read of the socket gives the first n frames to h2.
ReceiveData ==
  /\ link = "up" /\ batch = 0
  /\ \E n \in 1..Len(wire) :
       /\ batch' = n
       /\ h2' = [s \in Streams |-> AfterBatch(SubSeq(wire, 1, n), s)]
  /\ UNCHANGED <<link, wire, hdrs, down, instance, history, ASSET_SERVED>>

\* RequestReceived: record the stream, learn the device's id, gate the speech
\* upload, and answer the device's asset request if a push is armed.
RequestReceived ==
  /\ Handling("req")
  /\ NextEvent
  /\ LET s == Event.sid
         k == Event.kind
         learned == IF k \in KindsWithId THEN DeviceId ELSE dev_id
     IN  /\ kind' = [kind EXCEPT ![s] = k]
         /\ bodies' = [bodies EXCEPT ![s] = 0]
         /\ dev_id' = learned
         /\ endpointers' = IF VadOn /\ k = "speech"
                           THEN [endpointers EXCEPT ![s] = "armed"]
                           ELSE endpointers
         /\ \E room \in Rooms :
              IF AnimsWanted /\ k = "assets" /\ AnimsPushed(downchannel_sid, room)
              THEN /\ down' = Append(down, AnimsMsg(downchannel_sid, learned))
                   /\ pushed_anims' = TRUE
              ELSE UNCHANGED <<down, pushed_anims>>
  /\ UNCHANGED <<link, h2, hdrs, responded, downchannel_sid, ASSET_SERVED, history>>

\* DataReceived on a stream already answered: acknowledged and ignored.
DataIgnored ==
  /\ Handling("data")
  /\ Event.sid \in responded
  /\ NextEvent
  /\ UNCHANGED <<link, h2, hdrs, down, instance, history, ASSET_SERVED>>

\* Mutant of Firing: the endpointer fires again and again.
Firing_Again(s) ==
  IF endpointers[s] = "none" THEN {"none"}
  ELSE {"none", "endpoint", "initbail"}

\* The endpointer's answer to one more DATA event of stream s: it never fires
\* twice, and it has fired when the stream reaches the cap.  "endpoint" also
\* stands for "maxcap", which on_endpoint treats alike.
Firing(s) ==
  IF endpointers[s] # "armed" THEN {"none"}
  ELSE IF bodies[s] + 1 >= MaxData THEN {"endpoint", "initbail"}
  ELSE {"none", "endpoint", "initbail"}

\* on_endpoint, first half: the utterance is saved unless nobody spoke.
SaveUtterance(s, firing) ==
  utterance' = IF firing # "initbail" THEN [utterance EXCEPT ![s] = bodies[s] + 1]
               ELSE utterance

\* Mutant of DataBuffered: a chunk replaces the body.
DataBuffered_Overwrites ==
  /\ Handling("data")
  /\ LET s == Event.sid
     IN  /\ s \notin responded
         /\ "none" \in Firing(s)
         /\ bodies' = [bodies EXCEPT ![s] = 1]
  /\ NextEvent
  /\ UNCHANGED <<link, h2, hdrs, down, kind, endpointers, responded,
                 downchannel_sid, dev_id, pushed_anims, history, ASSET_SERVED>>

\* DataReceived that only accumulates.
DataBuffered ==
  /\ Handling("data")
  /\ LET s == Event.sid
     IN  /\ s \notin responded
         /\ "none" \in Firing(s)
         /\ bodies' = [bodies EXCEPT ![s] = @ + 1]
  /\ NextEvent
  /\ UNCHANGED <<link, h2, hdrs, down, kind, endpointers, responded,
                 downchannel_sid, dev_id, pushed_anims, history, ASSET_SERVED>>

\* DataReceived on which the endpointer fires, in observe mode: on_endpoint
\* saves the utterance and leaves the turn alone.
EndpointObserved ==
  /\ Handling("data")
  /\ ~Reply
  /\ LET s == Event.sid
     IN  /\ s \notin responded
         /\ \E firing \in Firing(s) \ {"none"} : SaveUtterance(s, firing)
         /\ bodies' = [bodies EXCEPT ![s] = @ + 1]
         /\ endpointers' = [endpointers EXCEPT ![s] = "fired"]
  /\ NextEvent
  /\ UNCHANGED <<link, h2, hdrs, down, kind, responded, downchannel_sid, dev_id,
                 pushed_anims, banked, answered, offered, ASSET_SERVED>>

\* Mutant of FinishSent: on_endpoint only pushes.
FinishSent_Never(s, room) == FALSE

\* on_endpoint (1): b"finish" goes out if the stream still takes a response
\* and the window has room.
FinishSent(s, room) == CanRespond(s) /\ room # "none"

\* Mutant of Responded: the early answer is not remembered.
Responded_Unset(s, finished) == responded

\* ... and only then the stream counts as answered.
Responded(s, finished) == IF finished THEN responded \cup {s} ELSE responded

\* Mutant of TurnEnd: the directive goes out first.
TurnEnd_PushFirst(s, finished, pushed) ==
  (IF pushed THEN <<Msg("expect", downchannel_sid, s, TargetId(dev_id))>>
             ELSE << >>)
  \o (IF finished THEN <<Msg("finish", s, s, NoId)>> ELSE << >>)

\* The messages of on_endpoint in reply mode for stream s, in the order they
\* go out: b"finish", then ExpectSpeech if the downchannel takes it.  The
\* second does not wait for the first.
TurnEnd(s, finished, pushed) ==
  (IF finished THEN <<Msg("finish", s, s, NoId)>> ELSE << >>)
  \o (IF pushed THEN <<Msg("expect", downchannel_sid, s, TargetId(dev_id))>>
                ELSE << >>)

\* DataReceived on which the endpointer fires, in reply mode.
EndpointReplied ==
  /\ Handling("data")
  /\ Reply
  /\ LET s == Event.sid
     IN  /\ s \notin responded
         /\ \E firing \in Firing(s) \ {"none"} : SaveUtterance(s, firing)
         /\ bodies' = [bodies EXCEPT ![s] = @ + 1]
         /\ endpointers' = [endpointers EXCEPT ![s] = "fired"]
         /\ \E room \in Rooms :
              LET finished == FinishSent(s, room)
                  pushed == Pushed(downchannel_sid, room)
              IN  /\ hdrs' = IF CanRespond(s) THEN hdrs \cup {s} ELSE hdrs
                  /\ h2' = IF finished THEN [h2 EXCEPT ![s] = AfterEnd(@)] ELSE h2
                  /\ responded' = Responded(s, finished)
                  /\ answered' = IF finished THEN answered \cup {s} ELSE answered
                  /\ down' = down \o TurnEnd(s, finished, pushed)
                  /\ offered' = IF pushed THEN [offered EXCEPT ![s] = @ + 1] ELSE offered
  /\ NextEvent
  /\ UNCHANGED <<link, kind, downchannel_sid, dev_id, pushed_anims, banked, ASSET_SERVED>>

\* Mutant of AnsweredEnded: the body is banked, the stream stays known.
AnsweredEnded_BanksOnly ==
  /\ Handling("end")
  /\ LET s == Event.sid
     IN  s \in responded /\ Persist(s)
  /\ NextEvent
  /\ UNCHANGED <<link, h2, hdrs, down, instance, utterance, answered, offered, ASSET_SERVED>>

\* StreamEnded on a stream on_endpoint answered: bank the body, forget it.
AnsweredEnded ==
  /\ Handling("end")
  /\ LET s == Event.sid
     IN  s \in responded /\ Persist(s) /\ Forget(s)
  /\ NextEvent
  /\ UNCHANGED <<link, h2, hdrs, down, downchannel_sid, dev_id, pushed_anims,
                 utterance, answered, offered, ASSET_SERVED>>

\* What handle() answers a stream of kind k with.
Answer(s) ==
  IF kind[s] = "audio" /\ PlaceholderOpus THEN Msg("audio", s, s, NoId)
  ELSE Msg("ok", s, s, NoId)

\* handle() on an event, an audio upload or a fetch of /api/audio: bank the
\* body, answer with END_STREAM, forget the stream.  (A 503 is an "ok" here:
\* a final response without a body.)
StreamAnswered ==
  /\ Handling("end")
  /\ LET s == Event.sid
     IN  /\ s \notin responded
         /\ kind[s] # "connect"
         /\ CanRespond(s)
         /\ Persist(s)
         /\ hdrs' = hdrs \cup {s}
         /\ h2' = [h2 EXCEPT ![s] = AfterEnd(@)]
         /\ answered' = answered \cup {s}
         /\ down' = Append(down, Answer(s))
         /\ Forget(s)
  /\ NextEvent
  /\ UNCHANGED <<link, downchannel_sid, dev_id, pushed_anims, utterance, offered,
                 ASSET_SERVED>>

\* handle() on /connect: track the stream as the downchannel, open the gate
\* with the session-start, push the assets if wanted; the stream stays open
\* and known.
DownchannelOpened ==
  /\ Handling("end")
  /\ LET s == Event.sid
     IN  /\ s \notin responded
         /\ kind[s] = "connect"
         /\ CanRespond(s)
         /\ Persist(s)
         /\ downchannel_sid' = s
         /\ hdrs' = hdrs \cup {s}
         /\ \E room \in Rooms \ {"none"} :
              LET session == Msg("session", s, NoStream, NoId)
                  pushing == AnimsWanted /\ AnimsPushed(s, room)
              IN  /\ down' = down \o <<session>>
                               \o (IF pushing THEN <<AnimsMsg(s, dev_id)>> ELSE << >>)
                  /\ pushed_anims' = (pushed_anims \/ pushing)
  /\ NextEvent
  /\ UNCHANGED <<link, h2, kind, bodies, endpointers, responded, dev_id,
                 utterance, answered, offered, ASSET_SERVED>>

\* handle() when a send raises: the stream was reset in the same batch, its
\* headers are out already, or the window is full.  The exception leaves
\* data_received after the body was banked.
AnswerRaises ==
  /\ Handling("end")
  /\ LET s == Event.sid
     IN  /\ s \notin responded
         /\ \/ ~CanRespond(s)
            \/ "none" \in Rooms /\ kind[s] = "connect"
            \/ "none" \in Rooms /\ kind[s] = "audio" /\ PlaceholderOpus
         /\ Persist(s)
         /\ downchannel_sid' = IF kind[s] = "connect" THEN s ELSE downchannel_sid
  /\ Fatal
  /\ UNCHANGED <<h2, hdrs, down, kind, bodies, endpointers, responded, dev_id,
                 pushed_anims, utterance, answered, offered, ASSET_SERVED>>

\* Mutant of StreamReset: the partial body is dropped.
StreamReset_Drops ==
  /\ Handling("rst")
  /\ Forget(Event.sid)
  /\ NextEvent
  /\ UNCHANGED <<link, h2, hdrs, down, downchannel_sid, dev_id, pushed_anims,
                 history, ASSET_SERVED>>

\* StreamReset: flush what arrived, forget the stream.  downchannel_sid keeps
\* its value even if the stream was the downchannel.
StreamReset ==
  /\ Handling("rst")
  /\ LET s == Event.sid
     IN  Persist(s) /\ Forget(s)
  /\ NextEvent
  /\ UNCHANGED <<link, h2, hdrs, down, downchannel_sid, dev_id, pushed_anims,
                 utterance, answered, offered, ASSET_SERVED>>

OrbEvent ==
  \/ RequestReceived \/ DataIgnored \/ DataBuffered
  \/ EndpointObserved \/ EndpointReplied
  \/ AnsweredEnded \/ StreamAnswered \/ DownchannelOpened \/ AnswerRaises
  \/ StreamReset

=============================================================================
