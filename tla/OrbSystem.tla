------------------------------ MODULE OrbSystem ------------------------------
(***************************************************************************)
(* The server (Orb), its plain-HTTP side channel (_audio_http_client) and   *)
(* the device.  The device is firmware, outside src/: it is modelled from   *)
(* what the server relies on and the documents record of it                 *)
(* (docs/observed_protocol.md, docs/downchannel_reconnect.md):              *)
(*   - it opens /connect, posts events and uploads speech, one turn at a    *)
(*     time, resetting the stream of a turn the user re-triggers;           *)
(*   - it is "interacting" from the start of a turn until b"finish" arrives *)
(*     on that turn's stream or its capture window ends, and rejects every  *)
(*     directive meanwhile ([883]);                                         *)
(*   - it drops a directive aimed at another id ([426]);                    *)
(*   - it fetches the url of an ExpectSpeech, and each .bin of an asset     *)
(*     directive, over plain HTTP;                                          *)
(*   - it recycles the connection now and then, and may be switched off.    *)
(*                                                                          *)
(* One connection is served at a time: Orb instances share nothing but the  *)
(* module globals, of which only ASSET_SERVED changes while serving.        *)
(***************************************************************************)
EXTENDS Orb

CONSTANTS
  DeviceKinds,      \* requests this device makes
  MaxWire,          \* frames in flight to the server (bound)
  MaxConnects,      \* /connect streams of one connection (bound)
  ResetKinds,       \* streams this device may reset
  DropsFrames,      \* the connection may go with frames on their way to the server
  Files             \* names in ASSET_ANIMS, each with bytes in ASSET_FILE_BYTES

ASSUME OrbSystemAssumption ==
  /\ DeviceKinds \subseteq Kinds /\ ResetKinds \subseteq Kinds
  /\ MaxWire \in Nat /\ MaxConnects \in Nat
  /\ DropsFrames \in BOOLEAN
  /\ IsFiniteSet(Files)

VARIABLES
  opened,           \* streams the device opened on this connection: 1..opened
  asked,            \* what each of them asks for
  up,               \* the device's half of each stream; "reset" while it was
                    \* open, "cancelled" when it had been ended
  spoke,            \* DATA frames the device sent on each stream
  turn,             \* the stream of the turn being captured, or NoStream
  interacting,      \* the device's guard against background directives
  fetch,            \* turns whose ExpectSpeech url it is about to GET
  played,           \* turns whose reply it got
  rejected,         \* turns whose ExpectSpeech it rejected while interacting
  missed,           \* turns whose ExpectSpeech was aimed at another id
  directive,        \* what became of the last asset directive it read here
  want,             \* files it is about to download
  got               \* files it has

device == <<opened, asked, up, spoke, turn, interacting, fetch, played, rejected, missed,
            directive>>
storage == <<want, got>>
vars == <<orbVars, device, storage>>

Fates == {"none", "taken", "rejected", "missed", "lost"}

TypeOK ==
  /\ OrbTypeOK
  /\ opened \in 0..MaxStreams
  /\ asked \in [Streams -> Kinds \cup {"none"}]
  /\ up \in [Streams -> {"idle", "open", "ended", "reset", "cancelled"}]
  /\ spoke \in [Streams -> Nat]
  /\ turn \in 0..MaxStreams
  /\ interacting \in BOOLEAN
  /\ fetch \subseteq Streams
  /\ played \subseteq Streams
  /\ rejected \subseteq Streams
  /\ missed \subseteq Streams
  /\ directive \in Fates
  /\ want \subseteq Files
  /\ got \subseteq Files

Init ==
  /\ OrbInit
  /\ opened = 0
  /\ asked = [s \in Streams |-> "none"]
  /\ up = [s \in Streams |-> "idle"]
  /\ spoke = [s \in Streams |-> 0]
  /\ turn = NoStream /\ interacting = FALSE
  /\ fetch = {} /\ played = {} /\ rejected = {} /\ missed = {} /\ directive = "none"
  /\ want = {} /\ got = {}

(***************************************************************************)
(* The device.                                                              *)
(***************************************************************************)

Send(frames) ==
  /\ Len(wire) + Len(frames) <= MaxWire
  /\ wire' = wire \o frames
  /\ UNCHANGED <<link, batch, h2, hdrs, down, instance, history, ASSET_SERVED>>

\* A request without a body: HEADERS that end the stream.
Bodiless(k) == k \in {"connect", "audio"}

DeviceRequest(k) ==
  /\ link = "up" /\ opened < MaxStreams
  /\ k = "speech" => turn = NoStream
  /\ k = "connect" => Cardinality({s \in Streams : asked[s] = k}) < MaxConnects
  /\ LET s == opened + 1
     IN  /\ opened' = s
         /\ Send(IF Bodiless(k)
                 THEN <<[type |-> "req", sid |-> s, kind |-> k],
                        [type |-> "end", sid |-> s, kind |-> k]>>
                 ELSE <<[type |-> "req", sid |-> s, kind |-> k]>>)
         /\ asked' = [asked EXCEPT ![s] = k]
         /\ up' = [up EXCEPT ![s] = IF Bodiless(k) THEN "ended" ELSE "open"]
         /\ IF k = "speech" THEN turn' = s /\ interacting' = TRUE
            ELSE UNCHANGED <<turn, interacting>>
  /\ UNCHANGED <<spoke, fetch, played, rejected, missed, directive, storage>>

DeviceData(s) ==
  /\ link = "up" /\ up[s] = "open" /\ spoke[s] < MaxData
  /\ Send(<<[type |-> "data", sid |-> s, kind |-> asked[s]]>>)
  /\ spoke' = [spoke EXCEPT ![s] = @ + 1]
  /\ UNCHANGED <<opened, asked, up, turn, interacting, fetch, played, rejected, missed,
                 directive, storage>>

\* The upload ends: b"finish" ended the turn, its capture window is over, or
\* an event's body is complete.  The end of the window clears the guard.
DeviceEnd(s) ==
  /\ link = "up" /\ up[s] = "open"
  /\ s = turn => spoke[s] = MaxData
  /\ Send(<<[type |-> "end", sid |-> s, kind |-> asked[s]]>>)
  /\ up' = [up EXCEPT ![s] = "ended"]
  /\ IF s = turn THEN turn' = NoStream /\ interacting' = FALSE
     ELSE UNCHANGED <<turn, interacting>>
  /\ UNCHANGED <<opened, asked, spoke, fetch, played, rejected, missed, directive, storage>>

\* The device abandons a stream: the user re-triggers, or /connect is redone.
Gone(s) == up[s] \in {"reset", "cancelled"}

DeviceReset(s) ==
  /\ link = "up"
  /\ asked[s] \in ResetKinds
  /\ up[s] \in {"open", "ended"}
  /\ Send(<<[type |-> "rst", sid |-> s, kind |-> asked[s]]>>)
  /\ up' = [up EXCEPT ![s] = IF @ = "open" THEN "reset" ELSE "cancelled"]
  /\ IF s = turn THEN turn' = NoStream /\ interacting' = FALSE
     ELSE UNCHANGED <<turn, interacting>>
  /\ UNCHANGED <<opened, asked, spoke, fetch, played, rejected, missed, directive, storage>>

\* The device reads the next message of the server.  What arrives on a stream
\* it has reset is thrown away.
Heard(m) == ~Gone(m.sid)

\* What it does with an asset directive: a turn under way is a reason to drop it.
Fate(m) ==
  IF ~Heard(m) THEN "lost"
  ELSE IF m.target # DeviceId THEN "missed"
  ELSE IF interacting THEN "rejected"
  ELSE "taken"

DeviceRead ==
  /\ link = "up" /\ down # << >>
  /\ down' = Tail(down)
  /\ LET m == Head(down)
         aimed == m.target = DeviceId
     IN  /\ IF m.type = "finish" /\ Heard(m) /\ m.sid = turn
            THEN turn' = NoStream /\ interacting' = FALSE
            ELSE UNCHANGED <<turn, interacting>>
         /\ IF m.type = "expect" /\ Heard(m)
            THEN /\ missed' = IF aimed THEN missed ELSE missed \cup {m.about}
                 /\ rejected' = IF aimed /\ interacting THEN rejected \cup {m.about}
                                ELSE rejected
                 /\ fetch' = IF aimed /\ ~interacting THEN fetch \cup {m.about} ELSE fetch
            ELSE UNCHANGED <<missed, rejected, fetch>>
         /\ directive' = IF m.type = "anims" THEN Fate(m) ELSE directive
         /\ want' = IF m.type = "anims" /\ Fate(m) = "taken" THEN Files \ got ELSE want
  /\ UNCHANGED <<link, wire, batch, h2, hdrs, instance, history, ASSET_SERVED,
                 opened, asked, up, spoke, played, got>>

\* A new connection.
Connect ==
  /\ ConnectionMade
  /\ UNCHANGED <<device, storage>>

\* The device drops what belonged to the connection; its streams start over.
DeviceDisconnected ==
  /\ opened' = 0
  /\ asked' = [s \in Streams |-> "none"]
  /\ up' = [s \in Streams |-> "idle"]
  /\ spoke' = [s \in Streams |-> 0]
  /\ turn' = NoStream /\ interacting' = FALSE
  /\ fetch' = {} /\ played' = {} /\ rejected' = {} /\ missed' = {} /\ directive' = "none"

\* The connection goes: recycled by the idle monitor, or lost.  Downloads run
\* on a thread of their own and survive it.
Disconnect ==
  /\ ConnectionLost
  /\ DropsFrames \/ wire = << >>
  /\ DeviceDisconnected
  /\ UNCHANGED storage

\* The device is switched off or reboots: the downloads it meant to make are
\* forgotten, the files it has stay.
Reboot ==
  /\ ConnectionLost
  /\ DropsFrames \/ wire = << >>
  /\ want # {} /\ want' = {}
  /\ DeviceDisconnected
  /\ UNCHANGED got

(***************************************************************************)
(* The side channel: one request, served between two callbacks of Orb.      *)
(***************************************************************************)

\* Mutant of GetAudio: the opus was never built.
GetAudio_Unavailable(s) ==
  /\ batch = 0
  /\ s \in fetch
  /\ fetch' = fetch \ {s}
  /\ UNCHANGED <<orbVars, opened, asked, up, spoke, turn, interacting, played, rejected,
                 missed, directive, storage>>

\* GET /api/audio: 200 with the opus, or 503 without one.
GetAudio(s) ==
  /\ batch = 0
  /\ s \in fetch
  /\ fetch' = fetch \ {s}
  /\ played' = IF PlaceholderOpus THEN played \cup {s} ELSE played
  /\ UNCHANGED <<orbVars, opened, asked, up, spoke, turn, interacting, rejected, missed,
                 directive, storage>>

\* Mutant of GetBin: the download is not noted.
GetBin_Unnoted(f) ==
  /\ batch = 0
  /\ f \in want
  /\ want' = want \ {f}
  /\ got' = got \cup {f}
  /\ UNCHANGED <<orbVars, device>>

\* GET /persona/bin/<name>: the first one served stops every later push.
GetBin(f) ==
  /\ batch = 0
  /\ f \in want
  /\ want' = want \ {f}
  /\ got' = got \cup {f}
  /\ ASSET_SERVED' = TRUE
  /\ UNCHANGED <<instance, transport, history, device>>

Next ==
  \/ Connect \/ Disconnect \/ Reboot
  \/ RequestReceived /\ UNCHANGED <<device, storage>>
  \/ DataIgnored /\ UNCHANGED <<device, storage>>
  \/ DataBuffered /\ UNCHANGED <<device, storage>>
  \/ EndpointObserved /\ UNCHANGED <<device, storage>>
  \/ EndpointReplied /\ UNCHANGED <<device, storage>>
  \/ AnsweredEnded /\ UNCHANGED <<device, storage>>
  \/ StreamAnswered /\ UNCHANGED <<device, storage>>
  \/ DownchannelOpened /\ UNCHANGED <<device, storage>>
  \/ AnswerRaises /\ UNCHANGED <<device, storage>>
  \/ StreamReset /\ UNCHANGED <<device, storage>>
  \/ ReceiveData /\ UNCHANGED <<device, storage>>
  \/ \E k \in DeviceKinds : DeviceRequest(k)
  \/ \E s \in Streams : DeviceData(s) \/ DeviceEnd(s) \/ DeviceReset(s) \/ GetAudio(s)
  \/ DeviceRead
  \/ \E f \in Files : GetBin(f)

Spec == Init /\ [][Next]_vars

(***************************************************************************)
(* Fairness.  The event loop runs what is ready; TCP delivers while the     *)
(* connection lives; the device reads, goes on with an upload it began,     *)
(* ends it, and makes the fetches it decided on.  Downloading is strongly   *)
(* fair: a reboot interrupts it, not always.  Nothing makes a user speak.   *)
(***************************************************************************)
ServerStep == (OrbEvent \/ ReceiveData) /\ UNCHANGED <<device, storage>>

Fairness ==
  /\ WF_vars(ServerStep)
  /\ WF_vars(DeviceRead)
  /\ \A s \in Streams : WF_vars(DeviceData(s)) /\ WF_vars(DeviceEnd(s))
  /\ \A s \in Streams : WF_vars(GetAudio(s))
  /\ \A f \in Files : SF_vars(GetBin(f))
  /\ WF_vars(Connect) /\ WF_vars(link = "dead" /\ Disconnect)

FairSpec == Spec /\ Fairness

(***************************************************************************)
(* Safety.                                                                  *)
(***************************************************************************)

\* Between two calls of data_received the instance holds state for live
\* streams only ("Drop per-stream state so the dicts don't grow over a long
\* session"): whatever order uploads, early answers and resets came in, a
\* stream h2 has closed is forgotten.
NoLeakedState ==
  link = "up" /\ batch = 0 =>
    \A s \in Streams : kind[s] # "none" => h2[s] \notin {"idle", "closed"}

\* Nothing of stream s is still on its way to a handler.
Settled(s) ==
  /\ link = "up"
  /\ up[s] \notin {"idle", "open"}
  /\ \A i \in DOMAIN wire : wire[i].sid # s

\* Audio is not lost to re-triggers: once the server has seen the end or the
\* reset of an upload, all of it is on disk; if the server cut the turn short,
\* what it captured is exactly the utterance it saved for STT.
UploadBanked ==
  \A s \in Streams :
    Settled(s) =>
      \/ banked[s] = spoke[s]
      \/ /\ Reply /\ s \in answered
         /\ 0 < banked[s] /\ banked[s] < spoke[s]
         /\ utterance[s] \in {0, banked[s]}

\* A turn gets ExpectSpeech only if b"finish" went out on its stream before
\* (on_endpoint: "THEN (2) push ExpectSpeech"), or if the device had reset
\* that stream, so that there was no turn left to finish.
ReplyAfterFinish ==
  \A s \in Streams : offered[s] > 0 => s \in answered \/ Gone(s)

\* A turn is replied to at most once.
OneReplyPerTurn == \A s \in Streams : offered[s] <= 1

\* No reply is dropped for its target (olli_data_check_target_device): the id
\* the speech upload carried was learned before its reply was built, whatever
\* id the server was started with and however often the device reconnected.
NoReplyMissed == "speech" \in KindsWithId => missed = {}

\* An exception escapes data_received, and costs the connection, only if the
\* device reset a stream after ending it (both may arrive in one batch), or
\* the send window filled up.
NoEscapedException ==
  link = "dead" => WindowFills \/ \E s \in Streams : up[s] = "cancelled"

(***************************************************************************)
(* Action properties.                                                       *)
(***************************************************************************)

\* The device never rejects the reply to the turn it is still capturing: the
\* guard it checks was cleared by the b"finish" the reply follows.
NeverRejectsOwnReply == [][\A s \in rejected' \ rejected : turn # s]_vars

Anims(q) == Cardinality({i \in DOMAIN q : q[i].type = "anims"})

\* An asset directive is pushed only to a device that has none of the files
\* (whichever connection it fetched them after) and that was sent no directive
\* on this connection before, read or still on its way: neither the two places
\* that push nor a new downchannel make the device download again what it has.
PushesStop ==
  [][Anims(down') > Anims(down) => got = {} /\ directive = "none" /\ Anims(down) = 0]_vars

(***************************************************************************)
(* Liveness, under FairSpec.                                                *)
(***************************************************************************)

\* A speech upload the server knows of is closed and forgotten, or the
\* connection goes.
TurnCompletes ==
  \A s \in Streams : kind[s] = "speech" ~> kind[s] = "none" \/ link # "up"

\* A reply that was pushed is played, or the device turned it down, or the
\* connection went first.
ReplyReachesDevice ==
  \A s \in Streams :
    offered[s] > 0 ~> s \in played \cup rejected \cup missed \/ link # "up"
                      \/ \E c \in Streams : asked[c] = "connect" /\ Gone(c)

\* The connection has lasted until the device is up to date on a downchannel the
\* server knows, and no turn or abandoned /connect kept it from the directive.
LongEnough ==
  /\ link = "up" /\ batch = 0 /\ down = << >>
  /\ downchannel_sid # NoStream /\ CanSend(downchannel_sid)
  /\ directive \notin {"rejected", "lost"}

\* The device's id is known by the time /connect is handled: it was configured,
\* or /connect carries it.  An id that only uploads bring comes too late.
IdKnown == ConfiguredId = DeviceId \/ "connect" \in KindsWithId

\* "The server therefore pushes UpdateDefaultAssets on every downchannel open":
\* an armed server that can send and aim the directive gets a file fetched in the
\* end, if only such connections come again and again.  What was lost with a
\* connection, dropped for a turn, or forgotten in a reboot is pushed anew on the
\* next one.
AssetsDelivered ==
  AssetZip /\ AnimsFit /\ ~WindowFills /\ IdKnown /\ []<>LongEnough => <>ASSET_SERVED

(***************************************************************************)
(* What the comments and documents say and the code does not do.            *)
(***************************************************************************)

\* on_endpoint's comment: ExpectSpeech is pushed after b"finish" was sent.
FinishFirst == \A s \in Streams : offered[s] > 0 => s \in answered

\* "stops once the device GETs the zip": all of the pushed files.
ServedMeansDelivered == ASSET_SERVED => got = Files
=============================================================================
