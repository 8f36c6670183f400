--------------------------- MODULE OrbStreams_proofs ---------------------------
(***************************************************************************)
(* The life of a stream, for every number of streams and configuration: an  *)
(* exception only leaves data_received when the device reset a stream it    *)
(* had ended or the window was full, and a stream h2 has closed is          *)
(* forgotten by the instance.                                               *)
(*                                                                          *)
(* h2 runs ahead of the handlers by the batch.  What it knows of a stream   *)
(* and the handlers do not is that it was ended or reset, and then the      *)
(* frame that did so is still in the batch: that is the invariant.          *)
(***************************************************************************)
EXTENDS OrbReplies_proofs

\* A frame of one of these types for stream s is in the batch, or on the wire.
InBatch(s, types) == \E i \in 1..batch : wire[i].sid = s /\ wire[i].type \in types
OnWire(s, types) == \E i \in DOMAIN wire : wire[i].sid = s /\ wire[i].type \in types
Coming(s, types) == \E i \in DOMAIN wire : i > batch /\ wire[i].sid = s /\ wire[i].type \in types

Closers == {"end", "rst"}

\* After the end of a stream only its reset follows, after the reset nothing.
ClosersLast ==
  \A i, j \in DOMAIN wire :
    i < j /\ wire[i].sid = wire[j].sid /\ wire[i].type \in Closers =>
      wire[i].type = "end" /\ wire[j].type = "rst"

\* The device has ended what an end on the wire ends.
ClosersSent ==
  \A i \in DOMAIN wire :
    /\ wire[i].type \in Closers => up[wire[i].sid] \notin {"idle", "open"}
    /\ wire[i].type = "end" => up[wire[i].sid] \in {"ended", "cancelled"}

\* h2 does not know a stream before its request.
StillIdle ==
  \A s \in Streams : s > opened \/ Coming(s, {"req"}) => h2[s] = "idle"

\* Until it learns of the end, the client's side of a stream is open.
OpenEnough ==
  link = "up" =>
    \A s \in Streams :
      up[s] = "open" \/ Coming(s, {"end"}) => h2[s] \in {"idle", "open", "half_local"}

\* A stream that is reset in the batch is closed; one h2 knows the end of is
\* the downchannel, or the handler of the end is still to run.
ResetApplied == \A s \in Streams : InBatch(s, {"rst"}) => h2[s] = "closed"
EndApplied ==
  link = "up" =>
    \A s \in Streams : h2[s] = "half_remote" => kind[s] = "connect" \/ InBatch(s, {"end"})

\* A stream answered early has the server's half ended.
RespondedIsEnded == link = "up" => \A s \in responded : h2[s] \in {"half_local", "closed"}

\* A stream the instance knows is one h2 knows, and if h2 has closed it what
\* will make the instance forget it is in the batch.
KnownIsOpen ==
  link = "up" =>
    \A s \in Streams :
      /\ kind[s] # "none" => h2[s] # "idle"
      /\ h2[s] = "closed" /\ (kind[s] # "none" \/ InBatch(s, {"req"})) => InBatch(s, Closers)

\* With room in the window, headers before the end mean the early answer.
HeadersOnce ==
  link = "up" /\ ~WindowFills =>
    \A s \in hdrs : up[s] = "open" \/ OnWire(s, {"end"}) => s \in responded

WireInv == ClosersLast /\ ClosersSent
StateInv ==
  /\ StillIdle /\ OpenEnough /\ ResetApplied /\ EndApplied /\ RespondedIsEnded
  /\ KnownIsOpen /\ HeadersOnce
StreamInv == WireInv /\ StateInv /\ NoEscapedException
-----------------------------------------------------------------------------
(***************************************************************************)
(* Handlers.                                                                *)
(***************************************************************************)

\* What a handler that returns does with stream s, whose event it takes off
\* the batch.
StreamStep(s) ==
  /\ wire' = Tail(wire) /\ batch' = batch - 1
  /\ UNCHANGED <<link, opened, up>>
  /\ \A t \in Streams \ {s} :
       /\ h2'[t] = h2[t] /\ kind'[t] = kind[t]
       /\ (t \in hdrs' <=> t \in hdrs) /\ (t \in responded' <=> t \in responded)
  /\ Event.type = "req" =>
       h2'[s] = h2[s] /\ (s \in hdrs' <=> s \in hdrs) /\ (s \in responded' <=> s \in responded)
  /\ Event.type = "data" =>
       /\ kind'[s] = kind[s] /\ (s \in responded => s \in responded')
       /\ \/ h2'[s] = h2[s] /\ (s \in responded' => s \in responded)
          \/ CanSend(s) /\ h2'[s] = AfterEnd(h2[s]) /\ kind[s] = "speech"
       /\ s \in hdrs' => s \in hdrs \/ WindowFills \/ s \in responded'
  /\ Event.type = "end" =>
       /\ s \notin responded'
       /\ \/ kind'[s] = "none" /\ h2'[s] = h2[s] /\ s \in responded
          \/ kind'[s] = "none" /\ CanSend(s) /\ h2'[s] = AfterEnd(h2[s])
          \/ kind'[s] = kind[s] /\ kind[s] = "connect" /\ CanSend(s) /\ h2'[s] = h2[s]
  /\ Event.type = "rst" => kind'[s] = "none" /\ h2'[s] = h2[s] /\ s \notin responded'

Taken(s) ==
  /\ Event.sid = s /\ batch > 0 /\ wire' = Tail(wire) /\ batch' = batch - 1

\* The wire without its first frame.
LEMMA Shifted ==
  ASSUME IInv, NEW s \in Streams, Taken(s)
  PROVE  /\ Len(wire) \in Nat /\ batch \in 1..Len(wire) /\ 1 \in DOMAIN wire
         /\ DOMAIN wire = 1..Len(wire) /\ wire[1] = Event
         /\ DOMAIN wire' = 1..(Len(wire) - 1)
         /\ \A i \in DOMAIN wire' : wire'[i] = wire[i + 1] /\ i + 1 \in DOMAIN wire
         /\ \A i \in DOMAIN wire :
              wire[i].sid \in Streams /\ wire[i].type \in {"req", "data", "end", "rst"}
<1>1. wire \in Seq(Frame) /\ batch \in 1..Len(wire) /\ Len(wire) > 0
  BY DEF IInv, TypeOK, OrbTypeOK, Taken
<1>2. /\ wire' \in Seq(Frame) /\ Len(wire') = Len(wire) - 1 /\ Event = wire[1]
      /\ \A i \in 1..Len(wire') : wire'[i] = wire[i + 1]
  BY <1>1, TailFacts DEF Taken, Event
<1>3. \A i \in 1..Len(wire) : wire[i] \in Frame
  BY <1>1
<1>4. \A i \in 1..Len(wire) :
        wire[i].sid \in Streams /\ wire[i].type \in {"req", "data", "end", "rst"}
  BY <1>3 DEF Frame
<1>5. Len(wire) \in Nat /\ DOMAIN wire = 1..Len(wire) /\ DOMAIN wire' = 1..Len(wire')
  BY <1>1, <1>2
<1> QED
  BY <1>1, <1>2, <1>4, <1>5

\* What is in the batch or on the wire behind the event was before.
LEMMA Behind ==
  ASSUME IInv, NEW s \in Streams, Taken(s), NEW t \in Streams, NEW T
  PROVE  /\ InBatch(t, T)' => InBatch(t, T)
         /\ OnWire(t, T)' => OnWire(t, T)
         /\ Coming(t, T)' => Coming(t, T)
         /\ InBatch(t, T) /\ (t # s \/ Event.type \notin T) => InBatch(t, T)'
<1>1. batch' = batch - 1 /\ Event.sid = s
  BY DEF Taken
<1>2. InBatch(t, T)' => InBatch(t, T)
  <2> SUFFICES ASSUME NEW i \in 1..batch', wire'[i].sid = t, wire'[i].type \in T
               PROVE  InBatch(t, T)
    BY DEF InBatch
  <2>1. i + 1 \in 1..batch /\ wire'[i] = wire[i + 1]
    BY <1>1, Shifted
  <2> QED
    BY <2>1 DEF InBatch
<1>3. OnWire(t, T)' => OnWire(t, T)
  BY Shifted DEF OnWire
<1>4. Coming(t, T)' => Coming(t, T)
  <2> SUFFICES ASSUME NEW i \in DOMAIN wire', i > batch', wire'[i].sid = t, wire'[i].type \in T
               PROVE  Coming(t, T)
    BY DEF Coming
  <2>1. i + 1 \in DOMAIN wire /\ wire'[i] = wire[i + 1] /\ i + 1 > batch
    BY <1>1, Shifted
  <2> QED
    BY <2>1 DEF Coming
<1>5. InBatch(t, T) /\ (t # s \/ Event.type \notin T) => InBatch(t, T)'
  <2> SUFFICES ASSUME NEW i \in 1..batch, wire[i].sid = t, wire[i].type \in T,
                      t # s \/ Event.type \notin T
               PROVE  InBatch(t, T)'
    BY DEF InBatch
  <2>1. i # 1
    BY <1>1, Shifted
  <2>2. i - 1 \in 1..batch' /\ i - 1 \in DOMAIN wire' /\ (i - 1) + 1 = i
    BY <1>1, <2>1, Shifted
  <2>3. wire'[i - 1] = wire[i]
    BY <2>2, Shifted
  <2> QED
    BY <2>2, <2>3 DEF InBatch
<1> QED
  BY <1>2, <1>3, <1>4, <1>5

\* Behind the end of a stream no other end, behind its reset nothing.
LEMMA BehindCloser ==
  ASSUME IInv, WireInv, NEW s \in Streams, Taken(s), Event.type \in Closers
  PROVE  ~OnWire(s, {"req"})' /\ ~OnWire(s, {"end"})' /\ up[s] \notin {"idle", "open"}
<1>1. \A i \in DOMAIN wire' : i + 1 \in DOMAIN wire /\ 1 < i + 1 /\ wire'[i] = wire[i + 1]
  BY Shifted
<1>2. 1 \in DOMAIN wire /\ wire[1] = Event /\ wire[1].sid = s
  BY Shifted DEF Taken
<1>3. up[s] \notin {"idle", "open"}
  BY <1>2 DEF WireInv, ClosersSent
<1>4. ASSUME NEW i \in DOMAIN wire', wire'[i].sid = s PROVE wire'[i].type = "rst"
  BY <1>1, <1>2, <1>4 DEF WireInv, ClosersLast
<1> QED
  BY <1>3, <1>4 DEF OnWire

LEMMA StreamStepInv ==
  ASSUME IInv, StreamInv, NEW s \in Streams, Event.sid = s, batch > 0, link = "up",
         StreamStep(s), hdrs' \subseteq Streams, responded' \subseteq Streams
  PROVE  StreamInv'
<1>1. Taken(s) /\ UNCHANGED <<link, opened, up>>
  BY DEF Taken, StreamStep
<1>2. /\ \A t \in Streams : h2[t] \in {"idle", "open", "half_remote", "half_local", "closed"}
      /\ hdrs \subseteq Streams /\ responded \subseteq Streams
  BY DEF IInv, TypeOK, OrbTypeOK
<1>3. 1 \in DOMAIN wire /\ wire[1] = Event /\ Event.type \in {"req", "data", "end", "rst"}
      /\ 1 \in 1..batch
  BY <1>1, Shifted
<1>4. \A t \in Streams :
        h2'[t] = h2[t] \/ (t = s /\ CanSend(s) /\ h2'[s] = AfterEnd(h2[s]))
  BY <1>3 DEF StreamStep
<1>5. h2[s] # "idle"
  BY <1>3 DEF IInv, BatchIsKnown
<1>6. Event.type \in Closers =>
        ~OnWire(s, {"req"})' /\ ~OnWire(s, {"end"})' /\ up[s] \notin {"idle", "open"}
  BY <1>1, BehindCloser DEF StreamInv
<1>7. ASSUME NEW t \in Streams
      PROVE  /\ Coming(t, {"req"})' => Coming(t, {"req"})
             /\ Coming(t, {"end"})' => Coming(t, {"end"})
             /\ OnWire(t, {"end"})' => OnWire(t, {"end"})
             /\ InBatch(t, {"rst"})' => InBatch(t, {"rst"})
             /\ InBatch(t, {"req"})' => InBatch(t, {"req"})
             /\ InBatch(t, {"end"}) /\ (t # s \/ Event.type # "end") => InBatch(t, {"end"})'
             /\ InBatch(t, Closers) /\ (t # s \/ Event.type \notin Closers) => InBatch(t, Closers)'
  <2>1. Coming(t, {"req"})' => Coming(t, {"req"})
    BY <1>1, Behind
  <2>2. Coming(t, {"end"})' => Coming(t, {"end"})
    BY <1>1, Behind
  <2>3. OnWire(t, {"end"})' => OnWire(t, {"end"})
    BY <1>1, Behind
  <2>4. InBatch(t, {"rst"})' => InBatch(t, {"rst"})
    BY <1>1, Behind
  <2>5. InBatch(t, {"req"})' => InBatch(t, {"req"})
    BY <1>1, Behind
  <2>6. InBatch(t, {"end"}) /\ (t # s \/ Event.type \notin {"end"}) => InBatch(t, {"end"})'
    BY <1>1, Behind
  <2>7. InBatch(t, Closers) /\ (t # s \/ Event.type \notin Closers) => InBatch(t, Closers)'
    BY <1>1, Behind
  <2> QED
    BY <2>1, <2>2, <2>3, <2>4, <2>5, <2>6, <2>7
<1>8. ClosersLast'
  <2> SUFFICES ASSUME NEW i \in DOMAIN wire', NEW j \in DOMAIN wire', i < j,
                      wire'[i].sid = wire'[j].sid, wire'[i].type \in Closers
               PROVE  wire'[i].type = "end" /\ wire'[j].type = "rst"
    BY DEF ClosersLast
  <2>1. /\ i + 1 \in DOMAIN wire /\ wire'[i] = wire[i + 1]
        /\ j + 1 \in DOMAIN wire /\ wire'[j] = wire[j + 1]
        /\ i + 1 < j + 1
    BY <1>1, Shifted
  <2> QED
    BY <2>1 DEF StreamInv, WireInv, ClosersLast
<1>9. ClosersSent'
  BY <1>1, Shifted DEF StreamInv, WireInv, ClosersSent
<1>10. StillIdle'
  <2> SUFFICES ASSUME NEW t \in Streams, t > opened \/ Coming(t, {"req"})' PROVE h2'[t] = "idle"
    BY <1>1 DEF StillIdle
  <2>1. h2[t] = "idle"
    BY <1>7 DEF StreamInv, StateInv, StillIdle
  <2> QED
    BY <1>4, <1>5, <2>1
<1>11. OpenEnough'
  <2> SUFFICES ASSUME NEW t \in Streams, up[t] = "open" \/ Coming(t, {"end"})'
               PROVE  h2'[t] \in {"idle", "open", "half_local"}
    BY <1>1 DEF OpenEnough
  <2>1. h2[t] \in {"idle", "open", "half_local"}
    BY <1>7 DEF StreamInv, StateInv, OpenEnough
  <2> QED
    BY <1>4, <2>1 DEF CanSend, AfterEnd
<1>12. ResetApplied'
  <2> SUFFICES ASSUME NEW t \in Streams, InBatch(t, {"rst"})' PROVE h2'[t] = "closed"
    BY DEF ResetApplied
  <2>1. h2[t] = "closed"
    BY <1>7 DEF StreamInv, StateInv, ResetApplied
  <2> QED
    BY <1>4, <2>1 DEF CanSend
<1>13. EndApplied'
  <2> SUFFICES ASSUME NEW t \in Streams, h2'[t] = "half_remote"
               PROVE  kind'[t] = "connect" \/ InBatch(t, {"end"})'
    BY DEF EndApplied
  <2>1. h2[t] = "half_remote" /\ (kind[t] = "connect" \/ InBatch(t, {"end"}))
    BY <1>4 DEF StreamInv, StateInv, EndApplied, AfterEnd
  <2>2. CASE t # s
    BY <1>7, <2>1, <2>2 DEF StreamStep
  <2>3. CASE t = s /\ Event.type = "req"
    <3>1. kind[s] = "none"
      BY <1>3, <2>3 DEF IInv, Unheard
    <3> QED
      BY <1>7, <2>1, <2>3, <3>1
  <2>4. CASE t = s /\ Event.type = "data"
    BY <1>7, <2>1, <2>4 DEF StreamStep
  <2>5. CASE t = s /\ Event.type = "end"
    <3>1. s \notin responded
      BY <2>1, <2>5 DEF StreamInv, StateInv, RespondedIsEnded
    <3> QED
      BY <2>1, <2>5, <3>1 DEF StreamStep, AfterEnd
  <2>6. CASE t = s /\ Event.type = "rst"
    <3>1. InBatch(s, {"rst"})
      BY <1>3, <2>6 DEF InBatch
    <3> QED
      BY <2>1, <2>6, <3>1 DEF StreamInv, StateInv, ResetApplied
  <2> QED
    BY <1>3, <2>2, <2>3, <2>4, <2>5, <2>6
<1>14. RespondedIsEnded'
  <2> SUFFICES ASSUME NEW t \in responded' PROVE h2'[t] \in {"half_local", "closed"}
    BY DEF RespondedIsEnded
  <2>0. \A u \in responded : h2[u] \in {"half_local", "closed"}
    BY DEF StreamInv, StateInv, RespondedIsEnded
  <2>1. CASE t = s
    BY <1>3, <1>4, <2>0, <2>1, AfterEndType DEF StreamStep
  <2>2. CASE t # s
    <3>1. t \in responded
      BY <2>2 DEF StreamStep
    <3> QED
      BY <1>2, <2>0, <2>2, <3>1 DEF StreamStep
  <2> QED
    BY <2>1, <2>2
<1>15. KnownIsOpen'
  <2> SUFFICES ASSUME NEW t \in Streams
               PROVE  /\ kind'[t] # "none" => h2'[t] # "idle"
                      /\ h2'[t] = "closed" /\ (kind'[t] # "none" \/ InBatch(t, {"req"})') =>
                           InBatch(t, Closers)'
    BY DEF KnownIsOpen
  <2>1. /\ kind[t] # "none" => h2[t] # "idle"
        /\ h2[t] = "closed" /\ (kind[t] # "none" \/ InBatch(t, {"req"})) => InBatch(t, Closers)
    BY DEF StreamInv, StateInv, KnownIsOpen
  <2>2. CASE t # s
    BY <1>7, <2>1, <2>2 DEF StreamStep
  <2>3. kind'[s] # "none" => h2'[s] # "idle"
    BY <1>4, <1>5, AfterEndType
  <2>4. CASE t = s /\ Event.type = "req"
    <3>1. InBatch(s, {"req"})
      BY <1>3, <2>4 DEF InBatch
    <3> QED
      BY <1>7, <2>1, <2>3, <2>4, <3>1 DEF StreamStep, Closers
  <2>5. CASE t = s /\ Event.type = "data"
    <3>1. CASE h2'[s] = h2[s]
      BY <1>7, <2>1, <2>3, <2>5, <3>1 DEF StreamStep, Closers
    <3>2. CASE h2'[s] # h2[s]
      <4>1. kind[s] = "speech" /\ CanSend(s) /\ h2'[s] = AfterEnd(h2[s])
        BY <2>5, <3>2 DEF StreamStep
      <4>2. h2'[s] = "closed" => h2[s] = "half_remote"
        BY <4>1 DEF AfterEnd
      <4>3. h2'[s] = "closed" => InBatch(s, {"end"})'
        BY <1>7, <2>5, <4>1, <4>2 DEF StreamInv, StateInv, EndApplied
      <4>4. InBatch(s, {"end"})' => InBatch(s, Closers)'
        BY DEF InBatch, Closers
      <4> QED
        BY <2>3, <2>5, <4>3, <4>4
    <3> QED
      BY <3>1, <3>2
  <2>6. CASE t = s /\ Event.type \in Closers
    <3>1. ~InBatch(s, {"req"})'
      <4>1. \A i \in 1..batch' : i \in DOMAIN wire'
        BY <1>1, Shifted DEF Taken
      <4> QED
        BY <1>6, <2>6, <4>1 DEF InBatch, OnWire
    <3>2. kind'[s] # "none" => h2'[s] # "closed"
      BY <2>6 DEF StreamStep, CanSend, Closers
    <3> QED
      BY <2>3, <2>6, <3>1, <3>2
  <2> QED
    BY <1>3, <2>2, <2>4, <2>5, <2>6 DEF Closers
<1>16. HeadersOnce'
  <2> SUFFICES ASSUME ~WindowFills, NEW t \in hdrs', up[t] = "open" \/ OnWire(t, {"end"})'
               PROVE  t \in responded'
    BY <1>1 DEF HeadersOnce
  <2>0. \A u \in hdrs : up[u] = "open" \/ OnWire(u, {"end"}) => u \in responded
    BY DEF StreamInv, StateInv, HeadersOnce
  <2>1. CASE t # s
    BY <1>2, <1>7, <2>0, <2>1 DEF StreamStep
  <2>2. CASE t = s
    BY <1>3, <1>6, <1>7, <2>0, <2>2 DEF StreamStep, Closers
  <2> QED
    BY <2>1, <2>2
<1>17. NoEscapedException'
  BY <1>1 DEF NoEscapedException
<1> QED
  BY <1>8, <1>9, <1>10, <1>11, <1>12, <1>13, <1>14, <1>15, <1>16, <1>17
     DEF StreamInv, WireInv, StateInv
\* The handlers, one by one.
LEMMA HandlerStreamStep ==
  ASSUME IInv, OrbEvent, ~AnswerRaises, UNCHANGED device
  PROVE  /\ StreamStep(Event.sid) /\ Event.sid \in Streams /\ batch > 0 /\ link = "up"
<1> DEFINE s == Event.sid
<1>1. /\ s \in Streams /\ batch > 0 /\ link = "up"
  BY EventFacts DEF OrbEvent, RequestReceived, DataIgnored, DataBuffered, EndpointObserved,
     EndpointReplied, AnsweredEnded, StreamAnswered, DownchannelOpened, StreamReset
<1>2. /\ wire' = Tail(wire) /\ batch' = batch - 1 /\ UNCHANGED <<link, opened, up>>
  BY DEF OrbEvent, RequestReceived, DataIgnored, DataBuffered, EndpointObserved,
     EndpointReplied, AnsweredEnded, StreamAnswered, DownchannelOpened, StreamReset, NextEvent,
     device
<1>3. /\ kind \in [Streams -> Kinds \cup {"none"}]
      /\ h2 \in [Streams -> {"idle", "open", "half_remote", "half_local", "closed"}]
  BY DEF IInv, TypeOK, OrbTypeOK
<1>4. CASE RequestReceived
  <2>1. /\ Event.type = "req" /\ kind' = [kind EXCEPT ![s] = Event.kind]
        /\ UNCHANGED <<h2, hdrs, responded>>
    BY <1>4 DEF RequestReceived, Handling
  <2> HIDE DEF s
  <2>2. StreamStep(s)
    BY <1>1, <1>2, <1>3, <2>1 DEF StreamStep, s
  <2> QED
    BY <1>1, <2>2 DEF s
<1>5. CASE DataIgnored \/ DataBuffered \/ EndpointObserved
  <2>1. Event.type = "data" /\ UNCHANGED <<h2, hdrs, kind, responded>>
    BY <1>5 DEF DataIgnored, DataBuffered, EndpointObserved, Handling, instance
  <2> QED
    BY <1>1, <1>2, <2>1 DEF StreamStep
<1>6. CASE EndpointReplied
  <2>1. Event.type = "data" /\ kind' = kind
    BY <1>6 DEF EndpointReplied, Handling
  <2>2. PICK room \in Rooms :
          /\ hdrs' = IF CanRespond(s) THEN hdrs \cup {s} ELSE hdrs
          /\ h2' = IF FinishSent(s, room) THEN [h2 EXCEPT ![s] = AfterEnd(@)] ELSE h2
          /\ responded' = IF FinishSent(s, room) THEN responded \cup {s} ELSE responded
    BY <1>6 DEF EndpointReplied, Responded
  <2>3. kind[s] = "speech"
    BY <1>1, <1>6, FiringArmed DEF EndpointReplied, IInv, Gated
  <2>4. FinishSent(s, room) => CanSend(s)
    BY DEF FinishSent, CanRespond
  <2>5. CanRespond(s) => FinishSent(s, room) \/ WindowFills
    BY <2>2 DEF FinishSent, Rooms
  <2> HIDE DEF s
  <2>6. CASE FinishSent(s, room)
    <3>1. /\ h2'[s] = AfterEnd(h2[s]) /\ s \in responded'
          /\ \A t \in Streams \ {s} :
               h2'[t] = h2[t] /\ (t \in hdrs' <=> t \in hdrs) /\ (t \in responded' <=> t \in responded)
      BY <1>1, <1>3, <2>2, <2>6
    <3> QED
      BY <1>1, <1>2, <2>1, <2>3, <2>4, <2>6, <3>1 DEF StreamStep, s
  <2>7. CASE ~FinishSent(s, room)
    <3>1. /\ UNCHANGED <<h2, responded>> /\ (s \in hdrs' => s \in hdrs \/ WindowFills)
          /\ \A t \in Streams \ {s} : t \in hdrs' <=> t \in hdrs
      BY <2>2, <2>5, <2>7
    <3> QED
      BY <1>1, <1>2, <2>1, <3>1 DEF StreamStep, s
  <2> QED
    BY <2>6, <2>7
<1>7. CASE AnsweredEnded
  <2>1. /\ Event.type = "end" /\ s \in responded /\ UNCHANGED <<h2, hdrs>>
        /\ kind' = [kind EXCEPT ![s] = "none"] /\ responded' = responded \ {s}
    BY <1>7 DEF AnsweredEnded, Handling, Forget
  <2> HIDE DEF s
  <2>2. StreamStep(s)
    BY <1>1, <1>2, <1>3, <2>1 DEF StreamStep, s
  <2> QED
    BY <1>1, <2>2 DEF s
<1>8. CASE StreamAnswered
  <2>1. /\ Event.type = "end" /\ CanSend(s) /\ hdrs' = hdrs \cup {s}
        /\ h2' = [h2 EXCEPT ![s] = AfterEnd(@)]
        /\ kind' = [kind EXCEPT ![s] = "none"] /\ responded' = responded \ {s}
    BY <1>8 DEF StreamAnswered, Handling, Forget, CanRespond
  <2> HIDE DEF s
  <2>2. StreamStep(s)
    BY <1>1, <1>2, <1>3, <2>1 DEF StreamStep, s
  <2> QED
    BY <1>1, <2>2 DEF s
<1>9. CASE DownchannelOpened
  <2>1. /\ Event.type = "end" /\ CanSend(s) /\ hdrs' = hdrs \cup {s} /\ s \notin responded
        /\ kind[s] = "connect" /\ UNCHANGED <<h2, kind, responded>>
    BY <1>9 DEF DownchannelOpened, Handling, CanRespond
  <2> QED
    BY <1>1, <1>2, <2>1 DEF StreamStep
<1>10. CASE StreamReset
  <2>1. /\ Event.type = "rst" /\ UNCHANGED <<h2, hdrs>>
        /\ kind' = [kind EXCEPT ![s] = "none"] /\ responded' = responded \ {s}
    BY <1>10 DEF StreamReset, Handling, Forget
  <2> HIDE DEF s
  <2>2. StreamStep(s)
    BY <1>1, <1>2, <1>3, <2>1 DEF StreamStep, s
  <2> QED
    BY <1>1, <2>2 DEF s
<1> QED
  BY <1>4, <1>5, <1>6, <1>7, <1>8, <1>9, <1>10 DEF OrbEvent

\* When a send raises, the stream was reset after it had been ended, or there
\* was no room: with room, an end is answered by a stream that has not begun.
LEMMA AnswerRaisesStream ==
  ASSUME IInv, StreamInv, AnsweredBegan, AnswerRaises, UNCHANGED device
  PROVE  StreamInv'
<1> DEFINE s == Event.sid
<1>1. /\ s \in Streams /\ Event = wire[1] /\ 1 \in DOMAIN wire /\ Event.type = "end"
      /\ link = "up" /\ batch > 0
  BY EventFacts DEF AnswerRaises, Handling
<1>2. /\ wire' = << >> /\ batch' = 0 /\ link' = "dead" /\ UNCHANGED <<h2, opened, up>>
  BY DEF AnswerRaises, Fatal, device
<1>3. DOMAIN wire' = {} /\ 1..batch' = {}
  BY <1>2
<1>4. WireInv'
  BY <1>3 DEF WireInv, ClosersLast, ClosersSent
<1>5. StillIdle' /\ ResetApplied'
  BY <1>2, <1>3 DEF StreamInv, StateInv, StillIdle, Coming, ResetApplied, InBatch
<1>6. OpenEnough' /\ EndApplied' /\ RespondedIsEnded' /\ KnownIsOpen' /\ HeadersOnce'
  BY <1>2 DEF OpenEnough, EndApplied, RespondedIsEnded, KnownIsOpen, HeadersOnce
<1>7. ASSUME ~WindowFills PROVE up[s] = "cancelled"
  <2>1. Rooms = {"all"}
    BY <1>7 DEF Rooms
  <2>2. s \notin responded /\ ~CanRespond(s)
    BY <2>1 DEF AnswerRaises
  <2>3. up[s] \in {"ended", "cancelled"}
    BY <1>1 DEF StreamInv, WireInv, ClosersSent
  <2>4. SUFFICES ASSUME up[s] = "ended" PROVE FALSE
    BY <2>3
  <2>5. OnWire(s, {"end"})
    BY <1>1 DEF OnWire
  <2>6. s \notin hdrs /\ s \notin answered
    BY <1>1, <1>7, <2>2, <2>5 DEF StreamInv, StateInv, HeadersOnce, AnsweredBegan
  <2>7. h2[s] # "half_local" /\ h2[s] # "closed"
    BY <1>1, <2>4, <2>6 DEF IInv, ClosedForAReason, Gone
  <2>8. h2[s] # "idle"
    <3>1. 1 \in 1..batch
      BY <1>1 DEF IInv, TypeOK, OrbTypeOK
    <3> QED
      BY <1>1, <3>1 DEF IInv, BatchIsKnown
  <2>9. h2[s] \in {"idle", "open", "half_remote", "half_local", "closed"}
    BY <1>1 DEF IInv, TypeOK, OrbTypeOK
  <2> QED
    BY <2>2, <2>6, <2>7, <2>8, <2>9 DEF CanRespond, CanSend
<1>8. NoEscapedException'
  BY <1>1, <1>2, <1>7 DEF NoEscapedException
<1> QED
  BY <1>4, <1>5, <1>6, <1>8 DEF StreamInv, StateInv
-----------------------------------------------------------------------------
(***************************************************************************)
(* The network and the device.                                              *)
(***************************************************************************)

\* h2 applies a batch: the handlers of what it learns are still to run.
LEMMA ReceiveDataStream ==
  ASSUME IInv, StreamInv, ReceiveData, UNCHANGED device PROVE StreamInv'
<1>1. PICK n \in 1..Len(wire) :
        /\ batch' = n
        /\ h2' = [s \in Streams |-> AfterBatch(SubSeq(wire, 1, n), s)]
  BY DEF ReceiveData
<1>2. /\ link = "up" /\ batch = 0 /\ UNCHANGED <<link, wire, hdrs, kind, responded, opened, up>>
  BY DEF ReceiveData, instance, device
<1>3. wire \in Seq(Frame) /\ n \in Nat /\ n <= Len(wire) /\ DOMAIN wire = 1..Len(wire)
  BY <1>1 DEF IInv, TypeOK, OrbTypeOK
<1> DEFINE b == SubSeq(wire, 1, n)
           has(s, t) == \E i \in 1..n : wire[i].type = t /\ wire[i].sid = s
<1>4. DOMAIN b = 1..n /\ \A i \in 1..n : b[i] = wire[i]
  BY <1>3
<1>5. ASSUME NEW s \in Streams
      PROVE  h2'[s] = IF has(s, "rst") THEN "closed"
                      ELSE IF has(s, "end")
                           THEN IF h2[s] = "half_local" THEN "closed" ELSE "half_remote"
                      ELSE IF has(s, "req") THEN "open"
                      ELSE h2[s]
  <2>1. h2'[s] = AfterBatch(b, s)
    BY <1>1
  <2> HIDE DEF b
  <2> QED
    BY <1>4, <2>1 DEF AfterBatch
<1>6. /\ \A i \in 1..n : i \in DOMAIN wire /\ i > batch /\ wire[i].sid \in Streams
      /\ \A i \in DOMAIN wire : wire[i].sid \in Streams
  <2>1. \A i \in 1..Len(wire) : wire[i] \in Frame
    BY <1>3
  <2> QED
    BY <1>2, <1>3, <2>1 DEF Frame
<1> HIDE DEF b, has
\* What h2 knew before, of what is in the batch.
<1>7. ASSUME NEW s \in Streams, has(s, "end") PROVE h2[s] \in {"idle", "open", "half_local"}
  <2>1. Coming(s, {"end"})
    BY <1>6, <1>7 DEF Coming, has
  <2> QED
    BY <1>2, <2>1 DEF StreamInv, StateInv, OpenEnough
<1>8. ASSUME NEW s \in Streams, has(s, "req") PROVE h2[s] = "idle"
  <2>1. Coming(s, {"req"})
    BY <1>6, <1>8 DEF Coming, has
  <2> QED
    BY <2>1 DEF StreamInv, StateInv, StillIdle
<1>9. ASSUME NEW s \in Streams
      PROVE  /\ InBatch(s, {"rst"})' <=> has(s, "rst")
             /\ InBatch(s, {"end"})' <=> has(s, "end")
             /\ InBatch(s, {"req"})' <=> has(s, "req")
             /\ InBatch(s, Closers)' <=> has(s, "rst") \/ has(s, "end")
  BY <1>1, <1>2 DEF InBatch, has, Closers
<1>10. WireInv' /\ NoEscapedException'
  BY <1>2 DEF StreamInv, WireInv, ClosersLast, ClosersSent, NoEscapedException
<1>11. StillIdle'
  <2> SUFFICES ASSUME NEW s \in Streams, s > opened \/ Coming(s, {"req"})' PROVE h2'[s] = "idle"
    BY <1>2 DEF StillIdle
  <2>1. Coming(s, {"req"})' => Coming(s, {"req"})
    BY <1>1, <1>2, <1>3 DEF Coming
  <2>2. h2[s] = "idle"
    BY <2>1 DEF StreamInv, StateInv, StillIdle
  <2>3. \A i \in 1..n : wire[i].sid # s
    <3>1. CASE s > opened
      <4>1. \A i \in DOMAIN wire : wire[i].sid <= opened
        BY DEF IInv, Unopened
      <4>2. opened \in Nat /\ s \in Nat /\ Streams \subseteq Nat
        BY DEF IInv, TypeOK, Streams
      <4> QED
        BY <1>6, <3>1, <4>1, <4>2
    <3>2. CASE Coming(s, {"req"})'
      <4>1. PICK i \in DOMAIN wire : i > n /\ wire[i].sid = s /\ wire[i].type = "req"
        BY <1>1, <1>2, <3>2 DEF Coming
      <4>2. \A j \in DOMAIN wire : wire[j].sid = s => i <= j
        BY <4>1 DEF IInv, RequestFirst
      <4> QED
        BY <1>3, <1>6, <4>1, <4>2
    <3> QED
      BY <3>1, <3>2
  <2> QED
    BY <1>5, <2>2, <2>3 DEF has
<1>12. OpenEnough'
  <2> SUFFICES ASSUME NEW s \in Streams, up[s] = "open" \/ Coming(s, {"end"})'
               PROVE  h2'[s] \in {"idle", "open", "half_local"}
    BY <1>2 DEF OpenEnough
  <2>1. Coming(s, {"end"})' => Coming(s, {"end"})
    BY <1>1, <1>2, <1>3 DEF Coming
  <2>2. h2[s] \in {"idle", "open", "half_local"}
    BY <1>2, <2>1 DEF StreamInv, StateInv, OpenEnough
  <2>3. ~has(s, "rst") /\ ~has(s, "end")
    <3>1. CASE up[s] = "open"
      BY <1>6, <3>1 DEF StreamInv, WireInv, ClosersSent, Closers, has
    <3>2. CASE Coming(s, {"end"})'
      <4>1. PICK i \in DOMAIN wire : i > n /\ wire[i].sid = s /\ wire[i].type = "end"
        BY <1>1, <1>2, <3>2 DEF Coming
      <4>2. \A j \in 1..n : j < i /\ j \in DOMAIN wire
        BY <1>3, <1>6, <4>1
      <4> QED
        BY <4>1, <4>2 DEF StreamInv, WireInv, ClosersLast, Closers, has
    <3> QED
      BY <3>1, <3>2
  <2> QED
    BY <1>5, <2>2, <2>3
<1>13. ResetApplied'
  BY <1>5, <1>9 DEF ResetApplied
<1>14. EndApplied'
  <2> SUFFICES ASSUME NEW s \in Streams, h2'[s] = "half_remote"
               PROVE  kind'[s] = "connect" \/ InBatch(s, {"end"})'
    BY DEF EndApplied
  <2>1. has(s, "end") \/ h2[s] = "half_remote"
    BY <1>5
  <2>2. ~InBatch(s, {"end"})
    BY <1>2 DEF InBatch
  <2> QED
    BY <1>2, <1>9, <2>1, <2>2 DEF StreamInv, StateInv, EndApplied
<1>15. RespondedIsEnded'
  <2> SUFFICES ASSUME NEW s \in responded PROVE h2'[s] \in {"half_local", "closed"}
    BY <1>2 DEF RespondedIsEnded
  <2>1. s \in Streams /\ h2[s] \in {"half_local", "closed"}
    BY <1>2 DEF IInv, TypeOK, OrbTypeOK, StreamInv, StateInv, RespondedIsEnded
  <2> QED
    BY <1>5, <1>7, <1>8, <2>1
<1>16. KnownIsOpen'
  <2> SUFFICES ASSUME NEW s \in Streams
               PROVE  /\ kind[s] # "none" => h2'[s] # "idle"
                      /\ h2'[s] = "closed" /\ (kind[s] # "none" \/ InBatch(s, {"req"})') =>
                           InBatch(s, Closers)'
    BY <1>2 DEF KnownIsOpen
  <2>1. ~InBatch(s, Closers)
    BY <1>2 DEF InBatch
  <2>2. /\ kind[s] # "none" => h2[s] # "idle"
        /\ h2[s] = "closed" => kind[s] = "none"
    BY <1>2, <2>1 DEF StreamInv, StateInv, KnownIsOpen
  <2>3. kind[s] # "none" => h2'[s] # "idle"
    BY <1>5, <2>2
  <2>4. h2'[s] = "closed" => has(s, "rst") \/ has(s, "end") \/ (h2[s] = "closed" /\ ~has(s, "req"))
    BY <1>5
  <2> QED
    BY <1>9, <2>2, <2>3, <2>4
<1>17. HeadersOnce'
  BY <1>2 DEF StreamInv, StateInv, HeadersOnce, OnWire
<1> QED
  BY <1>10, <1>11, <1>12, <1>13, <1>14, <1>15, <1>16, <1>17 DEF StreamInv, StateInv

\* The device sends frames on stream s, of the types in N.
Sent(s, N) ==
  /\ link = "up" /\ UNCHANGED <<link, batch, h2, hdrs, kind, responded>>
  /\ \A i \in DOMAIN wire : i \in DOMAIN wire' /\ wire'[i] = wire[i]
  /\ \A i \in DOMAIN wire' :
       i \in DOMAIN wire \/ (i > Len(wire) /\ wire'[i].sid = s /\ wire'[i].type \in N)
  /\ \A i, j \in DOMAIN wire' : Len(wire) < i /\ i < j => wire'[i].type = "req"
  /\ \A t \in Streams \ {s} : up'[t] = up[t]
  /\ \/ /\ s = opened + 1 /\ opened' = s
        /\ \/ N = {"req"} /\ up'[s] = "open"
           \/ N = {"req", "end"} /\ up'[s] = "ended"
     \/ N = {"data"} /\ up[s] = "open" /\ up'[s] = "open" /\ opened' = opened
     \/ N = {"end"} /\ up[s] = "open" /\ up'[s] = "ended" /\ opened' = opened
     \/ /\ N = {"rst"} /\ opened' = opened
        /\ \/ up[s] = "open" /\ up'[s] = "reset"
           \/ up[s] = "ended" /\ up'[s] = "cancelled"

LEMMA SentInv ==
  ASSUME IInv, StreamInv, NEW s \in Streams, NEW N, Sent(s, N)
  PROVE  StreamInv'
<1>1. /\ link = "up" /\ UNCHANGED <<link, batch, h2, hdrs, kind, responded>>
      /\ \A t \in Streams \ {s} : up'[t] = up[t]
      /\ opened' \in {opened, opened + 1} /\ opened \in Nat /\ Streams \subseteq Nat
      /\ Len(wire) \in Nat /\ DOMAIN wire = 1..Len(wire) /\ batch \in 0..Len(wire)
  BY DEF Sent, IInv, TypeOK, OrbTypeOK, Streams
<1>2. \A i \in DOMAIN wire :
        wire[i].sid \in Streams /\ wire[i].sid <= opened
  <2>1. \A i \in 1..Len(wire) : wire[i] \in Frame
    BY DEF IInv, TypeOK, OrbTypeOK
  <2> QED
    BY <1>1, <2>1 DEF IInv, Unopened, Frame
\* A stream that is new has left no trace.
<1>3. opened' # opened =>
        /\ s = opened + 1 /\ s \notin hdrs /\ h2[s] = "idle" /\ up[s] = "idle"
        /\ \A i \in DOMAIN wire : wire[i].sid # s
  <2>1. opened' # opened => s = opened + 1 /\ s > opened
    BY <1>1 DEF Sent
  <2> QED
    BY <1>1, <1>2, <2>1 DEF IInv, Unopened, StreamInv, StateInv, StillIdle
<1>4. /\ "end" \in N => up'[s] = "ended" /\ (up[s] = "open" \/ opened' # opened)
      /\ "req" \in N => opened' # opened
      /\ "rst" \in N => up'[s] \in {"reset", "cancelled"} /\ up[s] \in {"open", "ended"} /\ N = {"rst"}
      /\ "data" \in N => up[s] = "open" /\ N = {"data"}
      /\ N \subseteq {"req", "data", "end", "rst"}
  BY <1>1 DEF Sent
<1>5. up'[s] = "open" => up[s] = "open" \/ opened' # opened
  BY <1>1 DEF Sent
<1>6. up[s] = "ended" => up'[s] \in {"ended", "cancelled"}
  BY <1>1, <1>3 DEF Sent
<1>7. /\ \A i \in DOMAIN wire : i \in DOMAIN wire' /\ wire'[i] = wire[i]
      /\ \A i \in DOMAIN wire' :
           i \in DOMAIN wire \/ (i > Len(wire) /\ wire'[i].sid = s /\ wire'[i].type \in N)
      /\ \A i, j \in DOMAIN wire' : Len(wire) < i /\ i < j => wire'[i].type = "req"
  BY DEF Sent
<1>8. ASSUME NEW t \in Streams, NEW T PROVE InBatch(t, T)' <=> InBatch(t, T)
  <2>1. \A i \in 1..batch : i \in DOMAIN wire /\ wire'[i] = wire[i]
    BY <1>1, <1>7
  <2> QED
    BY <1>1, <2>1 DEF InBatch
<1>9. ASSUME NEW t \in Streams, NEW T
      PROVE  /\ Coming(t, T)' => Coming(t, T) \/ (t = s /\ \E x \in T : x \in N)
             /\ OnWire(t, T)' => OnWire(t, T) \/ (t = s /\ \E x \in T : x \in N)
  BY <1>1, <1>7 DEF Coming, OnWire
<1>10. ClosersLast'
  <2> SUFFICES ASSUME NEW i \in DOMAIN wire', NEW j \in DOMAIN wire', i < j,
                      wire'[i].sid = wire'[j].sid, wire'[i].type \in Closers
               PROVE  wire'[i].type = "end" /\ wire'[j].type = "rst"
    BY DEF ClosersLast
  <2>1. CASE i \in DOMAIN wire /\ j \in DOMAIN wire
    BY <1>7, <2>1 DEF StreamInv, WireInv, ClosersLast
  <2>2. CASE i \in DOMAIN wire /\ j \notin DOMAIN wire
    <3>1. wire[i].sid = s /\ wire[i].type \in Closers /\ wire'[j].type \in N /\ wire'[i] = wire[i]
      BY <1>7, <2>2
    <3>2. up[s] \notin {"idle", "open"}
      <4>1. \A k \in DOMAIN wire : wire[k].type \in Closers => up[wire[k].sid] \notin {"idle", "open"}
        BY DEF StreamInv, WireInv, ClosersSent
      <4>2. up[wire[i].sid] \notin {"idle", "open"}
        BY <2>2, <3>1, <4>1
      <4> QED
        BY <3>1, <4>2
    <3>3. N = {"rst"} /\ up[s] = "ended"
      BY <1>3, <1>4, <2>2, <3>1, <3>2
    <3>4. wire[i].type # "rst"
      BY <2>2, <3>1, <3>3 DEF IInv, ResetsAreGone, Gone
    <3> QED
      BY <3>1, <3>3, <3>4 DEF Closers
  <2>3. CASE i \notin DOMAIN wire
    BY <1>7, <2>3 DEF Closers
  <2> QED
    BY <2>1, <2>2, <2>3
<1>11. ClosersSent'
  <2> SUFFICES ASSUME NEW i \in DOMAIN wire'
               PROVE  /\ wire'[i].type \in Closers => up'[wire'[i].sid] \notin {"idle", "open"}
                      /\ wire'[i].type = "end" => up'[wire'[i].sid] \in {"ended", "cancelled"}
    BY DEF ClosersSent
  <2>1. CASE i \in DOMAIN wire
    <3>1. wire'[i] = wire[i] /\ wire[i].sid \in Streams
      BY <1>2, <1>7, <2>1
    <3>2. /\ wire[i].type \in Closers => up[wire[i].sid] \notin {"idle", "open"}
          /\ wire[i].type = "end" => up[wire[i].sid] \in {"ended", "cancelled"}
      BY <2>1 DEF StreamInv, WireInv, ClosersSent
    <3>3. CASE wire[i].sid # s
      BY <1>1, <3>1, <3>2, <3>3
    <3>4. CASE wire[i].sid = s
      <4>1. up[s] \notin {"idle", "open"} => up[s] = "ended" /\ N = {"rst"}
        BY <1>1, <1>3, <2>1, <3>4 DEF Sent
      <4>2. up[s] = "ended" => up'[s] = "cancelled" \/ up'[s] = "ended"
        BY <1>6
      <4> QED
        BY <3>1, <3>2, <3>4, <4>1, <4>2 DEF Closers
    <3> QED
      BY <3>3, <3>4
  <2>2. CASE i \notin DOMAIN wire
    BY <1>4, <1>7, <2>2 DEF Closers
  <2> QED
    BY <2>1, <2>2
<1>12. StillIdle'
  <2> SUFFICES ASSUME NEW t \in Streams, t > opened' \/ Coming(t, {"req"})' PROVE h2[t] = "idle"
    BY <1>1 DEF StillIdle
  <2>1. Coming(t, {"req"})' => Coming(t, {"req"}) \/ (t = s /\ "req" \in N)
    BY <1>9
  <2>2. t > opened' => t > opened
    BY <1>1
  <2> QED
    BY <1>3, <1>4, <2>1, <2>2 DEF StreamInv, StateInv, StillIdle
<1>13. OpenEnough'
  <2> SUFFICES ASSUME NEW t \in Streams, up'[t] = "open" \/ Coming(t, {"end"})'
               PROVE  h2[t] \in {"idle", "open", "half_local"}
    BY <1>1 DEF OpenEnough
  <2>1. Coming(t, {"end"})' => Coming(t, {"end"}) \/ (t = s /\ "end" \in N)
    BY <1>9
  <2>2. \/ up[t] = "open" \/ Coming(t, {"end"})
        \/ t = s /\ opened' # opened
    BY <1>1, <1>4, <1>5, <2>1
  <2> QED
    BY <1>1, <1>3, <2>2 DEF StreamInv, StateInv, OpenEnough
<1>14. ResetApplied' /\ EndApplied' /\ RespondedIsEnded' /\ KnownIsOpen'
  <2>1. ResetApplied'
    BY <1>1, <1>8 DEF StreamInv, StateInv, ResetApplied
  <2>2. EndApplied'
    BY <1>1, <1>8 DEF StreamInv, StateInv, EndApplied
  <2>3. RespondedIsEnded'
    BY <1>1 DEF StreamInv, StateInv, RespondedIsEnded
  <2>4. KnownIsOpen'
    BY <1>1, <1>8 DEF StreamInv, StateInv, KnownIsOpen
  <2> QED
    BY <2>1, <2>2, <2>3, <2>4
<1>15. HeadersOnce'
  <2> SUFFICES ASSUME ~WindowFills, NEW t \in hdrs, up'[t] = "open" \/ OnWire(t, {"end"})'
               PROVE  t \in responded
    BY <1>1 DEF HeadersOnce
  <2>0. t \in Streams
    BY DEF IInv, TypeOK, OrbTypeOK
  <2>1. OnWire(t, {"end"})' => OnWire(t, {"end"}) \/ (t = s /\ "end" \in N)
    BY <1>9, <2>0
  <2>2. \/ up[t] = "open" \/ OnWire(t, {"end"})
        \/ t = s /\ opened' # opened
    BY <1>1, <1>4, <1>5, <2>0, <2>1
  <2> QED
    BY <1>1, <1>3, <2>2 DEF StreamInv, StateInv, HeadersOnce
<1>16. NoEscapedException'
  BY <1>1 DEF NoEscapedException
<1> QED
  BY <1>10, <1>11, <1>12, <1>13, <1>14, <1>15, <1>16 DEF StreamInv, WireInv, StateInv

\* Every send of the device is one of those.
LEMMA DeviceSentStep ==
  ASSUME IInv, NEW s \in Streams, DeviceData(s) \/ DeviceEnd(s) \/ DeviceReset(s)
  PROVE  \E N : Sent(s, N)
<1>1. /\ asked[s] \in Kinds /\ wire \in Seq(Frame) /\ Len(wire) \in Nat
      /\ up \in [Streams -> {"idle", "open", "ended", "reset", "cancelled"}]
  BY DEF IInv, TypeOK, OrbTypeOK, Asked, DeviceData, DeviceEnd, DeviceReset
<1>2. ASSUME NEW type \in {"req", "data", "end", "rst"},
             Send(<<[type |-> type, sid |-> s, kind |-> asked[s]]>>)
      PROVE  /\ UNCHANGED <<link, batch, h2, hdrs, kind, responded>>
             /\ \A i \in DOMAIN wire : i \in DOMAIN wire' /\ wire'[i] = wire[i]
             /\ \A i \in DOMAIN wire' :
                  i \in DOMAIN wire \/ (i > Len(wire) /\ wire'[i].sid = s /\ wire'[i].type \in {type})
             /\ \A i, j \in DOMAIN wire' : Len(wire) < i /\ i < j => wire'[i].type = "req"
  <2> DEFINE f == [type |-> type, sid |-> s, kind |-> asked[s]]
  <2>1. f \in Frame /\ f.sid = s /\ f.type = type
    BY <1>1, FrameType
  <2>2. wire' = wire \o <<f>> /\ UNCHANGED <<link, batch, h2, hdrs, kind, responded>>
    BY <1>2 DEF Send, instance
  <2> HIDE DEF f
  <2>3. <<f>> \in Seq(Frame) /\ Len(<<f>>) = 1 /\ <<f>>[1] = f
    BY <2>1
  <2>4. /\ wire' \in Seq(Frame) /\ Len(wire') = Len(wire) + 1
        /\ \A i \in 1..Len(wire) : wire'[i] = wire[i]
        /\ \A i \in 1..1 : wire'[Len(wire) + i] = <<f>>[i]
    BY <1>1, <2>2, <2>3, ConcatFacts
  <2>5. wire'[Len(wire) + 1] = f
    BY <2>3, <2>4
  <2>6. DOMAIN wire = 1..Len(wire) /\ DOMAIN wire' = 1..(Len(wire) + 1)
    BY <1>1, <2>4
  <2>7. \A i \in DOMAIN wire' : i \in 1..Len(wire) \/ i = Len(wire) + 1
    BY <1>1, <2>6
  <2> QED
    BY <1>1, <2>1, <2>2, <2>4, <2>5, <2>6, <2>7
<1>3. CASE DeviceData(s)
  <2>1. /\ Send(<<[type |-> "data", sid |-> s, kind |-> asked[s]]>>)
        /\ link = "up" /\ up[s] = "open" /\ UNCHANGED <<up, opened>>
    BY <1>3 DEF DeviceData
  <2>2. Sent(s, {"data"})
    BY <1>2, <2>1 DEF Sent
  <2> QED
    BY <2>2
<1>4. CASE DeviceEnd(s)
  <2>1. /\ Send(<<[type |-> "end", sid |-> s, kind |-> asked[s]]>>)
        /\ link = "up" /\ up[s] = "open" /\ opened' = opened
        /\ up' = [up EXCEPT ![s] = "ended"]
    BY <1>4 DEF DeviceEnd
  <2>2. Sent(s, {"end"})
    BY <1>1, <1>2, <2>1 DEF Sent
  <2> QED
    BY <2>2
<1>5. CASE DeviceReset(s)
  <2>1. /\ Send(<<[type |-> "rst", sid |-> s, kind |-> asked[s]]>>)
        /\ link = "up" /\ up[s] \in {"open", "ended"} /\ opened' = opened
        /\ up' = [up EXCEPT ![s] = IF @ = "open" THEN "reset" ELSE "cancelled"]
    BY <1>5 DEF DeviceReset
  <2>2. Sent(s, {"rst"})
    BY <1>1, <1>2, <2>1 DEF Sent
  <2> QED
    BY <2>2
<1> QED
  BY <1>3, <1>4, <1>5

LEMMA DeviceRequestSent ==
  ASSUME IInv, NEW k \in DeviceKinds, DeviceRequest(k)
  PROVE  opened + 1 \in Streams /\ \E N : Sent(opened + 1, N)
<1> DEFINE s == opened + 1
           req == [type |-> "req", sid |-> s, kind |-> k]
           end == [type |-> "end", sid |-> s, kind |-> k]
<1>1. /\ link = "up" /\ opened' = s
      /\ UNCHANGED <<link, batch, h2, hdrs, kind, responded>>
      /\ \/ wire' = wire \o <<req>> /\ up' = [up EXCEPT ![s] = "open"]
         \/ wire' = wire \o <<req, end>> /\ up' = [up EXCEPT ![s] = "ended"]
  BY DEF DeviceRequest, Send, instance
<1>2. /\ s \in Streams /\ k \in Kinds
      /\ wire \in Seq(Frame) /\ Len(wire) \in Nat /\ DOMAIN wire = 1..Len(wire)
      /\ up \in [Streams -> {"idle", "open", "ended", "reset", "cancelled"}]
  <2>1. opened \in Nat /\ opened < MaxStreams /\ MaxStreams \in Nat /\ k \in Kinds
    BY OrbAssumption, OrbSystemAssumption DEF DeviceRequest, IInv, TypeOK
  <2>2. /\ wire \in Seq(Frame)
        /\ up \in [Streams -> {"idle", "open", "ended", "reset", "cancelled"}]
    BY DEF IInv, TypeOK, OrbTypeOK
  <2>3. Len(wire) \in Nat /\ DOMAIN wire = 1..Len(wire)
    BY <2>2
  <2> QED
    BY <2>1, <2>2, <2>3 DEF Streams
<1>3. /\ req \in Frame /\ end \in Frame /\ req.sid = s /\ req.type = "req"
      /\ end.sid = s /\ end.type = "end"
  BY <1>2, FrameType
<1> HIDE DEF req, end, s
<1>4. <<req>> \in Seq(Frame) /\ <<req, end>> \in Seq(Frame)
  BY <1>3
<1>5. CASE wire' = wire \o <<req>> /\ up' = [up EXCEPT ![s] = "open"]
  <2>1. /\ wire' \in Seq(Frame) /\ Len(wire') = Len(wire) + Len(<<req>>)
        /\ \A i \in 1..Len(wire) : wire'[i] = wire[i]
        /\ \A i \in 1..Len(<<req>>) : wire'[Len(wire) + i] = <<req>>[i]
    BY <1>2, <1>4, <1>5, ConcatFacts
  <2>2. wire'[Len(wire) + 1] = req /\ DOMAIN wire' = 1..(Len(wire) + 1)
    BY <1>2, <2>1
  <2>3. \A i \in DOMAIN wire' : i \in 1..Len(wire) \/ i = Len(wire) + 1
    BY <1>2, <2>2
  <2>4. Sent(s, {"req"})
    BY <1>1, <1>2, <1>3, <1>5, <2>1, <2>2, <2>3 DEF Sent, s
  <2> QED
    BY <1>2, <2>4 DEF s
<1>6. CASE wire' = wire \o <<req, end>> /\ up' = [up EXCEPT ![s] = "ended"]
  <2>1. /\ wire' \in Seq(Frame) /\ Len(wire') = Len(wire) + Len(<<req, end>>)
        /\ \A i \in 1..Len(wire) : wire'[i] = wire[i]
        /\ \A i \in 1..Len(<<req, end>>) : wire'[Len(wire) + i] = <<req, end>>[i]
    BY <1>2, <1>4, <1>6, ConcatFacts
  <2>2. Len(<<req, end>>) = 2 /\ 1 \in 1..2 /\ 2 \in 1..2
    OBVIOUS
  <2>3. /\ wire'[Len(wire) + 1] = req /\ wire'[Len(wire) + 2] = end
        /\ DOMAIN wire' = 1..(Len(wire) + 2)
    BY <1>2, <2>1, <2>2
  <2>4. \A i \in DOMAIN wire' : i \in 1..Len(wire) \/ i = Len(wire) + 1 \/ i = Len(wire) + 2
    BY <1>2, <2>3
  <2>5. Sent(s, {"req", "end"})
    BY <1>1, <1>2, <1>3, <1>6, <2>1, <2>3, <2>4 DEF Sent, s
  <2> QED
    BY <1>2, <2>5 DEF s
<1> QED
  BY <1>1, <1>5, <1>6

\* A connection that begins or ends has no streams.
LEMMA AfreshStream ==
  ASSUME StreamInv, IInv, Connect \/ Disconnect \/ Reboot
  PROVE  StreamInv'
<1>1. /\ wire' = << >> /\ batch' = 0
      /\ \A s \in Streams : h2'[s] = "idle" /\ s \notin hdrs'
      /\ hdrs' \subseteq Streams /\ link' \in {"up", "down"}
      /\ link' = "up" => responded' = {} /\ \A s \in Streams : kind'[s] = "none"
  <2>1. CASE Connect
    <3>1. /\ link = "down" /\ kind' = [s \in Streams |-> "none"] /\ responded' = {}
          /\ link' = "up" /\ UNCHANGED <<wire, batch, h2, hdrs>>
      BY <2>1 DEF Connect, ConnectionMade
    <3>2. wire = << >> /\ opened = 0 /\ batch = 0 /\ hdrs \subseteq Streams
      BY <3>1 DEF IInv, QuietWhenDown, TypeOK, OrbTypeOK
    <3>3. \A s \in Streams : s > opened
      BY <3>2, OrbAssumption DEF Streams
    <3>4. \A s \in Streams : h2[s] = "idle" /\ s \notin hdrs
      BY <3>3 DEF StreamInv, StateInv, StillIdle, IInv, Unopened
    <3> QED
      BY <3>1, <3>2, <3>4
  <2>2. CASE Disconnect \/ Reboot
    BY <2>2 DEF Disconnect, Reboot, ConnectionLost
  <2> QED
    BY <2>1, <2>2
<1>2. DOMAIN wire' = {} /\ 1..batch' = {}
  BY <1>1
<1>3. WireInv' /\ ResetApplied'
  BY <1>2 DEF WireInv, ClosersLast, ClosersSent, ResetApplied, InBatch
<1>4. StillIdle' /\ OpenEnough' /\ EndApplied' /\ KnownIsOpen'
  BY <1>1 DEF StillIdle, OpenEnough, EndApplied, KnownIsOpen
<1>5. RespondedIsEnded' /\ HeadersOnce' /\ NoEscapedException'
  BY <1>1 DEF RespondedIsEnded, HeadersOnce, NoEscapedException
<1> QED
  BY <1>3, <1>4, <1>5 DEF StreamInv, StateInv

LEMMA ElsewhereStream ==
  ASSUME StreamInv,
         UNCHANGED <<link, wire, batch, h2, hdrs, kind, responded, opened, up>>
  PROVE  StreamInv'
<1>1. WireInv' /\ NoEscapedException'
  BY DEF StreamInv, WireInv, ClosersLast, ClosersSent, NoEscapedException
<1>2. StillIdle' /\ OpenEnough' /\ ResetApplied' /\ EndApplied'
  BY DEF StreamInv, StateInv, StillIdle, OpenEnough, ResetApplied, EndApplied, Coming, InBatch
<1>3. RespondedIsEnded' /\ KnownIsOpen' /\ HeadersOnce'
  BY DEF StreamInv, StateInv, RespondedIsEnded, KnownIsOpen, HeadersOnce, InBatch, OnWire
<1> QED
  BY <1>1, <1>2, <1>3 DEF StreamInv, StateInv
-----------------------------------------------------------------------------
(***************************************************************************)
(* Every step.                                                              *)
(***************************************************************************)

LEMMA NextStreamInv ==
  ASSUME IInv, IInv', ReplyInv, StreamInv, [Next]_vars PROVE StreamInv'
<1>1. CASE OrbEvent /\ UNCHANGED <<device, storage>>
  <2>1. CASE AnswerRaises
    BY <1>1, <2>1, AnswerRaisesStream DEF ReplyInv
  <2>2. CASE ~AnswerRaises
    <3>1. StreamStep(Event.sid) /\ Event.sid \in Streams /\ batch > 0 /\ link = "up"
      BY <1>1, <2>2, HandlerStreamStep
    <3>2. hdrs' \subseteq Streams /\ responded' \subseteq Streams
      BY DEF IInv, TypeOK, OrbTypeOK
    <3> QED
      BY <3>1, <3>2, StreamStepInv
  <2> QED
    BY <2>1, <2>2
<1>2. CASE ReceiveData /\ UNCHANGED <<device, storage>>
  BY <1>2, ReceiveDataStream
<1>3. CASE Connect \/ Disconnect \/ Reboot
  BY <1>3, AfreshStream
<1>4. CASE \E k \in DeviceKinds : DeviceRequest(k)
  <2>1. opened + 1 \in Streams /\ \E N : Sent(opened + 1, N)
    BY <1>4, DeviceRequestSent
  <2> QED
    BY <2>1, SentInv
<1>5. CASE \E s \in Streams : DeviceData(s) \/ DeviceEnd(s) \/ DeviceReset(s)
  <2>1. PICK s \in Streams : \E N : Sent(s, N)
    BY <1>5, DeviceSentStep
  <2> QED
    BY <2>1, SentInv
<1>6. CASE \/ DeviceRead \/ \E s \in Streams : GetAudio(s)
           \/ \E f \in Files : GetBin(f)
           \/ UNCHANGED vars
  <2>1. UNCHANGED <<link, wire, batch, h2, hdrs, kind, responded, opened, up>>
    BY <1>6 DEF DeviceRead, GetAudio, GetBin, vars, orbVars, transport, instance, history,
       device
  <2> QED
    BY <2>1, ElsewhereStream
<1> QED
  BY <1>1, <1>2, <1>3, <1>4, <1>5, <1>6, NextSteps

LEMMA InitStreamInv == Init => StreamInv
<1> SUFFICES ASSUME Init PROVE StreamInv
  OBVIOUS
<1>1. /\ DOMAIN wire = {} /\ 1..batch = {} /\ link = "down"
      /\ \A s \in Streams : h2[s] = "idle"
  BY DEF Init, OrbInit
<1>2. WireInv /\ ResetApplied
  BY <1>1 DEF WireInv, ClosersLast, ClosersSent, ResetApplied, InBatch
<1>3. StillIdle /\ OpenEnough /\ EndApplied /\ KnownIsOpen
  BY <1>1 DEF StillIdle, OpenEnough, EndApplied, KnownIsOpen
<1>4. RespondedIsEnded /\ HeadersOnce /\ NoEscapedException
  BY <1>1 DEF RespondedIsEnded, HeadersOnce, NoEscapedException
<1> QED
  BY <1>2, <1>3, <1>4 DEF StreamInv, StateInv

\* The invariant of the life of a stream, beside those of the turn and the queue.
THEOREM StreamInvariance == Spec => [](IInv /\ ReplyInv /\ StreamInv)
<1>1. IInv /\ ReplyInv /\ StreamInv /\ [Next]_vars => (IInv /\ ReplyInv /\ StreamInv)'
  BY NextIInv, NextReplyInv, NextStreamInv
<1> QED
  BY <1>1, InitIInv, InitReplyInv, InitStreamInv, PTL DEF Spec

\* data_received only raises, and costs the connection, on a stream the device
\* reset after it had ended it, or when the send window filled up: no other
\* order of uploads, answers and resets makes a send of the server fail.
THEOREM ExceptionsHaveAReason == Spec => []NoEscapedException
<1>1. StreamInv => NoEscapedException
  BY DEF StreamInv
<1> QED
  BY <1>1, StreamInvariance, PTL

\* Between two calls of data_received the instance holds nothing of a stream
\* h2 has closed: whatever closed it was handled, and its handler forgot it.
THEOREM ClosedIsForgotten == Spec => []NoLeakedState
<1>1. ASSUME StreamInv, link = "up", batch = 0, NEW s \in Streams, kind[s] # "none"
      PROVE  h2[s] \notin {"idle", "closed"}
  <2>1. ~InBatch(s, Closers)
    BY <1>1 DEF InBatch
  <2> QED
    BY <1>1, <2>1 DEF StreamInv, StateInv, KnownIsOpen
<1>2. StreamInv => NoLeakedState
  BY <1>1 DEF NoLeakedState
<1> QED
  BY <1>2, StreamInvariance, PTL
-----------------------------------------------------------------------------
(***************************************************************************)
(* Audio is not lost, for every number of streams and length of uploads:    *)
(* what the device sent of an upload is on its way, in the instance, or on  *)
(* disk, and what the server does not keep it has cut off itself.           *)
(***************************************************************************)

\* DATA frames of stream s in q, and those still on the wire.
DataAt(q, s) == {i \in DOMAIN q : q[i].sid = s /\ q[i].type = "data"}
Pending(s) == Cardinality(DataAt(wire, s))

\* The server has not handled the end of stream s, or the reset instead of it.
Closing(s) ==
  \/ up[s] \in {"idle", "open"}
  \/ OnWire(s, {"end"})
  \/ up[s] = "reset" /\ OnWire(s, {"rst"})

\* What an answered stream holds is a beginning of what the device sent, and
\* the utterance, if there was one, is as long.
Cut(s) ==
  /\ Reply /\ s \in answered
  /\ 0 < bodies[s] /\ bodies[s] <= spoke[s] /\ utterance[s] \in {0, bodies[s]}

\* Until then every frame of it is in the body or on the wire, or was cut off.
Counted ==
  link = "up" =>
    \A s \in Streams :
      Closing(s) =>
        /\ banked[s] = 0
        /\ IF s \in responded THEN Cut(s) ELSE bodies[s] + Pending(s) = spoke[s]

\* From then on it is on disk, and no later flush can shorten it.
Banked(s) ==
  \/ banked[s] = spoke[s]
  \/ /\ Reply /\ s \in answered
     /\ 0 < banked[s] /\ banked[s] < spoke[s]
     /\ utterance[s] \in {0, banked[s]}

Kept ==
  link = "up" =>
    \A s \in Streams :
      ~Closing(s) => Pending(s) = 0 /\ bodies[s] \in {0, banked[s]} /\ Banked(s)

\* A stream begins with nothing.
Clean(s) == bodies[s] = 0 /\ s \notin responded /\ utterance[s] = 0

Untouched ==
  \A s \in Streams :
    up[s] = "idle" =>
      /\ spoke[s] = 0 /\ banked[s] = 0 /\ utterance[s] = 0
      /\ link = "up" => Clean(s)

CleanRequest == link = "up" => \A s \in Streams : OnWire(s, {"req"}) => Clean(s)
CleanTurn == \A s \in Streams : endpointers[s] = "armed" => utterance[s] = 0

\* What is on the wire is of a stream the device has opened.
WireOpened == \A i \in DOMAIN wire : up[wire[i].sid] # "idle"

UploadInv == WireOpened /\ Counted /\ Kept /\ Untouched /\ CleanRequest /\ CleanTurn
-----------------------------------------------------------------------------
(***************************************************************************)
(* Counting DATA frames.                                                    *)
(***************************************************************************)
LEMMA DataType ==
  ASSUME NEW q \in Seq(Frame), NEW s
  PROVE  IsFiniteSet(DataAt(q, s)) /\ Cardinality(DataAt(q, s)) \in Nat
<1>1. IsFiniteSet(1..Len(q)) /\ DataAt(q, s) \subseteq 1..Len(q)
  BY FS_Interval DEF DataAt
<1>2. IsFiniteSet(DataAt(q, s))
  BY <1>1, FS_Subset
<1> QED
  BY <1>2, FS_CardinalityType

\* Frames behind a queue that are no data of stream s do not count.
LEMMA DataOthers ==
  ASSUME NEW q \in Seq(Frame), NEW r \in Seq(Frame), NEW s,
         \A i \in DOMAIN r : r[i].sid # s \/ r[i].type # "data"
  PROVE  DataAt(q \o r, s) = DataAt(q, s)
<1>1. /\ q \o r \in Seq(Frame) /\ Len(q \o r) = Len(q) + Len(r)
      /\ \A i \in 1..Len(q) : (q \o r)[i] = q[i]
      /\ \A i \in 1..Len(r) : (q \o r)[Len(q) + i] = r[i]
  BY ConcatFacts
<1> DEFINE l == q \o r
<1> HIDE DEF l
<1>2. ASSUME NEW i \in 1..Len(l), l[i].sid = s, l[i].type = "data" PROVE i \in 1..Len(q)
  <2>1. SUFFICES ASSUME i > Len(q) PROVE FALSE
    OBVIOUS
  <2>2. i - Len(q) \in 1..Len(r) /\ l[Len(q) + (i - Len(q))] = r[i - Len(q)]
    BY <1>1, <2>1 DEF l
  <2>3. l[i] = r[i - Len(q)]
    BY <2>2
  <2> QED
    BY <1>2, <2>2, <2>3
<1>3. DataAt(l, s) = DataAt(q, s)
  BY <1>1, <1>2 DEF DataAt, l
<1> QED
  BY <1>3 DEF l

\* One more frame of data.
LEMMA DataOneMore ==
  ASSUME NEW q \in Seq(Frame), NEW f \in Frame, f.type = "data"
  PROVE  Cardinality(DataAt(q \o <<f>>, f.sid)) = Cardinality(DataAt(q, f.sid)) + 1
<1>1. /\ q \o <<f>> \in Seq(Frame) /\ Len(q \o <<f>>) = Len(q) + 1
      /\ \A i \in 1..Len(q) : (q \o <<f>>)[i] = q[i]
      /\ (q \o <<f>>)[Len(q) + 1] = f
  <2>1. <<f>> \in Seq(Frame) /\ Len(<<f>>) = 1 /\ <<f>>[1] = f
    OBVIOUS
  <2>2. /\ q \o <<f>> \in Seq(Frame) /\ Len(q \o <<f>>) = Len(q) + 1
        /\ \A i \in 1..Len(q) : (q \o <<f>>)[i] = q[i]
        /\ \A i \in 1..1 : (q \o <<f>>)[Len(q) + i] = <<f>>[i]
    BY <2>1, ConcatFacts
  <2> QED
    BY <2>1, <2>2
<1> DEFINE l == q \o <<f>>
           A == DataAt(q, f.sid)
<1> HIDE DEF l
<1>2. DataAt(l, f.sid) = A \cup {Len(q) + 1} /\ Len(q) + 1 \notin A
  <2>1. DOMAIN l = 1..(Len(q) + 1) /\ DOMAIN q = 1..Len(q) /\ Len(q) \in Nat
    BY <1>1 DEF l
  <2>2. \A i \in 1..(Len(q) + 1) : i \in 1..Len(q) \/ i = Len(q) + 1
    BY <2>1
  <2> QED
    BY <1>1, <2>1, <2>2 DEF DataAt, l
<1>3. Cardinality(A \cup {Len(q) + 1}) = Cardinality(A) + 1
  BY <1>2, DataType, FS_AddElement
<1> QED
  BY <1>2, <1>3 DEF l

\* A queue without its first frame.
LEMMA DataTail ==
  ASSUME NEW q \in Seq(Frame), Len(q) > 0, NEW s
  PROVE  Cardinality(DataAt(q, s)) =
           Cardinality(DataAt(Tail(q), s)) + (IF q[1].sid = s /\ q[1].type = "data" THEN 1 ELSE 0)
<1>1. /\ Tail(q) \in Seq(Frame) /\ Len(Tail(q)) = Len(q) - 1 /\ Len(q) \in Nat
      /\ \A i \in 1..Len(Tail(q)) : Tail(q)[i] = q[i + 1]
  BY TailFacts
<1> DEFINE A == DataAt(Tail(q), s)
           B == DataAt(q, s)
           f == [i \in A |-> i + 1]
<1>2. \A i \in A : i \in Nat /\ i + 1 \in B \ {1}
  BY <1>1 DEF DataAt
<1>3. \A j \in B \ {1} : j \in Nat /\ j - 1 \in A /\ (j - 1) + 1 = j
  <2> SUFFICES ASSUME NEW j \in B \ {1} PROVE j \in Nat /\ j - 1 \in A /\ (j - 1) + 1 = j
    OBVIOUS
  <2>1. j \in 1..Len(q) /\ j # 1 /\ q[j].sid = s /\ q[j].type = "data"
    BY DEF DataAt
  <2>2. j - 1 \in 1..Len(Tail(q)) /\ (j - 1) + 1 = j /\ j \in Nat
    BY <1>1, <2>1
  <2>3. Tail(q)[j - 1] = q[j]
    BY <1>1, <2>2
  <2> QED
    BY <1>1, <2>1, <2>2, <2>3 DEF DataAt
<1>4. f \in Bijection(A, B \ {1})
  BY <1>2, <1>3 DEF Bijection, Injection, Surjection, IsInjective
<1>5. ExistsBijection(A, B \ {1})
  BY <1>4 DEF ExistsBijection
<1>6. IsFiniteSet(A) /\ IsFiniteSet(B) /\ Cardinality(A) \in Nat /\ Cardinality(B) \in Nat
  BY <1>1, DataType
<1>7. Cardinality(B \ {1}) = Cardinality(A)
  BY <1>5, <1>6, FS_Bijection
<1>8. Cardinality(B \ {1}) = IF 1 \in B THEN Cardinality(B) - 1 ELSE Cardinality(B)
  BY <1>6, FS_RemoveElement
<1>9. 1 \in B <=> q[1].sid = s /\ q[1].type = "data"
  BY <1>1 DEF DataAt
<1> QED
  BY <1>6, <1>7, <1>8, <1>9
-----------------------------------------------------------------------------
(***************************************************************************)
(* Handlers.                                                                *)
(***************************************************************************)

\* What a handler does to the upload of stream s, whose event it takes.
UploadStep(s) ==
  /\ Taken(s) /\ UNCHANGED <<link, up, spoke>>
  /\ \A t \in Streams \ {s} :
       /\ bodies'[t] = bodies[t] /\ banked'[t] = banked[t] /\ utterance'[t] = utterance[t]
       /\ (t \in responded' <=> t \in responded)
       /\ endpointers'[t] = endpointers[t]
  /\ answered \subseteq answered'
  /\ endpointers'[s] = "armed" =>
       utterance'[s] = utterance[s] /\ (endpointers[s] = "armed" \/ Event.type = "req")
  /\ Event.type = "req" =>
       /\ bodies'[s] = 0 /\ banked'[s] = banked[s] /\ utterance'[s] = utterance[s]
       /\ (s \in responded' <=> s \in responded)
  /\ Event.type = "data" =>
       /\ banked'[s] = banked[s]
       /\ \/ /\ s \in responded /\ s \in responded'
             /\ bodies'[s] = bodies[s] /\ utterance'[s] = utterance[s]
          \/ /\ s \notin responded /\ s \notin responded' /\ bodies'[s] = bodies[s] + 1
          \/ /\ s \notin responded /\ bodies'[s] = bodies[s] + 1
             /\ Reply /\ s \in answered' /\ endpointers[s] = "armed"
             /\ utterance'[s] \in {utterance[s], bodies'[s]}
  /\ Event.type \in Closers =>
       /\ banked'[s] = IF bodies[s] > 0 THEN bodies[s] ELSE banked[s]
       /\ bodies'[s] \in {0, bodies[s]} /\ utterance'[s] = utterance[s]

\* Of the other streams, and for other types, the wire stays as it was.
LEMMA Beyond ==
  ASSUME IInv, NEW s \in Streams, Taken(s), NEW t \in Streams, NEW T,
         t # s \/ Event.type \notin T
  PROVE  OnWire(t, T)' <=> OnWire(t, T)
<1>1. OnWire(t, T)' => OnWire(t, T)
  BY Behind
<1>2. ASSUME OnWire(t, T) PROVE OnWire(t, T)'
  <2>1. PICK i \in DOMAIN wire : wire[i].sid = t /\ wire[i].type \in T
    BY <1>2 DEF OnWire
  <2>2. i # 1
    BY <2>1, Shifted DEF Taken
  <2>3. i - 1 \in DOMAIN wire' /\ (i - 1) + 1 = i
    BY <2>2, Shifted
  <2>4. wire'[i - 1] = wire[i]
    BY <2>3, Shifted
  <2> QED
    BY <2>1, <2>3, <2>4 DEF OnWire
<1> QED
  BY <1>1, <1>2

\* What is pending of each stream once the event is taken.
LEMMA Remaining ==
  ASSUME IInv, NEW s \in Streams, Taken(s)
  PROVE  /\ \A t \in Streams : Pending(t) \in Nat /\ Pending(t)' \in Nat
         /\ \A t \in Streams \ {s} : Pending(t)' = Pending(t)
         /\ Pending(s) = Pending(s)' + (IF Event.type = "data" THEN 1 ELSE 0)
<1>1. wire \in Seq(Frame) /\ Len(wire) > 0 /\ wire' = Tail(wire) /\ Event = wire[1] /\ Event.sid = s
  <2>1. wire \in Seq(Frame) /\ batch \in 1..Len(wire)
    BY DEF IInv, TypeOK, OrbTypeOK, Taken
  <2>2. Len(wire) > 0
    BY <2>1
  <2> QED
    BY <2>1, <2>2 DEF Taken, Event
<1>2. Tail(wire) \in Seq(Frame)
  BY <1>1, TailFacts
<1>3. ASSUME NEW t \in Streams
      PROVE  /\ Pending(t) \in Nat /\ Cardinality(DataAt(Tail(wire), t)) \in Nat
             /\ Pending(t) = Cardinality(DataAt(Tail(wire), t))
                             + (IF wire[1].sid = t /\ wire[1].type = "data" THEN 1 ELSE 0)
  BY <1>1, <1>2, DataType, DataTail DEF Pending
<1>4. ASSUME NEW t \in Streams PROVE Pending(t)' = Cardinality(DataAt(Tail(wire), t))
  BY <1>1 DEF Pending, DataAt
<1> QED
  BY <1>1, <1>3, <1>4

\* Behind an event no request of its stream is left, behind a closer no data
\* and no other closer of that kind.
LEMMA BehindEvent ==
  ASSUME IInv, StreamInv, NEW s \in Streams, Taken(s), up' = up
  PROVE  /\ ~OnWire(s, {"req"})'
         /\ Event.type \in Closers => Pending(s)' = 0 /\ ~Closing(s)' /\ up[s] # "idle"
<1>1. \A i \in DOMAIN wire' : i + 1 \in DOMAIN wire /\ 1 < i + 1 /\ wire'[i] = wire[i + 1]
  BY Shifted
<1>2. 1 \in DOMAIN wire /\ wire[1] = Event /\ wire[1].sid = s
  BY Shifted DEF Taken
<1>3. ~OnWire(s, {"req"})'
  <2> SUFFICES ASSUME NEW i \in DOMAIN wire', wire'[i].sid = s, wire'[i].type = "req" PROVE FALSE
    BY DEF OnWire
  <2>1. i + 1 \in DOMAIN wire /\ wire[i + 1].type = "req" /\ wire[i + 1].sid = s /\ 1 < i + 1
    BY <1>1
  <2>2. \A j \in DOMAIN wire : wire[j].sid = s => i + 1 <= j
    BY <2>1 DEF IInv, RequestFirst
  <2>3. i + 1 <= 1
    BY <1>2, <2>2
  <2> QED
    BY <2>1, <2>3, Shifted
<1>4. ASSUME Event.type \in Closers
      PROVE  Pending(s)' = 0 /\ ~Closing(s)' /\ up[s] # "idle"
  <2>1. ASSUME NEW i \in DOMAIN wire', wire'[i].sid = s
        PROVE  wire'[i].type = "rst" /\ Event.type = "end"
    BY <1>1, <1>2, <1>4, <2>1 DEF StreamInv, WireInv, ClosersLast
  <2>2. DataAt(wire', s) = {}
    BY <2>1 DEF DataAt
  <2>3. Cardinality(DataAt(wire', s)) = 0
    BY <2>2, FS_EmptySet
  <2>4. Pending(s)' = 0
    <3>1. Pending(s)' = Cardinality(DataAt(wire', s))
      BY DEF Pending, DataAt
    <3> QED
      BY <2>3, <3>1
  <2>5. /\ up[s] \notin {"idle", "open"}
        /\ Event.type = "end" => up[s] \in {"ended", "cancelled"}
    BY <1>2, <1>4 DEF StreamInv, WireInv, ClosersSent
  <2>6. ~OnWire(s, {"end"})' /\ (OnWire(s, {"rst"})' => up[s] # "reset")
    BY <2>1, <2>5 DEF OnWire
  <2> QED
    BY <2>4, <2>5, <2>6 DEF Closing
<1> QED
  BY <1>3, <1>4

LEMMA UploadStepInv ==
  ASSUME IInv, StreamInv, UploadInv, NEW s \in Streams, UploadStep(s), link = "up",
         bodies' \in [Streams -> Nat], endpointers' \in [Streams -> {"none", "armed", "fired"}]
  PROVE  UploadInv'
<1>1. Taken(s) /\ link' = link /\ up' = up /\ spoke' = spoke
  BY DEF UploadStep
<1>2. /\ \A t \in Streams : Pending(t) \in Nat /\ Pending(t)' \in Nat
      /\ \A t \in Streams \ {s} : Pending(t)' = Pending(t)
      /\ Pending(s) = Pending(s)' + (IF Event.type = "data" THEN 1 ELSE 0)
  BY <1>1, Remaining
<1>3. /\ ~OnWire(s, {"req"})'
      /\ Event.type \in Closers => Pending(s)' = 0 /\ ~Closing(s)' /\ up[s] # "idle"
  BY <1>1, BehindEvent
<1>4. /\ 1 \in DOMAIN wire /\ wire[1] = Event /\ Event.sid = s
      /\ Event.type \in {"req", "data", "end", "rst"}
  BY <1>1, Shifted DEF Taken
<1>5. /\ \A t \in Streams : bodies[t] \in Nat /\ bodies'[t] \in Nat /\ spoke[t] \in Nat
                           /\ banked[t] \in Nat
      /\ up[s] # "idle"
  BY <1>4 DEF IInv, TypeOK, OrbTypeOK, UploadInv, WireOpened
<1>6. ASSUME NEW t \in Streams
      PROVE  /\ t # s => (Closing(t)' <=> Closing(t)) /\ (OnWire(t, {"req"})' <=> OnWire(t, {"req"}))
             /\ Event.type \notin Closers => (Closing(t)' <=> Closing(t))
  <2>1. t # s \/ Event.type \notin {"end"} => (OnWire(t, {"end"})' <=> OnWire(t, {"end"}))
    BY <1>1, Beyond
  <2>2. t # s \/ Event.type \notin {"rst"} => (OnWire(t, {"rst"})' <=> OnWire(t, {"rst"}))
    BY <1>1, Beyond
  <2>3. t # s \/ Event.type \notin {"req"} => (OnWire(t, {"req"})' <=> OnWire(t, {"req"}))
    BY <1>1, Beyond
  <2> QED
    BY <1>1, <2>1, <2>2, <2>3 DEF Closing, Closers
<1>7. ASSUME NEW t \in Streams \ {s}
      PROVE  /\ bodies'[t] = bodies[t] /\ banked'[t] = banked[t] /\ utterance'[t] = utterance[t]
             /\ (t \in responded' <=> t \in responded) /\ endpointers'[t] = endpointers[t]
             /\ Pending(t)' = Pending(t)
             /\ t \in answered => t \in answered'
  BY <1>2 DEF UploadStep
<1>8. ASSUME NEW t \in Streams \ {s}
      PROVE  (Cut(t) => Cut(t)') /\ (Banked(t) => Banked(t)') /\ (Clean(t) => Clean(t)')
  BY <1>1, <1>7 DEF Cut, Banked, Clean
<1>9. WireOpened'
  <2>1. \A i \in DOMAIN wire' : wire'[i] = wire[i + 1] /\ i + 1 \in DOMAIN wire
    BY <1>1, Shifted
  <2> QED
    BY <1>1, <2>1 DEF UploadInv, WireOpened
\* The stream of the event.
<1>10. ASSUME Event.type = "data" PROVE Closing(s) /\ Closing(s)'
  <2>1. Pending(s) # 0
    BY <1>2, <1>10
  <2>2. Closing(s)
    BY <2>1 DEF UploadInv, Kept
  <2> QED
    BY <1>6, <1>10, <2>2 DEF Closers
<1>11. ASSUME Event.type = "req" PROVE Clean(s)
  <2>1. OnWire(s, {"req"})
    BY <1>4, <1>11 DEF OnWire
  <2> QED
    BY <2>1 DEF UploadInv, CleanRequest
<1>12. ASSUME Closing(s)'
       PROVE  /\ banked'[s] = 0
              /\ IF s \in responded' THEN Cut(s)' ELSE bodies'[s] + Pending(s)' = spoke'[s]
  <2>1. Event.type \in {"req", "data"}
    BY <1>3, <1>4, <1>12 DEF Closers
  <2>2. Closing(s)
    BY <1>6, <1>12, <2>1 DEF Closers
  <2>3. /\ banked[s] = 0
        /\ IF s \in responded THEN Cut(s) ELSE bodies[s] + Pending(s) = spoke[s]
    BY <2>2 DEF UploadInv, Counted
  <2>4. CASE Event.type = "req"
    BY <1>1, <1>2, <1>11, <2>3, <2>4 DEF UploadStep, Clean
  <2>5. CASE Event.type = "data" /\ s \in responded
    <3>1. /\ banked'[s] = 0 /\ s \in responded' /\ bodies'[s] = bodies[s]
          /\ utterance'[s] = utterance[s] /\ answered \subseteq answered'
      BY <2>3, <2>5 DEF UploadStep
    <3> QED
      BY <1>1, <2>3, <2>5, <3>1 DEF Cut
  <2>6. CASE Event.type = "data" /\ s \notin responded
    <3>1. /\ banked'[s] = 0 /\ bodies'[s] = bodies[s] + 1
          /\ bodies[s] + Pending(s) = spoke[s] /\ Pending(s) = Pending(s)' + 1
      BY <1>2, <2>3, <2>6 DEF UploadStep
    <3>2. bodies'[s] + Pending(s)' = spoke'[s] /\ 0 < bodies'[s] /\ bodies'[s] <= spoke'[s]
      BY <1>1, <1>2, <1>5, <3>1
    <3>3. s \in responded' =>
            Reply /\ s \in answered' /\ endpointers[s] = "armed"
            /\ utterance'[s] \in {utterance[s], bodies'[s]}
      BY <2>6 DEF UploadStep
    <3>4. s \in responded' => Cut(s)'
      BY <3>2, <3>3 DEF UploadInv, CleanTurn, Cut
    <3> QED
      BY <3>1, <3>2, <3>4
  <2> QED
    BY <2>1, <2>4, <2>5, <2>6
<1>13. ASSUME ~Closing(s)'
       PROVE  Pending(s)' = 0 /\ bodies'[s] \in {0, banked'[s]} /\ Banked(s)'
  <2>1. Event.type \in {"req", "end", "rst"}
    BY <1>4, <1>10, <1>13
  <2>2. CASE Event.type = "req"
    <3>1. ~Closing(s)
      BY <1>6, <1>13, <2>2 DEF Closers
    <3>2. Pending(s) = 0 /\ Banked(s)
      BY <3>1 DEF UploadInv, Kept
    <3>3. /\ bodies'[s] = 0 /\ banked'[s] = banked[s] /\ utterance'[s] = utterance[s]
          /\ answered \subseteq answered'
      BY <2>2 DEF UploadStep
    <3> QED
      BY <1>1, <1>2, <2>2, <3>2, <3>3 DEF Banked
  <2>3. CASE Event.type \in Closers
    <3>1. Pending(s)' = 0 /\ Pending(s) = 0
      BY <1>2, <1>3, <2>3 DEF Closers
    <3>2. /\ banked'[s] = IF bodies[s] > 0 THEN bodies[s] ELSE banked[s]
          /\ bodies'[s] \in {0, bodies[s]} /\ utterance'[s] = utterance[s]
          /\ answered \subseteq answered'
      BY <2>3 DEF UploadStep
    <3>3. bodies'[s] \in {0, banked'[s]}
      BY <1>5, <3>2
    <3>4. CASE Closing(s)
      <4>1. /\ banked[s] = 0
            /\ IF s \in responded THEN Cut(s) ELSE bodies[s] + Pending(s) = spoke[s]
        BY <3>4 DEF UploadInv, Counted
      <4>2. banked'[s] = bodies[s]
        BY <1>5, <3>2, <4>1
      <4>3. CASE s \notin responded
        BY <1>1, <1>5, <3>1, <3>3, <4>1, <4>2, <4>3 DEF Banked
      <4>4. CASE s \in responded
        BY <1>1, <1>5, <3>1, <3>2, <3>3, <4>1, <4>2, <4>4 DEF Banked, Cut
      <4> QED
        BY <3>1, <3>3, <4>3, <4>4
    <3>5. CASE ~Closing(s)
      <4>1. bodies[s] \in {0, banked[s]} /\ Banked(s)
        BY <3>5 DEF UploadInv, Kept
      <4>2. banked'[s] = banked[s]
        BY <1>5, <3>2, <4>1
      <4>3. Banked(s)'
        BY <1>1, <3>2, <4>1, <4>2 DEF Banked
      <4> QED
        BY <3>1, <3>3, <4>3
    <3> QED
      BY <3>4, <3>5
  <2> QED
    BY <2>1, <2>2, <2>3 DEF Closers
\* Every stream.
<1>14. Counted'
  <2> SUFFICES ASSUME NEW t \in Streams, Closing(t)'
               PROVE  /\ banked'[t] = 0
                      /\ IF t \in responded' THEN Cut(t)' ELSE bodies'[t] + Pending(t)' = spoke'[t]
    BY DEF Counted
  <2>1. CASE t # s
    <3>1. /\ banked[t] = 0
          /\ IF t \in responded THEN Cut(t) ELSE bodies[t] + Pending(t) = spoke[t]
      BY <1>6, <2>1 DEF UploadInv, Counted
    <3> QED
      BY <1>1, <1>7, <1>8, <2>1, <3>1
  <2> QED
    BY <1>12, <2>1
<1>15. Kept'
  <2> SUFFICES ASSUME NEW t \in Streams, ~Closing(t)'
               PROVE  Pending(t)' = 0 /\ bodies'[t] \in {0, banked'[t]} /\ Banked(t)'
    BY DEF Kept
  <2>1. CASE t # s
    <3>1. Pending(t) = 0 /\ bodies[t] \in {0, banked[t]} /\ Banked(t)
      BY <1>6, <2>1 DEF UploadInv, Kept
    <3> QED
      BY <1>7, <1>8, <2>1, <3>1
  <2> QED
    BY <1>13, <2>1
<1>16. Untouched'
  <2> SUFFICES ASSUME NEW t \in Streams, up[t] = "idle"
               PROVE  spoke'[t] = 0 /\ banked'[t] = 0 /\ utterance'[t] = 0 /\ Clean(t)'
    BY <1>1 DEF Untouched
  <2>1. t # s
    BY <1>5
  <2>2. spoke[t] = 0 /\ banked[t] = 0 /\ utterance[t] = 0 /\ Clean(t)
    BY DEF UploadInv, Untouched
  <2> QED
    BY <1>1, <1>7, <1>8, <2>1, <2>2
<1>17. CleanRequest'
  <2> SUFFICES ASSUME NEW t \in Streams, OnWire(t, {"req"})' PROVE Clean(t)'
    BY DEF CleanRequest
  <2>1. t # s
    BY <1>3
  <2>2. Clean(t)
    BY <1>6, <2>1 DEF UploadInv, CleanRequest
  <2> QED
    BY <1>8, <2>1, <2>2
<1>18. CleanTurn'
  <2> SUFFICES ASSUME NEW t \in Streams, endpointers'[t] = "armed" PROVE utterance'[t] = 0
    BY DEF CleanTurn
  <2>1. CASE t # s
    BY <1>7, <2>1 DEF UploadInv, CleanTurn
  <2>2. CASE t = s
    BY <1>11, <2>2 DEF UploadInv, CleanTurn, UploadStep, Clean
  <2> QED
    BY <2>1, <2>2
<1> QED
  BY <1>9, <1>14, <1>15, <1>16, <1>17, <1>18 DEF UploadInv

\* The handlers, one by one.
LEMMA HandlerUpload ==
  ASSUME IInv, OrbEvent, ~AnswerRaises, UNCHANGED device
  PROVE  UploadStep(Event.sid) /\ Event.sid \in Streams /\ link = "up"
<1> DEFINE s == Event.sid
<1>1. /\ s \in Streams /\ batch > 0 /\ link = "up" /\ Event.type \in {"req", "data", "end", "rst"}
  BY EventFacts DEF OrbEvent, RequestReceived, DataIgnored, DataBuffered, EndpointObserved,
     EndpointReplied, AnsweredEnded, StreamAnswered, DownchannelOpened, StreamReset, Handling
<1>2. Taken(s) /\ UNCHANGED <<link, up, spoke>>
  BY <1>1 DEF OrbEvent, RequestReceived, DataIgnored, DataBuffered, EndpointObserved,
     EndpointReplied, AnsweredEnded, StreamAnswered, DownchannelOpened, StreamReset, NextEvent,
     device, Taken
<1>3. /\ bodies \in [Streams -> Nat] /\ banked \in [Streams -> Nat] /\ utterance \in [Streams -> Nat]
      /\ endpointers \in [Streams -> {"none", "armed", "fired"}]
      /\ responded \subseteq Streams /\ answered \subseteq Streams
  BY DEF IInv, TypeOK, OrbTypeOK
<1>4. CASE RequestReceived
  <2>1. /\ Event.type = "req" /\ bodies' = [bodies EXCEPT ![s] = 0]
        /\ \/ endpointers' = endpointers
           \/ endpointers' = [endpointers EXCEPT ![s] = "armed"]
        /\ UNCHANGED <<responded, banked, utterance, answered>>
    BY <1>4 DEF RequestReceived, Handling, history
  <2> HIDE DEF s
  <2>2. UploadStep(s)
    BY <1>1, <1>2, <1>3, <2>1 DEF UploadStep, Closers, s
  <2> QED
    BY <1>1, <2>2 DEF s
<1>5. CASE DataIgnored
  <2>1. /\ Event.type = "data" /\ s \in responded
        /\ UNCHANGED <<bodies, endpointers, responded, banked, utterance, answered>>
    BY <1>5 DEF DataIgnored, Handling, instance, history
  <2>2. UploadStep(s)
    BY <1>1, <1>2, <2>1 DEF UploadStep, Closers
  <2> QED
    BY <1>1, <2>2
<1>6. CASE DataBuffered
  <2>1. /\ Event.type = "data" /\ s \notin responded /\ bodies' = [bodies EXCEPT ![s] = @ + 1]
        /\ UNCHANGED <<endpointers, responded, banked, utterance, answered>>
    BY <1>6 DEF DataBuffered, Handling, history
  <2> HIDE DEF s
  <2>2. UploadStep(s)
    BY <1>1, <1>2, <1>3, <2>1 DEF UploadStep, Closers, s
  <2> QED
    BY <1>1, <2>2 DEF s
<1>7. CASE EndpointObserved
  <2>1. /\ Event.type = "data" /\ s \notin responded /\ bodies' = [bodies EXCEPT ![s] = @ + 1]
        /\ endpointers' = [endpointers EXCEPT ![s] = "fired"]
        /\ \/ utterance' = utterance
           \/ utterance' = [utterance EXCEPT ![s] = bodies[s] + 1]
        /\ UNCHANGED <<responded, banked, answered>>
    BY <1>7 DEF EndpointObserved, Handling, SaveUtterance
  <2> HIDE DEF s
  <2>2. UploadStep(s)
    BY <1>1, <1>2, <1>3, <2>1 DEF UploadStep, Closers, s
  <2> QED
    BY <1>1, <2>2 DEF s
<1>8. CASE EndpointReplied
  <2>1. /\ Event.type = "data" /\ s \notin responded /\ bodies' = [bodies EXCEPT ![s] = @ + 1]
        /\ Reply /\ endpointers' = [endpointers EXCEPT ![s] = "fired"]
        /\ \/ utterance' = utterance
           \/ utterance' = [utterance EXCEPT ![s] = bodies[s] + 1]
        /\ banked' = banked
    BY <1>8 DEF EndpointReplied, Handling, SaveUtterance
  <2>2. PICK f \in BOOLEAN :
          /\ responded' = IF f THEN responded \cup {s} ELSE responded
          /\ answered' = IF f THEN answered \cup {s} ELSE answered
    <3>1. \A room \in Rooms : FinishSent(s, room) \in BOOLEAN
      BY DEF FinishSent
    <3> QED
      BY <1>8, <3>1 DEF EndpointReplied, Responded
  <2>3. endpointers[s] = "armed"
    BY <1>8, FiringArmed DEF EndpointReplied
  <2> HIDE DEF s
  <2>4. UploadStep(s)
    BY <1>1, <1>2, <1>3, <2>1, <2>2, <2>3 DEF UploadStep, Closers, s
  <2> QED
    BY <1>1, <2>4 DEF s
<1>9. CASE AnsweredEnded \/ StreamAnswered \/ StreamReset
  <2>1. /\ Event.type \in Closers
        /\ banked' = IF bodies[s] > 0 THEN [banked EXCEPT ![s] = bodies[s]] ELSE banked
        /\ bodies' = [bodies EXCEPT ![s] = 0] /\ endpointers' = [endpointers EXCEPT ![s] = "none"]
        /\ responded' = responded \ {s} /\ utterance' = utterance
        /\ answered' \in {answered, answered \cup {s}}
    BY <1>9 DEF AnsweredEnded, StreamAnswered, StreamReset, Handling, Persist, Forget, Closers
  <2> HIDE DEF s
  <2>2. UploadStep(s)
    BY <1>1, <1>2, <1>3, <2>1 DEF UploadStep, Closers, s
  <2> QED
    BY <1>1, <2>2 DEF s
<1>10. CASE DownchannelOpened
  <2>1. /\ Event.type = "end"
        /\ banked' = IF bodies[s] > 0 THEN [banked EXCEPT ![s] = bodies[s]] ELSE banked
        /\ UNCHANGED <<bodies, endpointers, responded, utterance, answered>>
    BY <1>10 DEF DownchannelOpened, Handling, Persist
  <2> HIDE DEF s
  <2>2. UploadStep(s)
    BY <1>1, <1>2, <1>3, <2>1 DEF UploadStep, Closers, s
  <2> QED
    BY <1>1, <2>2 DEF s
<1> QED
  BY <1>4, <1>5, <1>6, <1>7, <1>8, <1>9, <1>10 DEF OrbEvent

\* The exception: the connection goes, nothing has begun anew.
LEMMA AnswerRaisesUpload ==
  ASSUME IInv, UploadInv, AnswerRaises, UNCHANGED device
  PROVE  UploadInv'
<1> DEFINE s == Event.sid
<1>1. s \in Streams /\ Event = wire[1] /\ 1 \in DOMAIN wire
  BY EventFacts DEF AnswerRaises
<1>2. /\ wire' = << >> /\ link' = "dead" /\ UNCHANGED <<up, spoke, utterance, endpointers>>
      /\ banked' = IF bodies[s] > 0 THEN [banked EXCEPT ![s] = bodies[s]] ELSE banked
  BY DEF AnswerRaises, Fatal, Persist, device
<1>3. up[s] # "idle" /\ banked \in [Streams -> Nat]
  BY <1>1 DEF UploadInv, WireOpened, IInv, TypeOK, OrbTypeOK
<1>4. WireOpened'
  <2>1. DOMAIN wire' = {}
    BY <1>2
  <2> QED
    BY <2>1 DEF WireOpened
<1>5. Counted' /\ Kept' /\ CleanRequest' /\ CleanTurn'
  BY <1>2 DEF UploadInv, Counted, Kept, CleanRequest, CleanTurn
<1> HIDE DEF s
<1>6. Untouched'
  <2>1. \A t \in Streams \ {s} : banked'[t] = banked[t]
    BY <1>1, <1>2, <1>3
  <2> QED
    BY <1>2, <1>3, <2>1 DEF UploadInv, Untouched
<1> QED
  BY <1>4, <1>5, <1>6 DEF UploadInv
-----------------------------------------------------------------------------
(***************************************************************************)
(* The network and the device.                                              *)
(***************************************************************************)

\* The device sends the frames r on stream s: data of an open upload, what
\* begins or closes one, or a reset behind the end.
Sends(s, r) ==
  /\ link = "up" /\ wire' = wire \o r
  /\ UNCHANGED <<link, bodies, banked, utterance, responded, endpointers, answered>>
  /\ \A i \in DOMAIN r : r[i].sid = s /\ (r[i].type = "req" => up[s] = "idle")
  /\ \A t \in Streams \ {s} : up'[t] = up[t] /\ spoke'[t] = spoke[t]
  /\ up'[s] # "idle"
  /\ \/ /\ \E f \in Frame : r = <<f>> /\ f.type = "data" /\ f.sid = s
        /\ up[s] = "open" /\ up'[s] = "open" /\ spoke'[s] = spoke[s] + 1
     \/ /\ \A i \in DOMAIN r : r[i].type # "data"
        /\ spoke'[s] = spoke[s] /\ up[s] \in {"idle", "open"}
        /\ \/ up'[s] = "open"
           \/ \E i \in DOMAIN r : r[i].type = "end"
           \/ up'[s] = "reset" /\ \E i \in DOMAIN r : r[i].type = "rst"
     \/ /\ \A i \in DOMAIN r : r[i].type = "rst"
        /\ spoke'[s] = spoke[s] /\ up[s] = "ended" /\ up'[s] = "cancelled"

LEMMA SendsInv ==
  ASSUME IInv, UploadInv, NEW s \in Streams, NEW r \in Seq(Frame), Sends(s, r)
  PROVE  UploadInv'
<1>1. /\ link = "up" /\ wire \in Seq(Frame) /\ wire' = wire \o r /\ Len(wire) \in Nat /\ Len(r) \in Nat
      /\ UNCHANGED <<link, bodies, banked, utterance, responded, endpointers, answered>>
      /\ \A t \in Streams \ {s} : up'[t] = up[t] /\ spoke'[t] = spoke[t]
      /\ \A t \in Streams : bodies[t] \in Nat /\ spoke[t] \in Nat
  BY DEF Sends, IInv, TypeOK, OrbTypeOK
<1>2. /\ DOMAIN wire = 1..Len(wire) /\ DOMAIN r = 1..Len(r)
      /\ wire' \in Seq(Frame) /\ DOMAIN wire' = 1..(Len(wire) + Len(r))
      /\ \A i \in 1..Len(wire) : wire'[i] = wire[i]
      /\ \A i \in 1..Len(r) : wire'[Len(wire) + i] = r[i]
  <2>1. /\ wire' \in Seq(Frame) /\ Len(wire') = Len(wire) + Len(r)
        /\ \A i \in 1..Len(wire) : wire'[i] = wire[i]
        /\ \A i \in 1..Len(r) : wire'[Len(wire) + i] = r[i]
    BY <1>1, ConcatFacts
  <2> QED
    BY <1>1, <2>1
<1>3. ASSUME NEW i \in DOMAIN wire'
      PROVE  \/ i \in DOMAIN wire /\ wire'[i] = wire[i]
             \/ \E j \in DOMAIN r : wire'[i] = r[j]
  <2>1. CASE i \in 1..Len(wire)
    BY <1>2, <2>1
  <2>2. CASE i \notin 1..Len(wire)
    <3>1. i - Len(wire) \in 1..Len(r) /\ Len(wire) + (i - Len(wire)) = i
      BY <1>1, <1>2, <2>2
    <3>2. wire'[i] = r[i - Len(wire)]
      BY <1>2, <3>1
    <3> QED
      BY <1>2, <3>1, <3>2
  <2> QED
    BY <2>1, <2>2
<1>4. ASSUME NEW t \in Streams, NEW T
      PROVE  OnWire(t, T)' <=> OnWire(t, T) \/ \E j \in DOMAIN r : r[j].sid = t /\ r[j].type \in T
  <2>1. \A i \in 1..Len(wire) : i \in DOMAIN wire'
    BY <1>1, <1>2
  <2>2. \A i \in 1..Len(r) : Len(wire) + i \in DOMAIN wire'
    BY <1>1, <1>2
  <2>3. OnWire(t, T) => OnWire(t, T)'
    BY <1>2, <2>1 DEF OnWire
  <2>4. (\E j \in DOMAIN r : r[j].sid = t /\ r[j].type \in T) => OnWire(t, T)'
    BY <1>2, <2>2 DEF OnWire
  <2>5. OnWire(t, T)' => OnWire(t, T) \/ \E j \in DOMAIN r : r[j].sid = t /\ r[j].type \in T
    BY <1>3 DEF OnWire
  <2> QED
    BY <2>3, <2>4, <2>5
<1>5. ASSUME NEW t \in Streams
      PROVE  Pending(t)' = Cardinality(DataAt(wire \o r, t)) /\ Pending(t) \in Nat
  BY <1>1, DataType DEF Pending, DataAt
<1>6. ASSUME NEW t \in Streams, \A i \in DOMAIN r : r[i].sid # t \/ r[i].type # "data"
      PROVE  Pending(t)' = Pending(t)
  <2>1. DataAt(wire \o r, t) = DataAt(wire, t)
    BY <1>1, <1>6, DataOthers
  <2> QED
    BY <1>5, <2>1 DEF Pending
<1>7. /\ \A i \in DOMAIN r : r[i].sid = s /\ (r[i].type = "req" => up[s] = "idle")
      /\ up'[s] # "idle"
  BY DEF Sends
<1>8. ASSUME NEW t \in Streams \ {s}
      PROVE  /\ Pending(t)' = Pending(t) /\ up'[t] = up[t] /\ spoke'[t] = spoke[t]
             /\ Closing(t)' <=> Closing(t)
             /\ OnWire(t, {"req"})' <=> OnWire(t, {"req"})
             /\ (Cut(t)' <=> Cut(t)) /\ (Banked(t)' <=> Banked(t))
  <2>1. Pending(t)' = Pending(t) /\ up'[t] = up[t] /\ spoke'[t] = spoke[t]
    BY <1>1, <1>6, <1>7
  <2>2. OnWire(t, {"end"})' <=> OnWire(t, {"end"})
    BY <1>4, <1>7
  <2>3. OnWire(t, {"rst"})' <=> OnWire(t, {"rst"})
    BY <1>4, <1>7
  <2>4. OnWire(t, {"req"})' <=> OnWire(t, {"req"})
    BY <1>4, <1>7
  <2> QED
    BY <1>1, <2>1, <2>2, <2>3, <2>4 DEF Closing, Cut, Banked
<1>9. WireOpened'
  <2> SUFFICES ASSUME NEW i \in DOMAIN wire' PROVE up'[wire'[i].sid] # "idle"
    BY DEF WireOpened
  <2>1. CASE i \in DOMAIN wire /\ wire'[i] = wire[i]
    <3>1. wire[i] \in Frame
      BY <1>1, <2>1
    <3>2. wire[i].sid \in Streams /\ up[wire[i].sid] # "idle"
      BY <2>1, <3>1 DEF Frame, UploadInv, WireOpened
    <3> QED
      BY <1>1, <1>7, <2>1, <3>2
  <2>2. CASE \E j \in DOMAIN r : wire'[i] = r[j]
    BY <1>7, <2>2
  <2> QED
    BY <1>3, <2>1, <2>2
\* The stream of the frames.
<1>10. CASE /\ \E f \in Frame : r = <<f>> /\ f.type = "data" /\ f.sid = s
            /\ up[s] = "open" /\ up'[s] = "open" /\ spoke'[s] = spoke[s] + 1
  <2>1. Pending(s)' = Pending(s) + 1 /\ Pending(s) \in Nat
    BY <1>1, <1>5, <1>10, DataOneMore DEF Pending
  <2>2. Closing(s) /\ Closing(s)'
    BY <1>10 DEF Closing
  <2>3. /\ banked[s] = 0
        /\ IF s \in responded THEN Cut(s) ELSE bodies[s] + Pending(s) = spoke[s]
    BY <1>1, <2>2 DEF UploadInv, Counted
  <2>4. Cut(s) => Cut(s)'
    BY <1>1, <1>10 DEF Cut
  <2>5. /\ banked'[s] = 0
        /\ IF s \in responded' THEN Cut(s)' ELSE bodies'[s] + Pending(s)' = spoke'[s]
    <3>1. banked'[s] = 0 /\ bodies'[s] = bodies[s] /\ (s \in responded' <=> s \in responded)
      BY <1>1, <2>3
    <3>2. bodies[s] + Pending(s) = spoke[s] => bodies[s] + (Pending(s) + 1) = spoke[s] + 1
      <4>1. bodies[s] \in Nat /\ spoke[s] \in Nat /\ Pending(s) \in Nat
        BY <1>1, <2>1
      <4>2. ASSUME NEW b \in Nat, NEW p \in Nat, NEW n \in Nat, b + p = n
            PROVE  b + (p + 1) = n + 1
        BY <4>2
      <4> QED
        BY <4>1, <4>2
    <3>3. CASE s \in responded
      BY <2>3, <2>4, <3>1, <3>3
    <3>4. CASE s \notin responded
      BY <1>10, <2>1, <2>3, <3>1, <3>2, <3>4
    <3> QED
      BY <3>3, <3>4
  <2>6. Counted'
    BY <1>1, <1>8, <2>5 DEF UploadInv, Counted
  <2>7. Kept'
    BY <1>1, <1>8, <2>2 DEF UploadInv, Kept
  <2>8. \A i \in DOMAIN r : r[i].type # "req"
    BY <1>7, <1>10
  <2>9. OnWire(s, {"req"})' <=> OnWire(s, {"req"})
    BY <1>4, <2>8
  <2>10. Untouched'
    BY <1>1, <1>7, <1>8 DEF UploadInv, Untouched, Clean
  <2>11. CleanRequest' /\ CleanTurn'
    BY <1>1, <1>8, <2>9 DEF UploadInv, CleanRequest, CleanTurn, Clean
  <2> QED
    BY <1>9, <2>6, <2>7, <2>10, <2>11 DEF UploadInv
<1>11. CASE /\ \A i \in DOMAIN r : r[i].type # "data"
            /\ spoke'[s] = spoke[s]
            /\ \/ /\ up[s] \in {"idle", "open"}
                  /\ \/ up'[s] = "open"
                     \/ \E i \in DOMAIN r : r[i].type = "end"
                     \/ up'[s] = "reset" /\ \E i \in DOMAIN r : r[i].type = "rst"
               \/ /\ \A i \in DOMAIN r : r[i].type = "rst"
                  /\ up[s] = "ended" /\ up'[s] = "cancelled"
  <2>1. Pending(s)' = Pending(s)
    BY <1>6, <1>11
  <2>2. (Cut(s)' <=> Cut(s)) /\ (Banked(s)' <=> Banked(s))
    BY <1>1, <1>11 DEF Cut, Banked
  <2>3. Closing(s)' <=> Closing(s)
    <3>1. CASE up[s] \in {"idle", "open"}
      <4>1. OnWire(s, {"end"})' <=> OnWire(s, {"end"}) \/ \E j \in DOMAIN r : r[j].sid = s /\ r[j].type \in {"end"}
        BY <1>4
      <4>2. OnWire(s, {"rst"})' <=> OnWire(s, {"rst"}) \/ \E j \in DOMAIN r : r[j].sid = s /\ r[j].type \in {"rst"}
        BY <1>4
      <4> QED
        BY <1>7, <1>11, <3>1, <4>1, <4>2 DEF Closing
    <3>2. CASE up[s] = "ended"
      <4>1. OnWire(s, {"end"})' <=> OnWire(s, {"end"}) \/ \E j \in DOMAIN r : r[j].sid = s /\ r[j].type \in {"end"}
        BY <1>4
      <4> QED
        BY <1>11, <3>2, <4>1 DEF Closing
    <3> QED
      BY <1>11, <3>1, <3>2
  <2>4. Counted'
    BY <1>1, <1>8, <1>11, <2>1, <2>2, <2>3 DEF UploadInv, Counted
  <2>5. Kept'
    BY <1>1, <1>8, <2>1, <2>2, <2>3 DEF UploadInv, Kept
  <2>6. Untouched'
    BY <1>1, <1>7, <1>8 DEF UploadInv, Untouched, Clean
  <2>7. OnWire(s, {"req"})' => Clean(s)
    <3>1. OnWire(s, {"req"})' => OnWire(s, {"req"}) \/ up[s] = "idle"
      BY <1>4, <1>7
    <3> QED
      BY <1>1, <3>1 DEF UploadInv, CleanRequest, Untouched
  <2>8. CleanRequest' /\ CleanTurn'
    BY <1>1, <1>8, <2>7 DEF UploadInv, CleanRequest, CleanTurn, Clean
  <2> QED
    BY <1>9, <2>4, <2>5, <2>6, <2>8 DEF UploadInv
<1>12. \A i \in DOMAIN r : r[i].type = "rst" => r[i].type # "data"
  OBVIOUS
<1> QED
  BY <1>10, <1>11, <1>12 DEF Sends

\* Every send of the device is one of those.
LEMMA DeviceSends ==
  ASSUME IInv, NEW s \in Streams, DeviceData(s) \/ DeviceEnd(s) \/ DeviceReset(s)
  PROVE  \E r \in Seq(Frame) : Sends(s, r)
<1>1. /\ asked[s] \in Kinds
      /\ up \in [Streams -> {"idle", "open", "ended", "reset", "cancelled"}]
      /\ spoke \in [Streams -> Nat]
  BY DEF IInv, TypeOK, OrbTypeOK, Asked, DeviceData, DeviceEnd, DeviceReset
<1>2. CASE DeviceData(s)
  <2> DEFINE f == [type |-> "data", sid |-> s, kind |-> asked[s]]
  <2>1. f \in Frame /\ f.sid = s /\ f.type = "data"
    BY <1>1, FrameType
  <2>2. /\ link = "up" /\ up[s] = "open" /\ up' = up /\ spoke' = [spoke EXCEPT ![s] = @ + 1]
        /\ wire' = wire \o <<f>>
        /\ UNCHANGED <<link, bodies, banked, utterance, responded, endpointers, answered>>
    BY <1>2 DEF DeviceData, Send, instance, history
  <2> HIDE DEF f
  <2>3. <<f>> \in Seq(Frame) /\ DOMAIN <<f>> = {1} /\ <<f>>[1] = f
    BY <2>1
  <2>4. Sends(s, <<f>>)
    BY <1>1, <2>1, <2>2, <2>3 DEF Sends
  <2> QED
    BY <2>3, <2>4
<1>3. CASE DeviceEnd(s)
  <2> DEFINE f == [type |-> "end", sid |-> s, kind |-> asked[s]]
  <2>1. f \in Frame /\ f.sid = s /\ f.type = "end"
    BY <1>1, FrameType
  <2>2. /\ link = "up" /\ up[s] = "open" /\ up' = [up EXCEPT ![s] = "ended"] /\ spoke' = spoke
        /\ wire' = wire \o <<f>>
        /\ UNCHANGED <<link, bodies, banked, utterance, responded, endpointers, answered>>
    BY <1>3 DEF DeviceEnd, Send, instance, history
  <2> HIDE DEF f
  <2>3. <<f>> \in Seq(Frame) /\ DOMAIN <<f>> = {1} /\ <<f>>[1] = f
    BY <2>1
  <2>4. Sends(s, <<f>>)
    BY <1>1, <2>1, <2>2, <2>3 DEF Sends
  <2> QED
    BY <2>3, <2>4
<1>4. CASE DeviceReset(s)
  <2> DEFINE f == [type |-> "rst", sid |-> s, kind |-> asked[s]]
  <2>1. f \in Frame /\ f.sid = s /\ f.type = "rst"
    BY <1>1, FrameType
  <2>2. /\ link = "up" /\ up[s] \in {"open", "ended"} /\ spoke' = spoke
        /\ up' = [up EXCEPT ![s] = IF @ = "open" THEN "reset" ELSE "cancelled"]
        /\ wire' = wire \o <<f>>
        /\ UNCHANGED <<link, bodies, banked, utterance, responded, endpointers, answered>>
    BY <1>4 DEF DeviceReset, Send, instance, history
  <2> HIDE DEF f
  <2>3. <<f>> \in Seq(Frame) /\ DOMAIN <<f>> = {1} /\ <<f>>[1] = f
    BY <2>1
  <2>4. Sends(s, <<f>>)
    BY <1>1, <2>1, <2>2, <2>3 DEF Sends
  <2> QED
    BY <2>3, <2>4
<1> QED
  BY <1>2, <1>3, <1>4

LEMMA DeviceRequestSends ==
  ASSUME IInv, NEW k \in DeviceKinds, DeviceRequest(k)
  PROVE  opened + 1 \in Streams /\ \E r \in Seq(Frame) : Sends(opened + 1, r)
<1> DEFINE s == opened + 1
           req == [type |-> "req", sid |-> s, kind |-> k]
           end == [type |-> "end", sid |-> s, kind |-> k]
<1>1. /\ link = "up" /\ spoke' = spoke
      /\ UNCHANGED <<link, bodies, banked, utterance, responded, endpointers, answered>>
      /\ \/ wire' = wire \o <<req>> /\ up' = [up EXCEPT ![s] = "open"]
         \/ wire' = wire \o <<req, end>> /\ up' = [up EXCEPT ![s] = "ended"]
  BY DEF DeviceRequest, Send, instance, history
<1>2. s \in Streams /\ k \in Kinds /\ s > opened
  <2>1. opened \in Nat /\ opened < MaxStreams /\ MaxStreams \in Nat /\ k \in Kinds
    BY OrbAssumption, OrbSystemAssumption DEF DeviceRequest, IInv, TypeOK
  <2> QED
    BY <2>1 DEF Streams
<1>3. up[s] = "idle" /\ up \in [Streams -> {"idle", "open", "ended", "reset", "cancelled"}]
  BY <1>2 DEF IInv, Unopened, TypeOK
<1>4. /\ req \in Frame /\ end \in Frame /\ req.sid = s /\ req.type = "req"
      /\ end.sid = s /\ end.type = "end"
  BY <1>2, FrameType
<1> HIDE DEF req, end, s
<1>5. CASE wire' = wire \o <<req>> /\ up' = [up EXCEPT ![s] = "open"]
  <2>1. <<req>> \in Seq(Frame) /\ DOMAIN <<req>> = {1} /\ <<req>>[1] = req
    BY <1>4
  <2>2. Sends(s, <<req>>)
    BY <1>1, <1>2, <1>3, <1>4, <1>5, <2>1 DEF Sends
  <2> QED
    BY <1>2, <2>1, <2>2 DEF s
<1>6. CASE wire' = wire \o <<req, end>> /\ up' = [up EXCEPT ![s] = "ended"]
  <2>1. /\ <<req, end>> \in Seq(Frame) /\ DOMAIN <<req, end>> = {1, 2}
        /\ <<req, end>>[1] = req /\ <<req, end>>[2] = end
    BY <1>4
  <2>2. Sends(s, <<req, end>>)
    BY <1>1, <1>2, <1>3, <1>4, <1>6, <2>1 DEF Sends
  <2> QED
    BY <1>2, <2>1, <2>2 DEF s
<1> QED
  BY <1>1, <1>5, <1>6

\* A connection that begins or ends has no uploads.
LEMMA AfreshUpload ==
  ASSUME IInv, UploadInv, Connect \/ Disconnect \/ Reboot
  PROVE  UploadInv'
<1>1. CASE Connect
  <2>1. /\ link = "down" /\ link' = "up" /\ responded' = {}
        /\ bodies' = [s \in Streams |-> 0] /\ endpointers' = [s \in Streams |-> "none"]
        /\ UNCHANGED <<wire, banked, utterance, up, spoke>>
    BY <1>1 DEF Connect, ConnectionMade, history, device
  <2>2. wire = << >> /\ opened = 0
    BY <2>1 DEF IInv, QuietWhenDown
  <2>3. \A s \in Streams : up[s] = "idle"
    <3>1. \A s \in Streams : s > opened
      BY <2>2, OrbAssumption DEF Streams
    <3> QED
      BY <3>1 DEF IInv, Unopened
  <2>4. \A s \in Streams : spoke[s] = 0 /\ banked[s] = 0 /\ utterance[s] = 0
    BY <2>3 DEF UploadInv, Untouched
  <2>5. DOMAIN wire' = {}
    BY <2>1, <2>2
  <2>6. ASSUME NEW s \in Streams PROVE Pending(s)' = 0
    <3>1. DataAt(wire', s) = {}
      BY <2>5 DEF DataAt
    <3>2. Pending(s)' = Cardinality(DataAt(wire', s))
      BY DEF Pending, DataAt
    <3> QED
      BY <3>1, <3>2, FS_EmptySet
  <2>7. \A s \in Streams : Clean(s)'
    BY <2>1, <2>4 DEF Clean
  <2>8. WireOpened' /\ CleanRequest'
    BY <2>5, <2>7 DEF WireOpened, CleanRequest
  <2>9. Counted'
    BY <2>1, <2>4, <2>6 DEF Counted
  <2>10. Kept'
    BY <2>1, <2>3 DEF Kept, Closing
  <2>11. Untouched' /\ CleanTurn'
    BY <2>1, <2>4, <2>7 DEF Untouched, CleanTurn
  <2> QED
    BY <2>8, <2>9, <2>10, <2>11 DEF UploadInv
<1>2. CASE Disconnect \/ Reboot
  <2>1. /\ link' = "down" /\ wire' = << >>
        /\ \A s \in Streams : banked'[s] = 0 /\ utterance'[s] = 0 /\ spoke'[s] = 0
    BY <1>2 DEF Disconnect, Reboot, ConnectionLost, DeviceDisconnected
  <2>2. DOMAIN wire' = {}
    BY <2>1
  <2> QED
    BY <2>1, <2>2 DEF UploadInv, WireOpened, Counted, Kept, Untouched, CleanRequest, CleanTurn
<1> QED
  BY <1>1, <1>2

LEMMA ElsewhereUpload ==
  ASSUME UploadInv,
         UNCHANGED <<link, wire, bodies, banked, utterance, responded, endpointers, answered,
                     up, spoke>>
  PROVE  UploadInv'
<1>1. ASSUME NEW s \in Streams
      PROVE  /\ Closing(s)' <=> Closing(s)
             /\ Pending(s)' = Pending(s)
             /\ (Cut(s)' <=> Cut(s)) /\ (Banked(s)' <=> Banked(s)) /\ (Clean(s)' <=> Clean(s))
             /\ OnWire(s, {"req"})' <=> OnWire(s, {"req"})
  BY DEF Closing, OnWire, Pending, DataAt, Cut, Banked, Clean
<1>2. WireOpened' /\ Untouched' /\ CleanTurn' /\ CleanRequest'
  BY <1>1 DEF UploadInv, WireOpened, Untouched, CleanTurn, CleanRequest
<1>3. Counted' /\ Kept'
  BY <1>1 DEF UploadInv, Counted, Kept
<1> QED
  BY <1>2, <1>3 DEF UploadInv
-----------------------------------------------------------------------------
(***************************************************************************)
(* Every step.                                                              *)
(***************************************************************************)
LEMMA NextUploadInv ==
  ASSUME IInv, IInv', StreamInv, UploadInv, [Next]_vars PROVE UploadInv'
<1>1. CASE OrbEvent /\ UNCHANGED <<device, storage>>
  <2>1. CASE AnswerRaises
    BY <1>1, <2>1, AnswerRaisesUpload
  <2>2. CASE ~AnswerRaises
    <3>1. UploadStep(Event.sid) /\ Event.sid \in Streams /\ link = "up"
      BY <1>1, <2>2, HandlerUpload
    <3>2. bodies' \in [Streams -> Nat] /\ endpointers' \in [Streams -> {"none", "armed", "fired"}]
      BY DEF IInv, TypeOK, OrbTypeOK
    <3> QED
      BY <3>1, <3>2, UploadStepInv
  <2> QED
    BY <2>1, <2>2
<1>2. CASE Connect \/ Disconnect \/ Reboot
  BY <1>2, AfreshUpload
<1>3. CASE \E k \in DeviceKinds : DeviceRequest(k)
  <2>1. opened + 1 \in Streams /\ \E r \in Seq(Frame) : Sends(opened + 1, r)
    BY <1>3, DeviceRequestSends
  <2> QED
    BY <2>1, SendsInv
<1>4. CASE \E s \in Streams : DeviceData(s) \/ DeviceEnd(s) \/ DeviceReset(s)
  <2>1. PICK s \in Streams : \E r \in Seq(Frame) : Sends(s, r)
    BY <1>4, DeviceSends
  <2> QED
    BY <2>1, SendsInv
<1>5. CASE \/ ReceiveData /\ UNCHANGED <<device, storage>>
           \/ DeviceRead \/ \E s \in Streams : GetAudio(s)
           \/ \E f \in Files : GetBin(f)
           \/ UNCHANGED vars
  <2>1. UNCHANGED <<link, wire, bodies, banked, utterance, responded, endpointers, answered,
                    up, spoke>>
    BY <1>5 DEF ReceiveData, DeviceRead, GetAudio, GetBin, vars, orbVars, transport, instance,
       history, device
  <2> QED
    BY <2>1, ElsewhereUpload
<1> QED
  BY <1>1, <1>2, <1>3, <1>4, <1>5, NextSteps

LEMMA InitUploadInv == Init => UploadInv
<1> SUFFICES ASSUME Init PROVE UploadInv
  OBVIOUS
<1>1. /\ link = "down" /\ DOMAIN wire = {}
      /\ \A s \in Streams : spoke[s] = 0 /\ banked[s] = 0 /\ utterance[s] = 0
  BY DEF Init, OrbInit
<1> QED
  BY <1>1 DEF UploadInv, WireOpened, Counted, Kept, Untouched, CleanRequest, CleanTurn

\* The invariant of uploads, beside those of turns, messages and streams.
THEOREM UploadInvariance == Spec => [](IInv /\ StreamInv /\ UploadInv)
<1>1. IInv /\ ReplyInv /\ StreamInv /\ UploadInv /\ [Next]_vars
        => (IInv /\ ReplyInv /\ StreamInv /\ UploadInv)'
  BY NextIInv, NextReplyInv, NextStreamInv, NextUploadInv
<1> QED
  BY <1>1, InitIInv, InitReplyInv, InitStreamInv, InitUploadInv, PTL DEF Spec

\* No audio is lost to early answers, re-triggers and resets: once the server
\* has seen the end of an upload, all of it is on disk, or the server cut the
\* turn short and kept exactly the utterance it saved.
THEOREM NothingIsLost == Spec => []UploadBanked
<1>1. ASSUME UploadInv, NEW s \in Streams, Settled(s)
      PROVE  Banked(s)
  <2>1. ~Closing(s)
    BY <1>1 DEF Settled, Closing, OnWire
  <2> QED
    BY <1>1, <2>1 DEF UploadInv, Kept, Settled
<1>2. UploadInv => UploadBanked
  BY <1>1 DEF UploadBanked, Banked
<1> QED
  BY <1>2, UploadInvariance, PTL
=============================================================================
