------------------------------ MODULE Endpointer ------------------------------
(***************************************************************************)
(* server/orb_server.py, class Endpointer: the per-stream gate that ends a  *)
(* turn.  feed() gets the PCM of one DATA event, of any length; it cuts the *)
(* stream into frames of FB bytes, carries a remainder over to the next     *)
(* call, has the VAD judge each frame, and returns a verdict at most once.  *)
(* A call is modelled step by step: Feed is the call, Judge one round of    *)
(* its loop, Return its normal end; a verdict ends the call as well.        *)
(*                                                                          *)
(* Abstractions.  The VAD is deterministic over the frames of a stream      *)
(* (its state and context are threaded from frame to frame), so its answers *)
(* are fixed with the audio: audio[i] says whether frame i is speech        *)
(* (p >= VAD_THRESHOLD).  maxprob and the seconds returned are left out.    *)
(***************************************************************************)
EXTENDS Naturals

CONSTANTS
  N, Hang, MaxFr, BailFr,   \* as in TurnDetector
  FB,                       \* bytes per frame
  MaxChunk                  \* bytes of one DATA event (bound)

ASSUME EndpointerAssumption ==
  /\ N \in Nat /\ Hang \in Nat \ {0}
  /\ MaxFr \in Nat \ {0} /\ BailFr \in Nat \ {0}
  /\ FB \in Nat \ {0} /\ MaxChunk \in Nat

VARIABLES
  audio,      \* what the VAD answers on each frame of this turn
  sent,       \* bytes of it handed to feed() so far
  feeding,    \* a call of feed() is running
  buf,        \* bytes in self.buf
  started, silence, frames, fired,
  verdict     \* the kind returned by the call that fired, else "none"

vars == <<audio, sent, feeding, buf, started, silence, frames, fired, verdict>>

Detector == INSTANCE TurnDetector

TypeOK ==
  /\ audio \in [1..N -> BOOLEAN]
  /\ sent \in 0..(N * FB)
  /\ feeding \in BOOLEAN
  /\ buf \in Nat
  /\ started \in BOOLEAN
  /\ silence \in Nat
  /\ frames \in Nat
  /\ fired \in BOOLEAN
  /\ verdict \in {"none", "endpoint", "initbail", "maxcap"}

Init ==
  /\ audio \in [1..N -> BOOLEAN]
  /\ sent = 0 /\ feeding = FALSE
  /\ buf = 0 /\ started = FALSE /\ silence = 0
  /\ frames = 0 /\ fired = FALSE /\ verdict = "none"

\* Mutant of FeedWhole: what a call leaves over is lost.
FeedWhole_DropsRemainder(n) ==
  /\ buf' = n
  /\ feeding' = TRUE

FeedWhole(n) ==
  /\ buf' = buf + n
  /\ feeding' = TRUE

\* Mutant of Shut: the verdict does not shut the gate.
Shut_Never == FALSE

\* `if self.fired': the gate is shut.
Shut == fired

\* feed(data) with n bytes: after the verdict it returns at once.
Feed(n) ==
  /\ ~feeding
  /\ sent + n <= N * FB
  /\ sent' = sent + n
  /\ IF Shut THEN UNCHANGED <<buf, feeding>> ELSE FeedWhole(n)
  /\ UNCHANGED <<audio, started, silence, frames, fired, verdict>>

\* The call gives kind k and is over.
Fire(k) ==
  /\ fired' = TRUE /\ verdict' = k
  /\ feeding' = FALSE

GoOn == UNCHANGED <<fired, verdict, feeding>>

\* `self.frames >= self.max_fr', f being the frames judged so far.
MaxCap(f) == f >= MaxFr

\* A frame of speech.
JudgeSpeech ==
  /\ started' = TRUE /\ silence' = 0
  /\ IF MaxCap(frames + 1) THEN Fire("maxcap") ELSE GoOn

\* Mutant of JudgeSilence: the count is tested before it is stepped.
JudgeSilence_OffByOne ==
  /\ started' = started
  /\ silence' = silence + 1
  /\ IF silence >= Hang THEN Fire("endpoint")
     ELSE IF MaxCap(frames + 1) THEN Fire("maxcap")
     ELSE GoOn

\* A silent frame after speech.
JudgeSilence ==
  /\ started' = started
  /\ silence' = silence + 1
  /\ IF silence + 1 >= Hang THEN Fire("endpoint")
     ELSE IF MaxCap(frames + 1) THEN Fire("maxcap")
     ELSE GoOn

\* Mutant of JudgeNothing: without speech the turn never ends.
JudgeNothing_Forever == UNCHANGED <<started, silence>> /\ GoOn

\* A silent frame before any speech.
JudgeNothing ==
  /\ UNCHANGED <<started, silence>>
  /\ IF frames + 1 >= BailFr THEN Fire("initbail") ELSE GoOn

\* Mutant of WholeFrame: a remainder is judged like a frame.
WholeFrame_Any == buf > 0

\* `while len(self.buf) >= self.FB'.
WholeFrame == buf >= FB

\* One round of the loop: the next frame leaves the buffer and is judged.
Judge ==
  /\ feeding /\ WholeFrame
  /\ buf' = buf - FB
  /\ frames' = frames + 1
  /\ \/ audio[frames + 1] /\ JudgeSpeech
     \/ ~audio[frames + 1] /\ started /\ JudgeSilence
     \/ ~audio[frames + 1] /\ ~started /\ JudgeNothing
  /\ UNCHANGED <<audio, sent>>

\* The loop runs out of whole frames: (None, None).
Return ==
  /\ feeding /\ ~WholeFrame
  /\ feeding' = FALSE
  /\ UNCHANGED <<audio, sent, buf, started, silence, frames, fired, verdict>>

Next == (\E n \in 0..MaxChunk : Feed(n)) \/ Judge \/ Return

Spec == Init /\ [][Next]_vars

\* A call that was made runs to its end.
FairSpec == Spec /\ WF_vars(Judge) /\ WF_vars(Return)

-----------------------------------------------------------------------------
\* No byte is lost or judged twice, however the audio was cut into calls, and
\* no whole frame is left waiting between two calls.
FramesInStep ==
  /\ ~fired => frames * FB + buf = sent
  /\ frames * FB <= sent
  /\ ~fired /\ ~feeding => buf < FB

\* Once a verdict is out the gate stays shut: what the device still sends is
\* neither judged nor kept, and the verdict does not change.
VerdictIsFinal == [][fired => UNCHANGED <<fired, verdict, frames, buf>>]_vars

\* Endpointer implements TurnDetector: the verdict is the one the audio calls
\* for, at the first frame that calls for one, for every way of cutting the
\* audio into chunks.
DetectsTurns == Detector!Spec

\* on_endpoint is reached for every turn that goes on long enough ("hard cap
\* on one utterance", "give up on the turn").
EveryTurnEnds == sent >= Detector!Cap * FB ~> fired
=============================================================================
