----------------------------- MODULE TurnDetector -----------------------------
(***************************************************************************)
(* What class Endpointer of server/orb_server.py promises: a verdict on a   *)
(* turn, given once, that depends on the audio alone.  The audio is the     *)
(* sequence of the VAD's answers, one Boolean (speech or not) per frame of  *)
(* 512 samples; nothing here knows of the chunks it arrives in.             *)
(***************************************************************************)
EXTENDS Naturals

CONSTANTS
  N,        \* frames the device may send in one turn (bound)
  Hang,     \* self.hang: silent frames after speech that end the turn
  MaxFr,    \* self.max_fr: frames an utterance may last
  BailFr    \* self.bail_fr: frames to wait for speech

VARIABLES audio, frames, verdict

\* Speech was heard in the first f frames.
Spoke(f) == \E i \in 1..f : audio[i]

\* The first f frames end in Hang silent ones, with speech before them.
EndpointAt(f) ==
  /\ Spoke(f) /\ f > Hang
  /\ \A i \in (f - Hang + 1)..f : ~audio[i]

\* Nobody spoke for BailFr frames.
BailAt(f) == ~Spoke(f) /\ f >= BailFr

\* The utterance goes on after MaxFr frames.
CapAt(f) == Spoke(f) /\ f >= MaxFr /\ ~EndpointAt(f)

Verdict(f) ==
  IF EndpointAt(f) THEN "endpoint"
  ELSE IF BailAt(f) THEN "initbail"
  ELSE IF CapAt(f) THEN "maxcap"
  ELSE "none"

\* By this frame some verdict has been given.
Cap == IF MaxFr > BailFr THEN MaxFr ELSE BailFr

Init ==
  /\ audio \in [1..N -> BOOLEAN]
  /\ frames = 0
  /\ verdict = "none"

\* One more frame is heard; the first verdict is the last step.
Hear ==
  /\ verdict = "none"
  /\ frames < N
  /\ frames' = frames + 1
  /\ verdict' = Verdict(frames + 1)
  /\ audio' = audio

Spec == Init /\ [][Hear]_<<audio, frames, verdict>>
=============================================================================
