-------------------------- MODULE Endpointer_proofs --------------------------
(***************************************************************************)
(* Endpointer implements TurnDetector, for every audio, every chunking and  *)
(* every value of the VAD's constants.                                      *)
(*                                                                          *)
(* The gate keeps two numbers and a flag where the abstract detector looks  *)
(* at the whole audio.  The inductive invariant says what they stand for:   *)
(* bytes are conserved (InStep), `started' is Spoke (StartedIsSpoke), and   *)
(* `silence' measures the distance to the last frame of speech              *)
(* (SilenceIsRun), which is still within the hangover.                      *)
(***************************************************************************)
EXTENDS Endpointer, TLAPS

\* Bytes are conserved while the gate is open; judged frames were all sent.
InStep ==
  /\ ~fired => frames * FB + buf = sent
  /\ frames * FB <= sent

\* Calls end with less than a frame in the buffer.
Drained == ~fired /\ ~feeding => buf < FB

\* The verdict, the flag and the call agree.
FiredIsVerdict == (fired <=> verdict # "none") /\ (fired => ~feeding)

StartedIsSpoke == ~fired => (started <=> Detector!Spoke(frames))

SilenceIsRun ==
  ~fired /\ started =>
    /\ silence < Hang /\ silence < frames
    /\ audio[frames - silence]
    /\ \A i \in (frames - silence + 1)..frames : ~audio[i]

IInv ==
  /\ TypeOK /\ InStep /\ Drained
  /\ FiredIsVerdict /\ StartedIsSpoke /\ SilenceIsRun

-----------------------------------------------------------------------------
\* The bytes of f + 1 frames are those of f frames and FB more.
LEMMA OneMoreFrame == ASSUME NEW f \in Nat
                      PROVE  /\ f * FB \in Nat
                             /\ (f + 1) * FB = f * FB + FB
  BY EndpointerAssumption, SMT

\* Frames whose bytes fit into the bytes of N frames are at most N.
LEMMA FramesFit == ASSUME NEW f \in Nat, f * FB <= N * FB
                   PROVE  f <= N
<1>1. FB \in Nat \ {0} /\ N \in Nat
  BY EndpointerAssumption
<1>2. SUFFICES ASSUME f >= N + 1 PROVE FALSE
  BY <1>1
<1>3. f * FB >= (N + 1) * FB
  BY <1>1, <1>2, SMT
<1>4. (N + 1) * FB = N * FB + FB /\ N * FB \in Nat
  BY <1>1, OneMoreFrame
<1> QED
  BY <1>1, <1>3, <1>4, SMT

\* A frame the loop takes off the buffer is one the device sent.
LEMMA JudgedWasSent == IInv /\ Judge => frames + 1 \in 1..N
<1> SUFFICES ASSUME IInv, Judge PROVE frames + 1 \in 1..N
  OBVIOUS
<1>1. ~fired
  BY DEF IInv, FiredIsVerdict, Judge
<1>2. /\ frames \in Nat /\ buf \in Nat /\ sent \in Nat /\ FB \in Nat \ {0} /\ N \in Nat
      /\ sent <= N * FB /\ buf >= FB /\ frames * FB + buf = sent
  <2>1. N * FB \in Nat
    BY EndpointerAssumption, OneMoreFrame
  <2> QED
    BY <1>1, <2>1, EndpointerAssumption DEF IInv, TypeOK, InStep, Judge, WholeFrame
<1>3. (frames + 1) * FB <= N * FB
  <2>1. (frames + 1) * FB = frames * FB + FB /\ frames * FB \in Nat
    BY <1>2, OneMoreFrame
  <2>2. N * FB \in Nat
    BY <1>2, OneMoreFrame
  <2> QED
    BY <1>2, <2>1, <2>2
<1> QED
  BY <1>2, <1>3, FramesFit

-----------------------------------------------------------------------------
\* What one more frame does to Spoke.
LEMMA SpokeStep == ASSUME NEW f \in Nat
                   PROVE  Detector!Spoke(f + 1) <=> Detector!Spoke(f) \/ audio[f + 1]
<1>1. 1..(f + 1) = (1..f) \cup {f + 1}
  OBVIOUS
<1> QED
  BY <1>1 DEF Detector!Spoke

\* Speech among the last Hang frames: the turn goes on.
LEMMA RecentSpeech == ASSUME NEW f, NEW i \in (f - Hang + 1)..f, audio[i]
                      PROVE  ~Detector!EndpointAt(f)
  BY Zenon DEF Detector!EndpointAt

\* Silence in all of the last Hang frames, after speech: the turn is over.
LEMMA LongSilence == ASSUME NEW f, Detector!Spoke(f), f > Hang,
                            \A i \in (f - Hang + 1)..f : ~audio[i]
                     PROVE  Detector!EndpointAt(f)
  BY Zenon DEF Detector!EndpointAt

\* The verdict a round of the loop gives is the one the audio calls for.
LEMMA JudgeVerdict == IInv /\ Judge => verdict' = Detector!Verdict(frames + 1)
<1> SUFFICES ASSUME IInv, Judge PROVE verdict' = Detector!Verdict(frames + 1)
  OBVIOUS
<1>0. /\ frames \in Nat /\ silence \in Nat /\ Hang \in Nat \ {0} /\ MaxFr \in Nat
      /\ BailFr \in Nat
  BY EndpointerAssumption DEF IInv, TypeOK
<1>1. ~fired /\ verdict = "none" /\ (started <=> Detector!Spoke(frames))
  BY DEF IInv, FiredIsVerdict, StartedIsSpoke, Judge
<1>2. Detector!Spoke(frames + 1) <=> started \/ audio[frames + 1]
  BY <1>0, <1>1, SpokeStep
<1>3. CASE audio[frames + 1] /\ JudgeSpeech
  <2>1. ~Detector!EndpointAt(frames + 1)
    <3>1. frames + 1 \in ((frames + 1) - Hang + 1)..(frames + 1)
      BY <1>0
    <3> QED
      BY <1>3, <3>1, RecentSpeech, Zenon
  <2>2. ~Detector!BailAt(frames + 1)
    BY <1>2, <1>3 DEF Detector!BailAt
  <2>3. Detector!CapAt(frames + 1) <=> frames + 1 >= MaxFr
    BY <1>2, <1>3, <2>1 DEF Detector!CapAt
  <2> QED
    BY <1>1, <1>3, <2>1, <2>2, <2>3 DEF JudgeSpeech, MaxCap, Fire, GoOn, Detector!Verdict
<1>4. CASE ~audio[frames + 1] /\ started /\ JudgeSilence
  <2>1. /\ silence < Hang /\ silence < frames
        /\ audio[frames - silence]
        /\ \A i \in (frames - silence + 1)..frames : ~audio[i]
    BY <1>1, <1>4 DEF IInv, SilenceIsRun
  <2>2. Detector!Spoke(frames + 1)
    BY <1>2, <1>4
  <2>3. Detector!EndpointAt(frames + 1) <=> silence + 1 >= Hang
    <3>1. CASE silence + 1 >= Hang
      <4>1. silence + 1 = Hang /\ frames + 1 > Hang
        BY <1>0, <2>1, <3>1
      <4>2. \A i \in ((frames + 1) - Hang + 1)..(frames + 1) :
              i = frames + 1 \/ i \in (frames - silence + 1)..frames
        BY <1>0, <4>1
      <4>3. \A i \in ((frames + 1) - Hang + 1)..(frames + 1) : ~audio[i]
        BY <1>4, <2>1, <4>2
      <4> QED
        BY <2>2, <3>1, <4>1, <4>3, LongSilence, Zenon
    <3>2. CASE ~(silence + 1 >= Hang)
      <4>1. frames - silence \in ((frames + 1) - Hang + 1)..(frames + 1)
        BY <1>0, <2>1, <3>2
      <4> QED
        BY <2>1, <3>2, <4>1, RecentSpeech, Zenon
    <3> QED
      BY <3>1, <3>2
  <2>4. ~Detector!BailAt(frames + 1)
    BY <2>2 DEF Detector!BailAt
  <2>5. Detector!CapAt(frames + 1) <=> frames + 1 >= MaxFr /\ ~(silence + 1 >= Hang)
    BY <2>2, <2>3 DEF Detector!CapAt
  <2> QED
    BY <1>1, <1>4, <2>3, <2>4, <2>5 DEF JudgeSilence, MaxCap, Fire, GoOn, Detector!Verdict
<1>5. CASE ~audio[frames + 1] /\ ~started /\ JudgeNothing
  <2>1. ~Detector!Spoke(frames + 1)
    BY <1>2, <1>5
  <2>2. ~Detector!EndpointAt(frames + 1) /\ ~Detector!CapAt(frames + 1)
    BY <2>1 DEF Detector!EndpointAt, Detector!CapAt
  <2>3. Detector!BailAt(frames + 1) <=> frames + 1 >= BailFr
    BY <2>1 DEF Detector!BailAt
  <2> QED
    BY <1>1, <1>5, <2>2, <2>3 DEF JudgeNothing, Fire, GoOn, Detector!Verdict
<1> QED
  BY <1>3, <1>4, <1>5 DEF Judge

-----------------------------------------------------------------------------
LEMMA InitIInv == Init => IInv
<1> SUFFICES ASSUME Init PROVE IInv
  OBVIOUS
<1>1. N * FB \in Nat /\ 0 * FB = 0 /\ FB > 0
  BY EndpointerAssumption, OneMoreFrame, SMT
<1>2. ~Detector!Spoke(0)
  BY DEF Detector!Spoke
<1>3. TypeOK
  <2>1. 0 \in 0..(N * FB) /\ 0 \in Nat
    BY <1>1
  <2> QED
    BY <2>1, Zenon DEF Init, TypeOK
<1>4. InStep /\ Drained
  BY <1>1 DEF Init, InStep, Drained
<1>5. FiredIsVerdict /\ SilenceIsRun
  BY DEF Init, FiredIsVerdict, SilenceIsRun
<1>6. StartedIsSpoke
  BY <1>2 DEF Init, StartedIsSpoke
<1> QED
  BY <1>3, <1>4, <1>5, <1>6 DEF IInv

\* A call of feed() only adds bytes, and none to a gate that has fired.
LEMMA FeedIInv == ASSUME IInv, NEW n \in 0..MaxChunk, Feed(n)
                  PROVE  IInv'
<1>0. /\ n \in Nat /\ N * FB \in Nat /\ frames * FB \in Nat
      /\ frames \in Nat /\ buf \in Nat /\ sent \in Nat
  BY EndpointerAssumption, OneMoreFrame DEF IInv, TypeOK
<1>1. TypeOK'
  <2>1. sent' \in 0..(N * FB) /\ buf' \in Nat
    BY <1>0 DEF Feed, FeedWhole, Shut
  <2>2. feeding' \in BOOLEAN
    BY Zenon DEF IInv, TypeOK, Feed, FeedWhole, Shut
  <2> QED
    BY <2>1, <2>2 DEF IInv, TypeOK, Feed
<1>2. InStep'
  BY <1>0 DEF IInv, InStep, Feed, FeedWhole, Shut
<1>3. Drained'
  BY DEF IInv, Drained, Feed, FeedWhole, Shut
<1>4. FiredIsVerdict'
  BY DEF IInv, FiredIsVerdict, Feed, FeedWhole, Shut
<1>5. StartedIsSpoke' /\ SilenceIsRun'
  BY DEF IInv, StartedIsSpoke, SilenceIsRun, Feed, Detector!Spoke
<1> QED
  BY <1>1, <1>2, <1>3, <1>4, <1>5 DEF IInv

\* A round of the loop moves one frame from the buffer to the judged ones.
LEMMA JudgeIInv == IInv /\ Judge => IInv'
<1> SUFFICES ASSUME IInv, Judge PROVE IInv'
  OBVIOUS
<1>0. /\ frames \in Nat /\ buf \in Nat /\ sent \in Nat /\ silence \in Nat
      /\ FB \in Nat \ {0} /\ Hang \in Nat \ {0} /\ frames + 1 \in 1..N
  BY EndpointerAssumption, JudgedWasSent DEF IInv, TypeOK
<1>1. fired = FALSE /\ verdict = "none" /\ feeding = TRUE
  BY DEF IInv, TypeOK, FiredIsVerdict, Judge
<1>2. /\ frames' = frames + 1 /\ buf' = buf - FB /\ buf >= FB
      /\ audio' = audio /\ sent' = sent
  BY DEF Judge, WholeFrame
<1>3. \/ fired' = TRUE /\ feeding' = FALSE /\ verdict' \in {"endpoint", "initbail", "maxcap"}
      \/ UNCHANGED <<fired, verdict, feeding>>
  BY DEF Judge, JudgeSpeech, JudgeSilence, JudgeNothing, Fire, GoOn
<1>4. TypeOK'
  <2>1. silence' \in {0, silence, silence + 1} /\ started' \in {TRUE, started}
    BY DEF Judge, JudgeSpeech, JudgeSilence, JudgeNothing
  <2>2. /\ fired' \in BOOLEAN /\ feeding' \in BOOLEAN
        /\ verdict' \in {"none", "endpoint", "initbail", "maxcap"}
    BY <1>1, <1>3
  <2>3. started' \in BOOLEAN
    BY <2>1, Zenon DEF IInv, TypeOK
  <2>4. frames' \in Nat /\ buf' \in Nat /\ silence' \in Nat
    BY <1>0, <1>2, <2>1
  <2> QED
    BY <1>2, <2>2, <2>3, <2>4 DEF IInv, TypeOK
<1>5. InStep'
  <2>1. (frames + 1) * FB = frames * FB + FB /\ frames * FB \in Nat
    BY <1>0, OneMoreFrame
  <2>2. frames * FB + buf = sent
    BY <1>1 DEF IInv, InStep
  <2> QED
    BY <1>0, <1>2, <2>1, <2>2 DEF InStep
<1>6. Drained' /\ FiredIsVerdict'
  <2>1. CASE fired' = TRUE /\ feeding' = FALSE /\ verdict' \in {"endpoint", "initbail", "maxcap"}
    BY <2>1 DEF Drained, FiredIsVerdict
  <2>2. CASE UNCHANGED <<fired, verdict, feeding>>
    BY <1>1, <2>2 DEF Drained, FiredIsVerdict
  <2> QED
    BY <1>3, <2>1, <2>2
<1>7. StartedIsSpoke'
  <2>1. started' <=> started \/ audio[frames + 1]
    BY DEF Judge, JudgeSpeech, JudgeSilence, JudgeNothing
  <2>2. Detector!Spoke(frames + 1) <=> Detector!Spoke(frames) \/ audio[frames + 1]
    BY <1>0, SpokeStep
  <2>3. Detector!Spoke(frames)' <=> Detector!Spoke(frames + 1)
    BY <1>2 DEF Detector!Spoke
  <2>4. started <=> Detector!Spoke(frames)
    BY <1>1 DEF IInv, StartedIsSpoke
  <2> QED
    BY <2>1, <2>2, <2>3, <2>4 DEF StartedIsSpoke
<1>8. SilenceIsRun'
  <2>1. CASE audio[frames + 1] /\ JudgeSpeech
    BY <1>0, <1>2, <2>1 DEF SilenceIsRun, JudgeSpeech
  <2>2. CASE ~audio[frames + 1] /\ started /\ JudgeSilence
    <3>1. /\ silence < Hang /\ silence < frames
          /\ audio[frames - silence]
          /\ \A i \in (frames - silence + 1)..frames : ~audio[i]
      BY <1>1, <2>2 DEF IInv, SilenceIsRun
    <3>2. silence' = silence + 1 /\ (~fired' => silence + 1 < Hang)
      BY <1>0, <2>2 DEF JudgeSilence, Fire, GoOn
    <3>3. frames' - silence' = frames - silence
      BY <1>0, <1>2, <3>2
    <3>4. \A i \in (frames' - silence' + 1)..frames' :
            i = frames + 1 \/ i \in (frames - silence + 1)..frames
      BY <1>0, <1>2, <3>3
    <3>5. \A i \in (frames' - silence' + 1)..frames' : ~audio'[i]
      BY <1>2, <2>2, <3>1, <3>4, Zenon
    <3>6. audio'[frames' - silence'] /\ silence' < frames'
      BY <1>0, <1>2, <3>1, <3>2, <3>3
    <3> QED
      BY <3>2, <3>5, <3>6 DEF SilenceIsRun
  <2>3. CASE ~audio[frames + 1] /\ ~started /\ JudgeNothing
    BY <2>3 DEF SilenceIsRun, JudgeNothing
  <2> QED
    BY <2>1, <2>2, <2>3 DEF Judge
<1> QED
  BY <1>4, <1>5, <1>6, <1>7, <1>8 DEF IInv

LEMMA NextIInv == IInv /\ [Next]_vars => IInv'
<1> SUFFICES ASSUME IInv, [Next]_vars PROVE IInv'
  OBVIOUS
<1>1. CASE \E n \in 0..MaxChunk : Feed(n)
  BY <1>1, FeedIInv
<1>2. CASE Judge
  BY <1>2, JudgeIInv
<1>3. CASE Return
  <2>1. buf < FB /\ feeding' = FALSE
    BY <1>3, EndpointerAssumption DEF Return, WholeFrame, IInv, TypeOK
  <2>2. UNCHANGED <<audio, sent, buf, started, silence, frames, fired, verdict>>
    BY <1>3 DEF Return
  <2>3. TypeOK' /\ InStep' /\ Drained' /\ FiredIsVerdict'
    BY <2>1, <2>2 DEF IInv, TypeOK, InStep, Drained, FiredIsVerdict
  <2>4. StartedIsSpoke' /\ SilenceIsRun'
    BY <2>2 DEF IInv, StartedIsSpoke, SilenceIsRun, Detector!Spoke
  <2> QED
    BY <2>3, <2>4 DEF IInv
<1>4. CASE UNCHANGED vars
  BY <1>4 DEF vars, IInv, TypeOK, InStep, Drained, FiredIsVerdict, StartedIsSpoke,
              SilenceIsRun, Detector!Spoke
<1> QED
  BY <1>1, <1>2, <1>3, <1>4 DEF Next

\* The variables of the gate stand for the audio heard so far, in every
\* reachable state (Endpointer.feed).
THEOREM Invariance == Spec => []IInv
  BY InitIInv, NextIInv, PTL DEF Spec

\* self.buf, self.frames, self.silence stay counts, self.started, self.fired
\* flags (Endpointer.__init__, feed).
THEOREM TypeCorrect == Spec => []TypeOK
<1>1. IInv => TypeOK
  BY DEF IInv
<1> QED
  BY <1>1, Invariance, PTL

-----------------------------------------------------------------------------
\* No byte of an upload is lost or judged twice, however the audio is cut
\* into DATA events (self.buf in Endpointer.feed).
THEOREM BytesConserved == Spec => []FramesInStep
<1>1. IInv => FramesInStep
  BY DEF IInv, InStep, Drained, FramesInStep
<1> QED
  BY <1>1, Invariance, PTL

\* After its verdict the gate neither listens nor changes its mind
\* (`if self.fired').
THEOREM Final == Spec => VerdictIsFinal
<1>1. IInv /\ [Next]_vars => [fired => UNCHANGED <<fired, verdict, frames, buf>>]_vars
  <2> SUFFICES ASSUME IInv, [Next]_vars, fired
               PROVE  UNCHANGED <<fired, verdict, frames, buf>>
    OBVIOUS
  <2>1. ~feeding
    BY DEF IInv, FiredIsVerdict
  <2> QED
    BY <2>1 DEF Next, Feed, Shut, Judge, Return, vars
<1> QED
  BY <1>1, Invariance, PTL DEF Spec, VerdictIsFinal

\* The gate implements the detector: the first verdict the audio calls for,
\* at the frame that calls for it, for every chunking of every audio.
THEOREM Refinement == Spec => DetectsTurns
<1>1. Init => Detector!Init
  BY DEF Init, Detector!Init
<1>2. IInv /\ [Next]_vars => [Detector!Hear]_<<audio, frames, verdict>>
  <2> SUFFICES ASSUME IInv, [Next]_vars
               PROVE  [Detector!Hear]_<<audio, frames, verdict>>
    OBVIOUS
  <2>1. CASE Judge
    <3>1. frames + 1 \in 1..N /\ frames \in Nat /\ N \in Nat
      BY <2>1, JudgedWasSent, EndpointerAssumption DEF IInv, TypeOK
    <3>2. frames < N
      BY <3>1
    <3>3. verdict = "none" /\ verdict' = Detector!Verdict(frames + 1)
      BY <2>1, JudgeVerdict DEF IInv, FiredIsVerdict, Judge
    <3> QED
      BY <2>1, <3>2, <3>3 DEF Judge, Detector!Hear
  <2>2. CASE \E n \in 0..MaxChunk : Feed(n)
    BY <2>2 DEF Feed
  <2>3. CASE Return
    BY <2>3 DEF Return
  <2>4. CASE UNCHANGED vars
    BY <2>4 DEF vars
  <2> QED
    BY <2>1, <2>2, <2>3, <2>4 DEF Next
<1> QED
  BY <1>1, <1>2, Invariance, PTL DEF Spec, DetectsTurns, Detector!Spec
=============================================================================
