----------------------------- MODULE SignalPath -----------------------------
(***************************************************************************)
(* What a tick of the audio engine does to a stream: the playback          *)
(* reference and its voice detector (audio/reference/processor.go), the    *)
(* stream's level calibration, noise floor, voice detector and gate        *)
(* (audio/processor/pipeline.go).  Calibration feeds back: the floor and   *)
(* the detector see the levels it has raised, and the floor stands still   *)
(* while the detector is on.                                               *)
(*                                                                         *)
(* Levels are whole numbers of a unit of the model's own, at or below 0.   *)
(* An exponential average moves to some value between its own and the new  *)
(* one: the model leaves open to which.  Time is counted in ticks.         *)
(***************************************************************************)
EXTENDS Integers

CONSTANTS
  Levels,        \* levels of a microphone or reference frame
  StartFloor,    \* NoiseFloorDbfs of a new pipeline
  Target,        \* targetSpeechDbfs
  ClampMin, ClampMax,  \* calibrationGainClampDb
  SnrOn, SnrOff, \* vadSnrOnDb, vadSnrOffDb
  RefOn, RefOff, \* referenceVadOnDbfs, referenceVadOffDbfs
  Hangover       \* vadHangoverMs, in ticks

ASSUME SignalAssumption ==
  /\ Levels \subseteq Int /\ \A l \in Levels : l <= 0
  /\ StartFloor \in Int /\ Target \in Int
  /\ ClampMin \in Int /\ ClampMax \in Int /\ ClampMin <= 0 /\ 0 <= ClampMax
  /\ SnrOff \in Nat /\ SnrOn \in Nat /\ SnrOff <= SnrOn
  /\ RefOff \in Int /\ RefOn \in Int /\ RefOff <= RefOn
  /\ Hangover \in Nat

NoFrame == 1

VARIABLES
  refFrame,   \* level of Processor.frameBuf, or NoFrame
  refHang,    \* ticks until Processor.holdUntil
  refVad,     \* Processor.vad, and ReferenceMetrics.Active
  floor,      \* State.NoiseFloorDbfs
  speech,     \* State.SpeechLevelDbfs
  gain,       \* State.CalibrationGain, as a level
  micHang,    \* ticks until State.VadHangoverUntil
  micVad,     \* State.Vad
  gateOpen,   \* State.GateOpen
  ducked,     \* State.DuckingGainDb is ReferenceDuckDb
  refWeak, micWeak \* history: ticks since a frame that kept the detector on

refVars == <<refFrame, refHang, refVad, refWeak>>
levelVars == <<floor, speech, gain, micHang, micVad, gateOpen, ducked, micWeak>>
signalVars == <<refVars, levelVars>>

SignalInit ==
  /\ refFrame = NoFrame /\ refHang = 0 /\ refVad = FALSE
  /\ floor = StartFloor /\ speech = 0 /\ gain = 0
  /\ micHang = 0 /\ micVad = FALSE /\ gateOpen = FALSE /\ ducked = FALSE
  /\ refWeak = 0 /\ micWeak = 0

-----------------------------------------------------------------------------
(* Levels.                                                                  *)

Lower(a, b) == IF a < b THEN a ELSE b
Higher(a, b) == IF a < b THEN b ELSE a
Average(old, new) == Lower(old, new) .. Higher(old, new)

Clamped_NoMax(l) == Higher(l, ClampMin)
Clamped(l) == Lower(Higher(l, ClampMin), ClampMax)

\* A detector that is off is switched on above one threshold, one that is on is kept on
\* at or above another and ends when its hangover has passed.
Detects_NoHangover(on, hang, strong, kept) == (on /\ kept) \/ (~on /\ strong)
Detects(on, hang, strong, kept) ==
  IF on THEN kept \/ hang > 0 ELSE strong
HangAfter(on, hang, strong, kept) ==
  IF (on /\ kept) \/ (~on /\ strong) THEN Hangover ELSE Higher(hang - 1, 0)
WeakAfter(weak, on, strong, kept) ==
  IF (on /\ kept) \/ (~on /\ strong) THEN 0 ELSE Lower(weak + 1, Hangover + 2)

-----------------------------------------------------------------------------
(* The reference: PushFrame, Read, ProcessFrame.                            *)

\* A read that is short of a frame is dropped, and the last whole frame stands in for
\* it, tick after tick.
PushFrame(level) == refFrame' \in {refFrame, level}

ProcessFrame ==
  IF refFrame' = NoFrame
  THEN UNCHANGED <<refHang, refVad, refWeak>>
  ELSE LET strong == refFrame' > RefOn
           kept == refFrame' >= RefOff IN
       /\ refVad' = Detects(refVad, refHang, strong, kept)
       /\ refHang' = HangAfter(refVad, refHang, strong, kept)
       /\ refWeak' = WeakAfter(refWeak, refVad, strong, kept)

-----------------------------------------------------------------------------
(* The pipeline: Process.                                                   *)

UpdateNoiseFloor(rms) == IF micVad THEN floor' = floor ELSE floor' \in Average(floor, rms)

UpdateVAD(snr) ==
  LET strong == snr > SnrOn
      kept == snr >= SnrOff IN
  /\ micVad' = Detects(micVad, micHang, strong, kept)
  /\ micHang' = HangAfter(micVad, micHang, strong, kept)
  /\ micWeak' = WeakAfter(micWeak, micVad, strong, kept)

\* updateCalibration: a level of exactly 0 counts as none.
Calibrate(rms) ==
  IF micVad'
  THEN /\ speech' \in Average(speech, rms)
       /\ IF speech' = 0 THEN gain' = gain ELSE gain' \in Average(gain, Clamped(Target - speech'))
  ELSE UNCHANGED <<speech, gain>>

Process(level) ==
  LET rms == level + gain IN
  /\ UpdateNoiseFloor(rms)
  /\ UpdateVAD(rms - floor')
  /\ Calibrate(rms)
  /\ gateOpen' = (micVad' \/ rms > RefOff)
  /\ ducked' = refVad'

-----------------------------------------------------------------------------

\* Engine.tick for one stream.
SignalTick(level, played) ==
  /\ PushFrame(played)
  /\ ProcessFrame
  /\ Process(level)

SignalNext == \E level, played \in Levels : SignalTick(level, played)

SignalSpec == SignalInit /\ [][SignalNext]_signalVars
-----------------------------------------------------------------------------
(* Properties.                                                              *)

\* Every variable has its type; whatever calibration, floor and detector make of each
\* other, the gain stays between the limits of the configuration.
SignalTypeOK ==
  /\ refFrame \in Levels \cup {NoFrame}
  /\ refHang \in 0 .. Hangover /\ micHang \in 0 .. Hangover
  /\ refVad \in BOOLEAN /\ micVad \in BOOLEAN
  /\ gateOpen \in BOOLEAN /\ ducked \in BOOLEAN
  /\ floor \in Int /\ speech \in Int
  /\ gain \in ClampMin .. ClampMax
  /\ refWeak \in 0 .. Hangover + 2 /\ micWeak \in 0 .. Hangover + 2

\* A detector outlasts the voice it detects by its hangover, no less, so that a pause
\* between words is no end, and no more, so that it does end: seen in the levels it is
\* given, whatever calibration did to them (pipeline.go:231-246; processor.go:64-79).
HangoverKept ==
  [][ /\ micVad' => micWeak' <= Hangover
      /\ micVad /\ ~micVad' => micWeak' > Hangover
      /\ refVad' => refWeak' <= Hangover
      /\ refVad /\ ~refVad' => refWeak' > Hangover ]_signalVars
=============================================================================
