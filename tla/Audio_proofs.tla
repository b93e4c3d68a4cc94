----------------------------- MODULE Audio_proofs -----------------------------
(***************************************************************************)
(* What a tick of the audio engine makes of its levels (SignalPath) and    *)
(* of the rings and samples of the loop delay (DelayTracker), for every    *)
(* threshold, hangover, clamp and length of a ring; and the types of the   *)
(* four models that the run of the audio path checks side by side.         *)
(*                                                                         *)
(* A detector's hangover is kept because the ticks without a voice and the *)
(* ticks left to it add up to the hangover while it is on.  The rings      *)
(* realign because their newest chunks agree, as many of them as were fed  *)
(* in whole frames since the last short one.  An estimate is recent        *)
(* because what it is made of is filtered when it is published.            *)
(***************************************************************************)
EXTENDS MC_Audio, Selector_proofs, SpscRing_proofs, FiniteSetTheorems, TLAPS

-----------------------------------------------------------------------------
(* The voice detectors.                                                     *)

DetectorOK(on, hang, weak) ==
  /\ on \in BOOLEAN
  /\ hang \in 0 .. Hangover
  /\ weak \in 0 .. Hangover + 2
  /\ on => weak + hang = Hangover

\* One step of either detector, whatever the levels say.
LEMMA DetectorStep ==
  ASSUME NEW on, NEW hang, NEW weak, DetectorOK(on, hang, weak),
         NEW strong \in BOOLEAN, NEW kept \in BOOLEAN,
         NEW on2, on2 = Detects(on, hang, strong, kept),
         NEW hang2, hang2 = HangAfter(on, hang, strong, kept),
         NEW weak2, weak2 = WeakAfter(weak, on, strong, kept)
  PROVE  /\ DetectorOK(on2, hang2, weak2)
         /\ on2 => weak2 <= Hangover
         /\ on /\ ~on2 => weak2 > Hangover
BY SignalAssumption
   DEF SignalAssumption, DetectorOK, Detects, HangAfter, WeakAfter, Higher, Lower

\* An average of two levels is between them.
LEMMA AverageBetween ==
  ASSUME NEW lo \in Int, NEW hi \in Int, NEW a \in lo .. hi, NEW b \in lo .. hi,
         NEW c \in Average(a, b)
  PROVE  c \in lo .. hi
BY DEF Average, Lower, Higher

\* An average of two levels is a level.
LEMMA AverageIsLevel ==
  ASSUME NEW a \in Int, NEW b \in Int, NEW c \in Average(a, b)
  PROVE  c \in Int
BY DEF Average, Lower, Higher

\* A clamped level is within the clamp.
LEMMA ClampedInClamp ==
  ASSUME NEW l \in Int
  PROVE  Clamped(l) \in ClampMin .. ClampMax
BY SignalAssumption DEF SignalAssumption, Clamped, Lower, Higher

SignalInv ==
  /\ refFrame \in Levels \cup {NoFrame}
  /\ gateOpen \in BOOLEAN /\ ducked \in BOOLEAN
  /\ floor \in Int /\ speech \in Int
  /\ gain \in ClampMin .. ClampMax
  /\ DetectorOK(refVad, refHang, refWeak)
  /\ DetectorOK(micVad, micHang, micWeak)

\* What HangoverKept says of a step.
HangoverStep ==
  /\ micVad' => micWeak' <= Hangover
  /\ micVad /\ ~micVad' => micWeak' > Hangover
  /\ refVad' => refWeak' <= Hangover
  /\ refVad /\ ~refVad' => refWeak' > Hangover

\* Both detectors are off at the start.
LEMMA SignalInvInit == SignalInit => SignalInv
<1> SUFFICES ASSUME SignalInit PROVE SignalInv
  OBVIOUS
<1>1. 0 \in 0 .. Hangover /\ 0 \in 0 .. Hangover + 2
  BY SignalAssumption DEF SignalAssumption
<1>2. DetectorOK(FALSE, 0, 0)
  BY <1>1 DEF DetectorOK
<1>3. refVad = FALSE /\ refHang = 0 /\ refWeak = 0 /\ micVad = FALSE /\ micHang = 0 /\ micWeak = 0
  BY DEF SignalInit
<1>4. DetectorOK(refVad, refHang, refWeak) /\ DetectorOK(micVad, micHang, micWeak)
  BY <1>2, <1>3, Zenon
<1>5. floor \in Int /\ speech \in Int /\ gain \in ClampMin .. ClampMax
  BY SignalAssumption DEF SignalAssumption, SignalInit
<1>6. refFrame = NoFrame /\ gateOpen \in BOOLEAN /\ ducked \in BOOLEAN
  BY DEF SignalInit
<1>7. QED
  BY <1>4, <1>5, <1>6 DEF SignalInv

\* The reference's detector in a tick.
LEMMA ReferenceStep ==
  ASSUME SignalInv, NEW played \in Levels, PushFrame(played), ProcessFrame
  PROVE  /\ refFrame' \in Levels \cup {NoFrame}
         /\ DetectorOK(refVad, refHang, refWeak)'
         /\ refVad' => refWeak' <= Hangover
         /\ refVad /\ ~refVad' => refWeak' > Hangover
<1>1. refFrame' \in Levels \cup {NoFrame}
  BY DEF PushFrame, SignalInv
<1>2. CASE refFrame' = NoFrame
  BY <1>1, <1>2, SignalAssumption DEF ProcessFrame, SignalInv, DetectorOK, SignalAssumption
<1>3. CASE refFrame' # NoFrame
  <2> DEFINE strong == refFrame' > RefOn
             kept == refFrame' >= RefOff
  <2>1. refFrame' \in Int /\ RefOn \in Int /\ RefOff \in Int
    BY <1>1, <1>3, SignalAssumption DEF SignalAssumption
  <2>2. strong \in BOOLEAN /\ kept \in BOOLEAN
    BY <2>1
  <2>3. /\ refVad' = Detects(refVad, refHang, strong, kept)
        /\ refHang' = HangAfter(refVad, refHang, strong, kept)
        /\ refWeak' = WeakAfter(refWeak, refVad, strong, kept)
    BY <1>3 DEF ProcessFrame
  <2> HIDE DEF strong, kept
  <2>4. DetectorOK(refVad, refHang, refWeak)
    BY DEF SignalInv
  <2>5. /\ DetectorOK(refVad', refHang', refWeak')
        /\ refVad' => refWeak' <= Hangover
        /\ refVad /\ ~refVad' => refWeak' > Hangover
    BY <2>2, <2>3, <2>4, DetectorStep, Z3
  <2>6. QED
    BY <1>1, <2>5 DEF DetectorOK
<1>4. QED
  BY <1>2, <1>3

\* The stream's detector, floor and gain in a tick.
LEMMA StreamStep ==
  ASSUME SignalInv, NEW level \in Levels, Process(level)
  PROVE  /\ floor' \in Int /\ speech' \in Int /\ gain' \in ClampMin .. ClampMax
         /\ DetectorOK(micVad, micHang, micWeak)'
         /\ micVad' => micWeak' <= Hangover
         /\ micVad /\ ~micVad' => micWeak' > Hangover
<1> DEFINE rms == level + gain
<1>1. rms \in Int
  BY SignalAssumption DEF SignalAssumption, SignalInv
<1>2. UpdateNoiseFloor(rms) /\ UpdateVAD(rms - floor') /\ Calibrate(rms)
  BY DEF Process
<1> HIDE DEF rms
<1>3. floor' \in Int
  BY <1>1, <1>2, AverageIsLevel DEF UpdateNoiseFloor, SignalInv
<1>4. /\ DetectorOK(micVad, micHang, micWeak)'
      /\ micVad' => micWeak' <= Hangover
      /\ micVad /\ ~micVad' => micWeak' > Hangover
  <2> DEFINE snr == rms - floor'
             strong == snr > SnrOn
             kept == snr >= SnrOff
  <2>1. snr \in Int /\ SnrOn \in Int /\ SnrOff \in Int
    BY <1>1, <1>3, SignalAssumption DEF SignalAssumption
  <2>2. strong \in BOOLEAN /\ kept \in BOOLEAN
    BY <2>1
  <2>3. /\ micVad' = Detects(micVad, micHang, strong, kept)
        /\ micHang' = HangAfter(micVad, micHang, strong, kept)
        /\ micWeak' = WeakAfter(micWeak, micVad, strong, kept)
    BY <1>2 DEF UpdateVAD
  <2> HIDE DEF snr, strong, kept
  <2>4. DetectorOK(micVad, micHang, micWeak)
    BY DEF SignalInv
  <2>5. /\ DetectorOK(micVad', micHang', micWeak')
        /\ micVad' => micWeak' <= Hangover
        /\ micVad /\ ~micVad' => micWeak' > Hangover
    BY <2>2, <2>3, <2>4, DetectorStep, Z3
  <2>6. QED
    BY <2>5 DEF DetectorOK
<1>5. speech' \in Int
  BY <1>1, <1>2, AverageIsLevel DEF Calibrate, SignalInv
<1>6. gain' \in ClampMin .. ClampMax
  <2>1. Target - speech' \in Int
    BY <1>5, SignalAssumption DEF SignalAssumption
  <2>2. Clamped(Target - speech') \in ClampMin .. ClampMax
    BY <2>1, ClampedInClamp
  <2>3. CASE gain' = gain
    BY <2>3 DEF SignalInv
  <2>4. CASE gain' \in Average(gain, Clamped(Target - speech'))
    BY <2>2, <2>4, AverageBetween, SignalAssumption DEF SignalInv, SignalAssumption
  <2>5. QED
    BY <1>2, <2>3, <2>4 DEF Calibrate
<1>7. QED
  BY <1>3, <1>4, <1>5, <1>6

\* A tick keeps the invariant and both hangovers.
LEMMA SignalStepKeeps ==
  ASSUME SignalInv, [SignalNext]_signalVars
  PROVE  SignalInv' /\ (SignalNext => HangoverStep)
<1>1. CASE SignalNext
  <2>1. PICK level \in Levels, played \in Levels : SignalTick(level, played)
    BY <1>1 DEF SignalNext
  <2>2. gateOpen' \in BOOLEAN /\ ducked' \in BOOLEAN
    <3>1. refVad' \in BOOLEAN
      BY <2>1, ReferenceStep DEF SignalTick, DetectorOK
    <3>2. micVad' \in BOOLEAN
      BY <2>1, StreamStep DEF SignalTick, DetectorOK
    <3>3. ducked' = refVad' /\ gateOpen' = (micVad' \/ level + gain > RefOff)
      BY <2>1 DEF SignalTick, Process
    <3>4. QED
      BY <3>1, <3>2, <3>3
  <2>3. QED
    BY <2>1, <2>2, ReferenceStep, StreamStep DEF SignalTick, SignalInv, HangoverStep
<1>2. CASE UNCHANGED signalVars
  <2>1. SignalInv'
    BY <1>2 DEF signalVars, refVars, levelVars, SignalInv, DetectorOK
  <2>2. SignalNext => SignalInv' /\ HangoverStep
    BY <1>1
  <2>3. QED
    BY <2>1, <1>1, <1>2
<1>3. QED
  BY <1>1, <1>2
\* The types of the signal path, the limits of the gain among them.
THEOREM SignalTypeCorrect == SignalSpec => []SignalTypeOK
<1>1. SignalInv => SignalTypeOK
  BY DEF SignalInv, DetectorOK, SignalTypeOK
<1>2. QED
  BY <1>1, SignalInvInit, SignalStepKeeps, PTL DEF SignalSpec

\* A detector outlasts the voice by its hangover, no less and no more, whatever
\* calibration and noise floor make of the levels (pipeline.go:231-246;
\* processor.go:64-79).
THEOREM DetectorsKeepHangover == SignalSpec => HangoverKept
<1>1. SignalInv /\ [SignalNext]_signalVars => [HangoverStep]_signalVars
  BY SignalStepKeeps
<1>2. SignalInv /\ [SignalNext]_signalVars => SignalInv'
  BY SignalStepKeeps
<1>3. SignalSpec => [][HangoverStep]_signalVars
  BY <1>1, <1>2, SignalInvInit, PTL DEF SignalSpec
<1>4. QED
  BY <1>3 DEF HangoverKept, HangoverStep

-----------------------------------------------------------------------------
(* The rings of the loop delay.                                             *)

Chunks == Int \X Int

\* The chunk that is i chunks older than the newest one.
Newest(ring, i) == ring[Len(ring) - i]

\* appendRing keeps the newest chunks, those of the frame and then the ring's.
LEMMA AppendRingNewest ==
  ASSUME NEW ring \in Seq(Chunks), NEW frame \in Seq(Chunks)
  PROVE  /\ AppendRing(ring, frame) \in Seq(Chunks)
         /\ Len(AppendRing(ring, frame)) = Sooner(Len(ring) + Len(frame), RingChunks)
         /\ \A i \in 0 .. Len(AppendRing(ring, frame)) - 1 :
              Newest(AppendRing(ring, frame), i) =
                IF i < Len(frame) THEN Newest(frame, i) ELSE Newest(ring, i - Len(frame))
<1> DEFINE all == ring \o frame
           from == Later(Len(all) - RingChunks, 0) + 1
           kept == SubSeq(all, from, Len(all))
<1> USE DelayAssumption DEF DelayAssumption
<1>1. all \in Seq(Chunks) /\ Len(all) = Len(ring) + Len(frame)
  OBVIOUS
<1>2. \A k \in 1 .. Len(all) : all[k] = IF k <= Len(ring) THEN ring[k] ELSE frame[k - Len(ring)]
  OBVIOUS
<1>3. from \in 1 .. Len(all) + 1 /\ Len(all) + 1 - from = Sooner(Len(ring) + Len(frame), RingChunks)
  <2>1. Len(all) \in Nat /\ RingChunks \in Nat /\ Len(ring) + Len(frame) \in Nat
    BY <1>1
  <2>2. CASE Len(all) <= RingChunks
    <3>1. from = 1
      BY <2>1, <2>2 DEF Later
    <3>2. QED
      BY <1>1, <2>1, <2>2, <3>1 DEF Sooner
  <2>3. CASE ~(Len(all) <= RingChunks)
    <3>1. from = Len(all) - RingChunks + 1
      BY <2>1, <2>3 DEF Later
    <3>2. QED
      BY <1>1, <2>1, <2>3, <3>1 DEF Sooner
  <2>4. QED
    BY <2>2, <2>3
<1> HIDE DEF all, from
<1>4. /\ kept \in Seq(Chunks)
      /\ Len(kept) = Len(all) + 1 - from
      /\ \A k \in 1 .. Len(kept) : kept[k] = all[from + k - 1]
  <2>1. from \in Int /\ Len(all) \in Int /\ \A k \in from .. Len(all) : all[k] \in Chunks
    BY <1>1, <1>3
  <2>2. /\ kept \in Seq(Chunks)
        /\ Len(kept) = IF from <= Len(all) THEN Len(all) - from + 1 ELSE 0
        /\ \A k \in 1 .. Len(all) - from + 1 : kept[k] = all[from + k - 1]
    BY <2>1, SubSeqProperties
  <2>3. QED
    BY <1>1, <1>3, <2>2
<1> HIDE DEF kept
<1>5. kept = AppendRing(ring, frame)
  BY DEF kept, from, all, AppendRing
<1>6. ASSUME NEW i \in 0 .. Len(kept) - 1
      PROVE  Newest(kept, i) = IF i < Len(frame) THEN Newest(frame, i) ELSE Newest(ring, i - Len(frame))
  <2>1. Len(kept) - i \in 1 .. Len(kept)
    BY <1>4
  <2>2. Newest(kept, i) = all[from + (Len(kept) - i) - 1]
    BY <1>4, <2>1 DEF Newest
  <2>3. from + (Len(kept) - i) - 1 = Len(all) - i /\ Len(all) - i \in 1 .. Len(all)
    BY <1>1, <1>3, <1>4, <2>1
  <2>4. Newest(kept, i) = all[Len(all) - i]
    BY <2>2, <2>3
  <2>5. CASE i < Len(frame)
    <3>1. ~(Len(all) - i <= Len(ring)) /\ (Len(all) - i) - Len(ring) = Len(frame) - i
      BY <1>1, <2>5
    <3>2. all[Len(all) - i] = frame[Len(frame) - i]
      BY <1>2, <2>3, <3>1
    <3>3. QED
      BY <2>4, <2>5, <3>2 DEF Newest
  <2>6. CASE ~(i < Len(frame))
    <3>1. Len(all) - i <= Len(ring) /\ Len(all) - i = Len(ring) - (i - Len(frame))
      BY <1>1, <2>6
    <3>2. all[Len(all) - i] = ring[Len(ring) - (i - Len(frame))]
      BY <1>2, <2>3, <3>1
    <3>3. QED
      BY <2>4, <2>6, <3>2 DEF Newest
  <2>7. QED
    BY <2>5, <2>6
<1>7. QED
  BY <1>3, <1>4, <1>5, <1>6

\* Of what was fed in whole frames since the last short one, both rings hold the same.
RingsAgree ==
  \A i \in 0 .. wholeFed - 1 :
    /\ i < Len(refRing) <=> i < Len(micRing)
    /\ i < Len(refRing) => Newest(refRing, i) = Newest(micRing, i)

DelayRingTypes ==
  /\ refRing \in Seq(Chunks) /\ micRing \in Seq(Chunks)
  /\ Len(refRing) <= RingChunks /\ Len(micRing) <= RingChunks
  /\ feeds \in 0 .. Feeds - 1
  /\ wholeFed \in 0 .. RingChunks

RingsInv == DelayRingTypes /\ RingsAgree

\* The rings are empty at the start.
LEMMA RingsInvInit == DelayInit => RingsInv
<1> SUFFICES ASSUME DelayInit PROVE RingsInv
  OBVIOUS
<1>1. Feeds # 0
  BY DelayAssumption DEF DelayAssumption
<1>2. QED
  BY <1>1, DelayAssumption DEF DelayAssumption, DelayInit, RingsInv, DelayRingTypes, RingsAgree

\* A frame of n chunks is a sequence of chunks.
LEMMA FrameOfChunks ==
  ASSUME RingsInv, NEW n \in Nat
  PROVE  FrameOf(n) \in Seq(Chunks) /\ Len(FrameOf(n)) = n
BY DelayAssumption DEF DelayAssumption, RingsInv, DelayRingTypes, FrameOf, Chunks

\* Feeding keeps it: whole frames are appended to what agrees, a short one starts anew.
LEMMA FeedKeepsRings ==
  ASSUME RingsInv, NEW n \in 1 .. FrameChunks, FeedRings(n)
  PROVE  RingsInv'
<1> USE DelayAssumption DEF DelayAssumption
<1> DEFINE whole == FrameOf(FrameChunks)
           frame == FrameOf(n)
<1>1. whole \in Seq(Chunks) /\ Len(whole) = FrameChunks /\ frame \in Seq(Chunks) /\ Len(frame) = n
  BY FrameOfChunks
<1>2. refRing' = AppendRing(refRing, whole) /\ micRing' = AppendRing(micRing, frame)
  BY DEF FeedRings
<1> HIDE DEF whole, frame
<1>3. refRing \in Seq(Chunks) /\ micRing \in Seq(Chunks)
  BY DEF RingsInv, DelayRingTypes
<1>4. /\ refRing' \in Seq(Chunks)
      /\ Len(refRing') = Sooner(Len(refRing) + FrameChunks, RingChunks)
      /\ \A i \in 0 .. Len(refRing') - 1 :
           Newest(refRing', i) = IF i < FrameChunks THEN Newest(whole, i)
                                 ELSE Newest(refRing, i - FrameChunks)
  BY <1>1, <1>2, <1>3, AppendRingNewest
<1>5. /\ micRing' \in Seq(Chunks)
      /\ Len(micRing') = Sooner(Len(micRing) + n, RingChunks)
      /\ \A i \in 0 .. Len(micRing') - 1 :
           Newest(micRing', i) = IF i < n THEN Newest(frame, i) ELSE Newest(micRing, i - n)
  BY <1>1, <1>2, <1>3, AppendRingNewest
<1>6. feeds' \in 0 .. Feeds - 1
  <2>1. Feeds # 0 /\ feeds + 1 \in Nat
    BY DEF RingsInv, DelayRingTypes
  <2>2. QED
    BY <2>1 DEF FeedRings
<1>7. wholeFed \in 0 .. RingChunks /\ wholeFed' = IF n = FrameChunks THEN Sooner(wholeFed + n, RingChunks) ELSE 0
  BY DEF FeedRings, RingsInv, DelayRingTypes
<1>8. DelayRingTypes'
  BY <1>3, <1>4, <1>5, <1>6, <1>7 DEF DelayRingTypes, Sooner
<1>9. RingsAgree'
  <2>1. CASE n # FrameChunks
    BY <1>7, <2>1 DEF RingsAgree
  <2>2. CASE n = FrameChunks
    <3> SUFFICES ASSUME NEW i \in 0 .. wholeFed' - 1
                 PROVE  /\ i < Len(refRing') <=> i < Len(micRing')
                        /\ i < Len(refRing') => Newest(refRing', i) = Newest(micRing', i)
      BY DEF RingsAgree, Newest
    <3>1. i < RingChunks /\ i < wholeFed + n /\ i \in Nat
      BY <1>7, <2>2 DEF Sooner
    <3>2. whole = frame
      BY <2>2 DEF whole, frame
    <3>3. CASE i < n
      BY <1>3, <1>4, <1>5, <2>2, <3>1, <3>2, <3>3 DEF Sooner
    <3>4. CASE i >= n
      <4>1. i - n \in 0 .. wholeFed - 1
        BY <1>7, <3>1, <3>4
      <4>2. /\ i - n < Len(refRing) <=> i - n < Len(micRing)
            /\ i - n < Len(refRing) => Newest(refRing, i - n) = Newest(micRing, i - n)
        BY <4>1 DEF RingsInv, RingsAgree
      <4>3. /\ i < Len(refRing') <=> i - n < Len(refRing)
            /\ i < Len(micRing') <=> i - n < Len(micRing)
        BY <1>3, <1>4, <1>5, <2>2, <3>1 DEF Sooner
      <4>4. /\ i < Len(refRing') => Newest(refRing', i) = Newest(refRing, i - n)
            /\ i < Len(micRing') => Newest(micRing', i) = Newest(micRing, i - n)
        BY <1>4, <1>5, <2>2, <3>1, <3>4
      <4>5. QED
        BY <4>2, <4>3, <4>4
    <3>5. QED
      BY <3>1, <3>3, <3>4
  <2>3. QED
    BY <2>1, <2>2
<1>10. QED
  BY <1>8, <1>9 DEF RingsInv

\* Sequences that agree from their newest chunk on, as far as a ring goes, are equal.
LEMMA AgreeingRingsEqual ==
  ASSUME RingsInv, wholeFed = RingChunks
  PROVE  refRing = micRing
<1> USE DelayAssumption DEF DelayAssumption
<1>1. \A i \in 0 .. RingChunks - 1 :
        /\ i < Len(refRing) <=> i < Len(micRing)
        /\ i < Len(refRing) => refRing[Len(refRing) - i] = micRing[Len(micRing) - i]
  BY DEF RingsInv, RingsAgree, Newest
<1>2. /\ refRing \in Seq(Chunks) /\ micRing \in Seq(Chunks)
      /\ Len(refRing) <= RingChunks /\ Len(micRing) <= RingChunks
  BY DEF RingsInv, DelayRingTypes
<1>3. Len(refRing) = Len(micRing)
  <2>1. ASSUME Len(refRing) < Len(micRing) PROVE FALSE
    BY <1>1, <1>2, <2>1
  <2>2. ASSUME Len(micRing) < Len(refRing) PROVE FALSE
    BY <1>1, <1>2, <2>2
  <2>3. QED
    BY <1>2, <2>1, <2>2
<1>4. ASSUME NEW k \in 1 .. Len(refRing) PROVE refRing[k] = micRing[k]
  <2>1. Len(refRing) - k \in 0 .. RingChunks - 1 /\ Len(refRing) - k < Len(refRing)
    BY <1>2
  <2>2. refRing[Len(refRing) - (Len(refRing) - k)] = micRing[Len(micRing) - (Len(refRing) - k)]
    BY <1>1, <2>1
  <2>3. Len(refRing) - (Len(refRing) - k) = k /\ Len(micRing) - (Len(refRing) - k) = k
    BY <1>2, <1>3
  <2>4. QED
    BY <2>2, <2>3
<1>5. QED
  BY <1>2, <1>3, <1>4

\* A tick keeps the rings.
LEMMA RingsInvStep == RingsInv /\ [DelayNext]_delayVars => RingsInv'
<1> SUFFICES ASSUME RingsInv, [DelayNext]_delayVars PROVE RingsInv'
  OBVIOUS
<1>1. ASSUME NEW n \in 1 .. FrameChunks, Feed(n) PROVE RingsInv'
  BY <1>1, FeedKeepsRings DEF Feed
<1>2. CASE UNCHANGED delayRings
  BY <1>2 DEF delayRings, RingsInv, DelayRingTypes, RingsAgree, Newest
<1>3. QED
  BY <1>1, <1>2 DEF DelayNext, NotFed, delayVars, delayRings

\* The rings are of the same time again.
LEMMA RingsInvRealign == RingsInv => RingsRealign
BY AgreeingRingsEqual DEF RingsRealign

\* However short the microphone's reads were, after as many whole frames as a ring
\* holds both rings are of the same time again (delay.go:64-96).
THEOREM ShortReadsPass == DelaySpec => []RingsRealign
BY RingsInvInit, RingsInvStep, RingsInvRealign, PTL DEF DelaySpec

-----------------------------------------------------------------------------
(* The samples of the loop delay.                                           *)

SamplesInv ==
  /\ samples \subseteq 0 .. StaleTicks
  /\ analysed \in 0 .. Later(AnalysisTicks, 1)
  /\ delayShown \in 0 .. Later(PublishTicks, 1)
  /\ known \in BOOLEAN
  /\ KnownIsRecent

\* The samples younger than a window.
Younger(ages, window) == { age \in ages : age < window }

\* There are finitely many samples, and fewer of a part of them.
LEMMA SamplesFinite ==
  ASSUME NEW ages \in SUBSET (0 .. StaleTicks), NEW some \in SUBSET ages
  PROVE  /\ IsFiniteSet(ages) /\ IsFiniteSet(some)
         /\ Cardinality(some) \in Nat /\ Cardinality(ages) \in Nat
         /\ Cardinality(some) <= Cardinality(ages)
<1>1. StaleTicks \in Int
  BY DelayAssumption DEF DelayAssumption
<1>2. IsFiniteSet(0 .. StaleTicks)
  BY <1>1, FS_Interval
<1>3. IsFiniteSet(ages)
  BY <1>2, FS_Subset
<1>4. IsFiniteSet(some) /\ Cardinality(some) <= Cardinality(ages)
  BY <1>3, FS_Subset
<1>5. QED
  BY <1>3, <1>4, FS_CardinalityType

\* A tick makes every sample older and may add a new one and drop stale ones: ages
\* stay in their range and none that is not stale yet is lost.
LEMMA AnalyseAges ==
  ASSUME samples \subseteq 0 .. StaleTicks, samples' = Aged \/ Analyse
  PROVE  /\ samples' \subseteq 0 .. StaleTicks
         /\ \A age \in samples : age + 1 < StaleTicks => age + 1 \in samples'
<1> USE DelayAssumption DEF DelayAssumption
<1>1. Aged \subseteq 0 .. StaleTicks
  BY DEF Aged, Sooner
<1>2. ASSUME NEW age \in samples, age + 1 < StaleTicks PROVE age + 1 \in Aged
  <2>1. Sooner(age + 1, StaleTicks) = age + 1
    BY <1>2 DEF Sooner
  <2>2. QED
    BY <2>1 DEF Aged
<1>3. CASE samples' = Aged
  BY <1>1, <1>2, <1>3
<1>4. CASE samples' = PruneStale(Aged \cup {0})
  <2>1. ASSUME NEW age \in samples' PROVE age \in 0 .. StaleTicks
    <3>1. age \in Aged \/ age = 0
      BY <1>4 DEF PruneStale
    <3>2. 0 \in 0 .. StaleTicks
      OBVIOUS
    <3>3. QED
      BY <1>1, <3>1, <3>2, Zenon
  <2>2. QED
    BY <1>2, <1>4, <2>1 DEF PruneStale
<1>5. QED
  BY <1>3, <1>4 DEF Analyse

\* A tick later as many samples are in a window that is a tick longer.
LEMMA YoungerGrow ==
  ASSUME samples \subseteq 0 .. StaleTicks, samples' \subseteq 0 .. StaleTicks,
         \A age \in samples : age + 1 < StaleTicks => age + 1 \in samples',
         NEW window \in Nat, window < StaleTicks
  PROVE  Cardinality(Younger(samples, window)) <= Cardinality(Younger(samples', window + 1))
<1> DEFINE old == Younger(samples, window)
           new == Younger(samples', window + 1)
           older == [age \in old |-> age + 1]
<1>1. IsFiniteSet(new)
  BY SamplesFinite DEF Younger
<1>2. \A age \in old : age \in Int /\ age < window /\ age \in samples
  <2>1. \A age \in old : age < window /\ age \in samples
    BY DEF Younger
  <2>2. \A age \in old : age \in 0 .. StaleTicks
    BY <2>1, Zenon
  <2>3. \A age \in 0 .. StaleTicks : age \in Int
    OBVIOUS
  <2>4. QED
    BY <2>1, <2>2, <2>3, Zenon
<1>3. ASSUME NEW age \in old PROVE age + 1 \in new
  <2>1. age \in Int /\ age < window /\ age + 1 < StaleTicks /\ age + 1 < window + 1
    BY <1>2, DelayAssumption DEF DelayAssumption
  <2>2. QED
    BY <1>2, <2>1 DEF Younger
<1> HIDE DEF old, new
<1>4. older \in [old -> new]
  BY <1>3
<1>5. \A a, b \in old : older[a] = older[b] => a = b
  BY <1>2
<1>6. older \in Injection(old, new)
  BY <1>4, <1>5 DEF Injection, IsInjective
<1>7. QED
  BY <1>1, <1>6, FS_Injection DEF old, new

\* A tick keeps a published estimate recent.
LEMMA SamplesStep ==
  ASSUME SamplesInv, DelayNext
  PROVE  SamplesInv'
<1> USE DelayAssumption DEF DelayAssumption
<1>1. samples' = Aged \/ Analyse
  BY DEF DelayNext, Feed, NotFed
<1>2. /\ samples \subseteq 0 .. StaleTicks
      /\ samples' \subseteq 0 .. StaleTicks
      /\ \A age \in samples : age + 1 < StaleTicks => age + 1 \in samples'
  BY <1>1, AnalyseAges DEF SamplesInv
<1>3. Publish
  BY DEF DelayNext
<1>4. delayShown \in 0 .. Later(PublishTicks, 1) /\ known \in BOOLEAN
  BY DEF SamplesInv
<1>5. analysed' \in 0 .. Later(AnalysisTicks, 1)
  <2>1. analysed \in 0 .. Later(AnalysisTicks, 1)
    BY DEF SamplesInv
  <2>2. \/ analysed < AnalysisTicks /\ analysed' = analysed + 1
        \/ analysed' = 1
        \/ analysed' = Sooner(analysed + 1, AnalysisTicks)
    BY DEF DelayNext, Feed, Analyse, NotFed
  <2>3. QED
    BY <2>1, <2>2 DEF Later, Sooner
<1>6. CASE delayShown < PublishTicks
  <2>1. delayShown' = delayShown + 1 /\ known' = known
    BY <1>3, <1>6 DEF Publish
  <2>2. delayShown' \in 0 .. Later(PublishTicks, 1)
    BY <1>4, <1>6, <2>1 DEF Later
  <2>3. KnownIsRecent'
    <3> SUFFICES ASSUME known
                 PROVE  Cardinality(Younger(samples', DelayWindow + delayShown')) >= MinSamples
      BY <2>1 DEF KnownIsRecent, Younger
    <3>1. DelayWindow + delayShown \in Nat /\ DelayWindow + delayShown < StaleTicks
      BY <1>4, <1>6
    <3>2. Cardinality(Younger(samples, DelayWindow + delayShown)) >= MinSamples
      BY DEF SamplesInv, KnownIsRecent, Younger
    <3>3. Cardinality(Younger(samples, DelayWindow + delayShown))
            <= Cardinality(Younger(samples', (DelayWindow + delayShown) + 1))
      BY <1>2, <3>1, YoungerGrow
    <3>4. (DelayWindow + delayShown) + 1 = DelayWindow + delayShown'
      BY <1>4, <2>1
    <3>5. /\ Cardinality(Younger(samples, DelayWindow + delayShown)) \in Nat
          /\ Cardinality(Younger(samples', DelayWindow + delayShown')) \in Nat
      BY <1>2, SamplesFinite DEF Younger
    <3>6. QED
      BY <3>2, <3>3, <3>4, <3>5
  <2>4. QED
    BY <1>2, <1>4, <1>5, <2>1, <2>2, <2>3 DEF SamplesInv
<1>7. CASE ~(delayShown < PublishTicks)
  <2>1. delayShown' = 1 /\ known' = Estimate
    BY <1>3, <1>7 DEF Publish
  <2>2. delayShown' \in 0 .. Later(PublishTicks, 1)
    BY <2>1 DEF Later
  <2>3. known' \in BOOLEAN
    BY <2>1 DEF Estimate
  <2>4. KnownIsRecent'
    <3> SUFFICES ASSUME Estimate
                 PROVE  Cardinality(Younger(samples', DelayWindow + 1)) >= MinSamples
      BY <2>1 DEF KnownIsRecent, Younger
    <3> DEFINE shown == Younger(samples', DelayWindow + 1)
               recent == Younger(samples', DelayWindow)
    <3>1. recent \subseteq shown /\ shown \subseteq 0 .. StaleTicks
      <4>1. \A age \in samples' : age \in Int /\ (age < DelayWindow => age < DelayWindow + 1)
        BY <1>2
      <4>2. QED
        BY <1>2, <4>1 DEF Younger
    <3>2. Cardinality(recent) >= MinSamples
      BY DEF Estimate, FilterRecent, Younger
    <3> HIDE DEF recent, shown
    <3>3. Cardinality(recent) <= Cardinality(shown) /\ Cardinality(recent) \in Nat
          /\ Cardinality(shown) \in Nat
      BY <3>1, SamplesFinite
    <3>4. QED
      BY <3>2, <3>3 DEF shown
  <2>5. QED
    BY <1>2, <1>5, <2>2, <2>3, <2>4 DEF SamplesInv
<1>8. QED
  BY <1>4, <1>6, <1>7

\* Nothing is known at the start.
LEMMA SamplesInit == DelayInit => SamplesInv
<1> SUFFICES ASSUME DelayInit PROVE SamplesInv
  OBVIOUS
<1>1. PublishTicks \in 0 .. Later(PublishTicks, 1) /\ AnalysisTicks \in 0 .. Later(AnalysisTicks, 1)
  BY DelayAssumption DEF DelayAssumption, Later
<1>2. samples = {} /\ known = FALSE /\ delayShown = PublishTicks /\ analysed = AnalysisTicks
  BY DEF DelayInit
<1>3. KnownIsRecent
  BY <1>2 DEF KnownIsRecent
<1>4. QED
  BY <1>1, <1>2, <1>3 DEF SamplesInv

\* Every step keeps it.
LEMMA SamplesInvStep == SamplesInv /\ [DelayNext]_delayVars => SamplesInv'
<1>1. ASSUME SamplesInv, UNCHANGED delayVars PROVE SamplesInv'
  BY <1>1 DEF delayVars, SamplesInv, KnownIsRecent
<1>2. QED
  BY <1>1, SamplesStep

\* Rings, samples and clocks are in their ranges.
LEMMA DelayInvTypes == RingsInv /\ SamplesInv => DelayTypeOK
BY DEF RingsInv, DelayRingTypes, SamplesInv, DelayTypeOK

\* A published delay rests on samples that were in the window when it was published,
\* whatever windows, intervals and numbers of samples are configured, as long as the
\* window and the time until the next publication are over before samples are stale
\* (delay.go:98-138; engine.go:146-161).
THEOREM EstimatesAreRecent == DelaySpec => []KnownIsRecent
<1>1. SamplesInv => KnownIsRecent
  BY DEF SamplesInv
<1>2. QED
  BY <1>1, SamplesInit, SamplesInvStep, PTL DEF DelaySpec

-----------------------------------------------------------------------------
(* The four models of the audio goroutine side by side.                     *)

SafeAudio == IInv /\ SignalInv /\ RingsInv /\ SamplesInv /\ RingTypes

\* A step of one model is a step of it, and the others stand still.
LEMMA OnePartMoves ==
  [AudioNext]_<<part, audioVars>> =>
    /\ [Next]_vars /\ [SignalNext]_signalVars /\ [DelayNext]_delayVars /\ [RingNext]_ringVars
BY DEF AudioNext, Only, audioVars

\* The invariants of all four hold from the start and are kept.
LEMMA SafeAudioKept == AudioInit /\ [][AudioNext]_<<part, audioVars>> => []SafeAudio
<1>1. AudioInit => SafeAudio
  BY InitInv, SignalInvInit, RingsInvInit, SamplesInit, RingTypesInit DEF AudioInit, SafeAudio
<1>2. SafeAudio /\ [AudioNext]_<<part, audioVars>> => SafeAudio'
  <2> SUFFICES ASSUME SafeAudio, [AudioNext]_<<part, audioVars>> PROVE SafeAudio'
    OBVIOUS
  <2>1. IInv' /\ RingsInv' /\ SamplesInv' /\ RingTypes'
    BY OnePartMoves, InvStep, RingsInvStep, SamplesInvStep, RingTypesStep DEF SafeAudio
  <2>2. SignalInv'
    BY OnePartMoves, SignalStepKeeps DEF SafeAudio
  <2>3. QED
    BY <2>1, <2>2 DEF SafeAudio
<1>3. QED
  BY <1>1, <1>2, PTL

\* What the run of the four models checks of their types, for every instance: the log of
\* switches, the gain, the rings of the delay and the fill level of the capture ring
\* stay in their bounds, even where the ring's positions wrap (selector.go; pipeline.go;
\* processor.go; delay.go; sp_ring.c).
THEOREM AudioTypeCorrect == AudioSpec => []AudioTypeOK
<1>1. SafeAudio => AudioTypeOK
  <2>1. IInv => TypeOK
    BY DEF IInv
  <2>2. SignalInv => SignalTypeOK
    BY DEF SignalInv, DetectorOK, SignalTypeOK
  <2>3. RingTypes => RingTypeOK
    BY DEF RingTypes
  <2>4. QED
    BY <2>1, <2>2, <2>3, DelayInvTypes DEF SafeAudio, AudioTypeOK
<1>2. QED
  BY <1>1, SafeAudioKept, PTL DEF AudioSpec
=============================================================================
