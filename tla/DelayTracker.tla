---------------------------- MODULE DelayTracker ----------------------------
(***************************************************************************)
(* The passive estimate of a stream's loop delay                           *)
(* (audio/reference/delay.go, published by audio/engine.go's tick): while  *)
(* the reference is active and the stream silent, each tick appends a      *)
(* frame of both to a ring of its own; now and then the rings are          *)
(* correlated, which yields a sample or not; an estimate is made of the    *)
(* samples that are recent when it is published.                           *)
(*                                                                         *)
(* The microphone's frame is as long as the read was, so a short read      *)
(* moves the rings against each other until it has left them.  Samples     *)
(* of sound come in chunks, a whole frame being FrameChunks of them.  Of a *)
(* sample of the delay the model keeps its age in ticks, up to StaleTicks; *)
(* younger ones differ in age, as a tick yields at most one.               *)
(***************************************************************************)
EXTENDS Integers, Sequences, FiniteSets

CONSTANTS
  FrameChunks,  \* chunks of a whole frame
  RingChunks,   \* loopDelayWindowMs of sound, in chunks
  DelayWindow,  \* loopDelayWindowMs, in ticks
  AnalysisTicks,\* loopDelayAnalysisMs
  PublishTicks, \* loopDelayPublishMs
  StaleTicks,   \* loopDelayStaleMs
  MinSamples,   \* loopDelayMinSamples
  Feeds         \* bound: frames are numbered modulo Feeds

ASSUME DelayAssumption ==
  /\ FrameChunks \in Nat \ {0} /\ RingChunks \in Nat
  /\ DelayWindow \in Nat /\ AnalysisTicks \in Nat /\ PublishTicks \in Nat
  /\ StaleTicks \in Nat /\ DelayWindow + PublishTicks <= StaleTicks
  /\ MinSamples \in Nat \ {0}
  /\ Feeds \in Nat /\ Feeds * FrameChunks > RingChunks

VARIABLES
  refRing, micRing, \* streamDelayState's rings, as the chunks they hold
  analysed,   \* ticks since lastAnalysis, or AnalysisTicks if there was none
  samples,    \* the ages of streamDelayState.samples
  delayShown, \* ticks since lastLoopDelayPub, or PublishTicks if there was none
  known,      \* the published estimate's Known
  feeds,      \* history: the number of the next frame that is fed
  wholeFed    \* history: chunks of whole frames fed since a short one, up to RingChunks

delayRings == <<refRing, micRing, feeds, wholeFed>>
delayVars == <<delayRings, analysed, samples, delayShown, known>>

DelayInit ==
  /\ refRing = << >> /\ micRing = << >> /\ feeds = 0 /\ wholeFed = RingChunks
  /\ analysed = AnalysisTicks /\ samples = {}
  /\ delayShown = PublishTicks /\ known = FALSE

Sooner(a, b) == IF a < b THEN a ELSE b
Later(a, b) == IF a < b THEN b ELSE a

AppendRing_KeepsOldest(ring, frame) ==
  LET all == ring \o frame IN SubSeq(all, 1, Sooner(Len(all), RingChunks))
AppendRing(ring, frame) ==
  LET all == ring \o frame IN SubSeq(all, Later(Len(all) - RingChunks, 0) + 1, Len(all))

FrameOf(n) == [i \in 1 .. n |-> <<feeds, i>>]

\* The reference's frame is whole, the microphone's has n chunks.
FeedRings(n) ==
  /\ refRing' = AppendRing(refRing, FrameOf(FrameChunks))
  /\ micRing' = AppendRing(micRing, FrameOf(n))
  /\ feeds' = (feeds + 1) % Feeds
  /\ wholeFed' = IF n = FrameChunks THEN Sooner(wholeFed + n, RingChunks) ELSE 0

Aged == { Sooner(age + 1, StaleTicks) : age \in samples }
PruneStale(ages) == { age \in ages : age < StaleTicks }
LongEnough == Len(refRing') >= 2 * FrameChunks /\ Len(micRing') >= 2 * FrameChunks

\* An analysis that is due finds a peak, or none that is clear enough.
Analyse ==
  IF analysed < AnalysisTicks
  THEN analysed' = analysed + 1 /\ samples' = Aged
  ELSE /\ analysed' = 1
       /\ samples' \in {Aged} \cup IF LongEnough THEN {PruneStale(Aged \cup {0})} ELSE {}

Feed(n) == FeedRings(n) /\ Analyse

\* The reference is not active or the stream speaks.
NotFed ==
  /\ UNCHANGED delayRings
  /\ analysed' = Sooner(analysed + 1, AnalysisTicks)
  /\ samples' = Aged

FilterRecent_All(ages) == ages
FilterRecent(ages) == { age \in ages : age < DelayWindow }
Estimate == Cardinality(FilterRecent(samples')) >= MinSamples

Publish ==
  IF delayShown < PublishTicks
  THEN delayShown' = delayShown + 1 /\ UNCHANGED known
  ELSE delayShown' = 1 /\ known' = Estimate

DelayNext == ((\E n \in 1 .. FrameChunks : Feed(n)) \/ NotFed) /\ Publish

DelaySpec == DelayInit /\ [][DelayNext]_delayVars
-----------------------------------------------------------------------------
(* Properties.                                                              *)

\* Every variable has its type; rings and samples are bounded.
DelayTypeOK ==
  /\ Len(refRing) <= RingChunks /\ Len(micRing) <= RingChunks
  /\ feeds \in 0 .. Feeds - 1 /\ wholeFed \in 0 .. RingChunks
  /\ analysed \in 0 .. Later(AnalysisTicks, 1)
  /\ samples \subseteq 0 .. StaleTicks
  /\ delayShown \in 0 .. Later(PublishTicks, 1) /\ known \in BOOLEAN

\* Short reads move the rings against each other, but only for as long as they are in
\* them: after as many whole frames as a ring holds, however short the frames before
\* were and however often feeding was interrupted, chunk for chunk the rings are of
\* the same time again and a correlation measures the room (delay.go:64-96).
RingsRealign == wholeFed = RingChunks => refRing = micRing

\* A delay is shown as known only while the phases it rests on are recent: they were in
\* the window when it was published, although old samples are thrown away only when
\* a new one comes (delay.go:98-138; engine.go:146-161).
KnownIsRecent ==
  known => Cardinality({ age \in samples : age < DelayWindow + delayShown }) >= MinSamples
=============================================================================
