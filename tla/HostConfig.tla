----------------------------- MODULE HostConfig -----------------------------
(***************************************************************************)
(* The host's configuration and the partial updates of it                  *)
(* (internal/protocol/config.go).  Scores, ratios and smoothing factors    *)
(* are in hundredths, everything else in the unit of its name.             *)
(***************************************************************************)
EXTENDS Integers

HostStream == "host"

DefaultScoreWeights ==
  [level |-> 35, snr |-> 35, vad |-> 25, priority |-> 20, echoPenalty |-> 35]

DefaultHostConfig ==
  [defaultVideoId |-> HostStream, defaultAudioId |-> HostStream,
   silenceScoreThreshold |-> 15, switchMargin |-> 100, emergencyScoreRatio |-> 300,
   scoreSmoothingAlpha |-> 10, scoreWeights |-> DefaultScoreWeights, hostPriority |-> 100,
   videoHoldMs |-> 300, audioHoldMs |-> 400, minHoldAfterSwitchMs |-> 600, crossfadeMs |-> 100,
   targetSpeechDbfs |-> -20, calibrationGainClampDb |-> <<-12, 18>>,
   vadSnrOnDb |-> 7, vadSnrOffDb |-> 3, vadHangoverMs |-> 150, gateAttenuationDb |-> 12,
   referenceVadOnDbfs |-> -35, referenceVadOffDbfs |-> -45,
   referenceDuckDb |-> -12, referenceDelayMs |-> 0,
   loopDelayScaleMaxMs |-> 100, loopDelayWindowMs |-> 500, loopDelayLagSearchMs |-> 300,
   loopDelayAnalysisMs |-> 250, loopDelayPublishMs |-> 3000, loopDelayMinSamples |-> 3,
   loopDelayMinPeak |-> 25, loopDelayStaleMs |-> 300000]

HostConfigFields == DOMAIN DefaultHostConfig

\* A patch holds the fields its sender named (those whose pointer is not nil).
Patched(base, patch) ==
  [f \in DOMAIN base |-> IF f \in DOMAIN patch THEN patch[f] ELSE base[f]]

MergedWeights(base, patch) ==
  IF "scoreWeights" \in DOMAIN patch
  THEN Patched(base["scoreWeights"], patch["scoreWeights"])
  ELSE base["scoreWeights"]

MergeHostConfig(base, patch) ==
  [Patched(base, patch) EXCEPT !["scoreWeights"] = MergedWeights(base, patch)]

ValidHostConfig(cfg) ==
  /\ cfg["crossfadeMs"] \in 0 .. 5000
  /\ cfg["audioHoldMs"] \in 0 .. 10000

IsHostConfig(cfg) ==
  /\ DOMAIN cfg = HostConfigFields
  /\ DOMAIN cfg["scoreWeights"] = DOMAIN DefaultScoreWeights
=============================================================================
