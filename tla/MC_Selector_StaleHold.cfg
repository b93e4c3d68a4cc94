SPECIFICATION Spec
CONSTANTS
  Streams <- MCStreams
  DefaultAudioID <- MCHost
  DefaultVideoID <- MCHost
  Scores <- MCScores
  SilenceThreshold = 2
  SwitchMargin = 0
  EmergencyRatio = 3
  AudioHold = 1
  MinHold = 2
  VideoHold = 2
  CrossfadeTicks = 2
  MaxEvents = 2
  Delays <- MCDelays
INVARIANT
  MarginHeldThroughout
