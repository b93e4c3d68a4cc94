SPECIFICATION AudioSpec
CONSTANTS
  Streams <- MCStreams
  DefaultAudioID <- MCHost
  DefaultVideoID <- MCHost
  Scores <- MCScores
  SilenceThreshold = 2
  SwitchMargin = 0
  EmergencyRatio = 3
  AudioHold = 1
  MinHold = 2
  VideoHold = 2
  CrossfadeTicks = 2
  MaxEvents = 2
  Delays <- MCDelays
  Levels <- MCLevels
  StartFloor <- MCStartFloor
  Target <- MCTarget
  ClampMin <- MCClampMin
  ClampMax = 1
  SnrOn = 2
  SnrOff = 1
  RefOn <- MCRefOn
  RefOff <- MCRefOff
  Hangover = 2
  FrameChunks = 2
  RingChunks = 4
  DelayWindow = 5
  AnalysisTicks = 2
  PublishTicks = 3
  StaleTicks = 9
  MinSamples = 2
  Feeds = 3
  Capacity = 4
  PosMod = 17
  MaxBatch = 4
  MaxSamples = 16
INVARIANTS
  AudioTypeOK
  EventChain
  CrossfadeOfLastSwitch
  SelectionAgrees
  NoMarginFlap
  NoSharedSlot
  RingsRealign
  KnownIsRecent
PROPERTIES
  HoldEnds
  VideoFollowsTalker
  IsFifo
  HangoverKept
CHECK_DEADLOCK FALSE
