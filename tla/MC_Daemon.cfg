SPECIFICATION DaemonSpec
CONSTANTS
  Guests = {"g1"}
  MaxHold = 30
  HoldStep = 20
  Holds <- MCHolds
  HostClients = {"h1"}
  RestCallers = {"r1"}
  RequestFlags <- MCRequestFlags
  Patches <- MCPatches
  MaxChanges = 2
  Viewers = {"v1"}
  Fps = 3
  ChunkCap = 1
  MaxSwitches = 1
  Composite <- MCComposite
  PixFormats <- MCPixFormats
  FrameSize = 2
  MaxRead = 3
  MaxQueued = 6
  Window = 3
INVARIANTS
  DaemonTypeOK
  MetricsHaveOwner
  FlagsAgree
  OutputOwned
  FramesFit
  ShortUnitsComeApart
PROPERTIES
  AtMostTwoPerWindow
  RequestsEnd
  HostConverges
  PreviewRecovers
  PlaysWhatWasWritten
  FailureShown
CHECK_DEADLOCK FALSE
