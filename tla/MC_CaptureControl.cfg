SPECIFICATION Spec
CONSTANTS
  MicIds <- MCMicIds
  CameraIds <- MCCameraIds
  SinkIds <- MCSinkIds
  NativeHandles <- MCNativeHandles
  CameraObjects <- MCCameraObjects
  Callers <- MCCallers
  Listings <- MCListings
  Patches <- MCPatches
  StartSelections <- MCStartSelections
INVARIANTS
  TypeOK
  HandlesOwned
  FrameFromOpenCamera
  SelectionInEffect
  RoomShowsSelection
  BusyCameraKept
