SPECIFICATION Spec
CONSTANTS
  MicIds <- MCMicIds
  CameraIds <- MCCameraIds
  SinkIds <- MCSinkIds
  NativeHandles <- MCNativeHandles
  CameraObjects <- MCCameraObjects
  Callers <- MCCallers
  Listings <- MCStableListings
  Patches <- MCPatches
  StartSelections <- MCFilledSelection
PROPERTIES
  OmittedFieldKept
