SPECIFICATION Spec
CONSTANTS
  MicIds <- MCMicIds
  CameraIds <- MCCameraIds
  SinkIds <- MCSinkIds
  NativeHandles <- MCNativeHandles
  CameraObjects <- MCCameraObjects
  Callers <- MCCallers
  Listings <- MCListings
  Patches <- MCOnePatch
  StartSelections <- MCStartSelections
PROPERTIES
  RequestsAnswered
