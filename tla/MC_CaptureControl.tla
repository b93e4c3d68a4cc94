------------------------- MODULE MC_CaptureControl --------------------------
(* The instance of CaptureControl that TLC checks: two microphones, two      *)
(* cameras and one sink, two requests at a time.                             *)
EXTENDS CaptureControl

MCMicIds == 1 .. 2
MCCameraIds == 1 .. 2
MCSinkIds == {1}
MCNativeHandles == {1}
MCCameraObjects == 1 .. 3
MCCallers == 1 .. 2

Listing(mics, cams) ==
  [f \in Fields |-> CASE f = "mic" -> mics [] f = "camera" -> cams [] OTHER -> {1}]

\* Everything is there; microphone 1 is gone and camera 1 cannot be configured.
MCListings == { Listing({1, 2}, {1, 2}), Listing({2}, {2}) }
\* Nothing ever goes away.
MCStableListings == { Listing({1, 2}, {1, 2}) }

\* The settings panel sends one field at a time.
MCPatches == { [mic |-> 2, camera |-> 0, sink |-> 0],
               [mic |-> 0, camera |-> 2, sink |-> 0] }

MCOnePatch == { [mic |-> 2, camera |-> 2, sink |-> 0] }

\* All defaults were filled in, or none was because a kind of device was missing.
MCStartSelections ==
  { [mic |-> 1, camera |-> 1, sink |-> 1], [mic |-> 0, camera |-> 0, sink |-> 0] }
MCFilledSelection == { [mic |-> 1, camera |-> 1, sink |-> 1] }
=============================================================================
