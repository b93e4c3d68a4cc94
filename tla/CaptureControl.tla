--------------------------- MODULE CaptureControl ---------------------------
(***************************************************************************)
(* Choosing capture devices: the host's requests (POST capture/selection,  *)
(* set-capture-devices and list-capture-devices on the host socket) merge  *)
(* a partial selection with the one in the room, store ids and labels      *)
(* there and hand the result to the capture bundle (signaling's            *)
(* capture_selection.go, capture_reopen.go, host.go, host_rest.go).  Each  *)
(* handler runs in a goroutine of its own, and every access to the room    *)
(* takes and releases the room's lock, so two handlers interleave between  *)
(* any two of their steps.                                                 *)
(*                                                                         *)
(* The list of devices a handler works with is an input: devices come and  *)
(* go, and a camera that is streaming may be missing from it because it    *)
(* cannot be configured (canCapture).                                      *)
(***************************************************************************)
EXTENDS CaptureBundle

CONSTANTS
  Listings,       \* device lists: per field the set of ids, the least is first
  Patches,        \* partial selections the host asks for
  StartSelections \* the room's capture selection when the daemon opens the bundle

Fields == {"mic", "camera", "sink"}

ASSUME ControlAssumption ==
  /\ Listings \subseteq [Fields -> SUBSET (MicIds \cup CameraIds \cup SinkIds)]
  /\ \A l \in Listings : /\ l["mic"] \subseteq MicIds
                         /\ l["camera"] \subseteq CameraIds
                         /\ l["sink"] \subseteq SinkIds
                         \* which has a first entry unless it is empty
                         /\ \A f \in Fields : l[f] # {} => \E i \in l[f] : \A j \in l[f] : i <= j
  /\ Patches \subseteq Selections
  /\ StartSelections \subseteq Selections

VARIABLES
  roomIds,     \* RoomState.Capture's MicID, CameraID and SinkID
  roomLabels,  \* its labels, each as the id of the device it is the label of
  handler,     \* per caller [step, patch, target]: the request it serves
  serial       \* history: requests came one at a time and none was refused

roomVars == <<roomIds, roomLabels>>
vars == <<bundleVars, roomVars, handler, serial>>

NoPatch == [mic |-> NoId, camera |-> NoId, sink |-> NoId]
Idle == [step |-> "idle", patch |-> NoPatch, target |-> NoPatch]
Handlers == [step : {"idle", "resolve", "ids", "labels", "reread", "reopen", "camera", "install"},
             patch : Selections, target : Selections]

Init ==
  /\ BundleInit
  /\ roomIds \in StartSelections
  /\ roomLabels = roomIds
  /\ handler = [r \in Callers |-> Idle]
  /\ serial = TRUE

Busy == { r \in Callers : handler[r] # Idle }

-----------------------------------------------------------------------------
(* resolveCaptureDevice: the patched id if it is listed, else the current   *)
(* one if it is listed or a camera, else the first one; NoId for failure.   *)

First(ids) == CHOOSE i \in ids : \A j \in ids : i <= j

\* A current id that is no longer listed is replaced even if it is a camera.
CurrentOrFirst_DropsBusyCamera(field, listed) ==
  IF roomIds[field] \in listed THEN roomIds[field]
  ELSE IF listed = {} THEN NoId ELSE First(listed)

CurrentOrFirst(field, listed) ==
  IF roomIds[field] \in listed \/ (field = "camera" /\ roomIds[field] # NoId)
  THEN roomIds[field]
  ELSE IF listed = {} THEN NoId ELSE First(listed)

Resolved(field, listed, patch) ==
  IF patch[field] # NoId
  THEN IF patch[field] \in listed THEN patch[field] ELSE NoId
  ELSE CurrentOrFirst(field, listed)

Merged(listing, patch) ==
  [mic |-> Resolved("mic", listing["mic"], patch),
   camera |-> Resolved("camera", listing["camera"], patch),
   sink |-> Resolved("sink", listing["sink"], patch)]

Step(r, step) == handler' = [handler EXCEPT ![r].step = step]
Answer(r) == handler' = [handler EXCEPT ![r] = Idle]

-----------------------------------------------------------------------------
(* The handlers, from the first look at the room to the answer.             *)

\* daemon.Run opens the bundle before it serves requests.
Startup ==
  /\ Open(roomIds)
  /\ UNCHANGED <<roomVars, handler, serial>>

Begin(r, patch) ==
  /\ phase # "starting"
  /\ handler[r] = Idle
  /\ handler' = [handler EXCEPT ![r] = [Idle EXCEPT !.step = "resolve", !.patch = patch]]
  /\ serial' = (serial /\ Busy = {})
  /\ UNCHANGED <<bundleVars, roomVars>>

SetDevices(r) == \E patch \in Patches : Begin(r, patch)

\* list-capture-devices: defaults are filled in only if an id is missing.
ListDevices(r) ==
  /\ \E f \in Fields : roomIds[f] = NoId
  /\ Begin(r, NoPatch)

\* ApplyCaptureSelection up to the first write: the room is read and released.
Resolve(r, listing) ==
  /\ handler[r].step = "resolve"
  /\ LET next == Merged(listing, handler[r].patch) IN
       IF \E f \in Fields : next[f] = NoId
       THEN Answer(r) /\ serial' = FALSE
       ELSE /\ handler' = [handler EXCEPT ![r].step = "ids", ![r].target = next]
            /\ UNCHANGED serial
  /\ UNCHANGED <<bundleVars, roomVars>>

SetIds(r) ==
  /\ handler[r].step = "ids"
  /\ roomIds' = handler[r].target
  /\ handler' = [handler EXCEPT ![r].step = "labels", ![r].patch = NoPatch]
  /\ UNCHANGED <<bundleVars, roomLabels, serial>>

NewLabels_KeepsCamera(r) == [handler[r].target EXCEPT !.camera = roomLabels.camera]
NewLabels(r) == handler[r].target

SetLabels(r) ==
  /\ handler[r].step = "labels"
  /\ roomLabels' = NewLabels(r)
  /\ handler' = [handler EXCEPT ![r].step = "reread", ![r].target = NoPatch]
  /\ UNCHANGED <<bundleVars, roomIds, serial>>

\* The selection handed to the bundle is the one the room holds by now.
Reread(r) ==
  /\ handler[r].step = "reread"
  /\ handler' = [handler EXCEPT ![r].step = "reopen", ![r].target = roomIds]
  /\ UNCHANGED <<bundleVars, roomVars, serial>>

Reopen(r) ==
  /\ handler[r].step = "reopen"
  /\ LET sel == handler[r].target IN
       \/ ReopenIgnored /\ Answer(r) /\ UNCHANGED serial
       \/ ReopenRefused /\ Answer(r) /\ serial' = FALSE
       \/ ReopenLosesNative(sel) /\ Answer(r) /\ serial' = FALSE
       \/ ReopenKeepsNative(r, sel) /\ Step(r, "camera") /\ UNCHANGED serial
       \/ ReopenSwitchesNative(r, sel) /\ Step(r, "camera") /\ UNCHANGED serial
  /\ UNCHANGED <<roomVars>>

ReopenCamera(r) ==
  /\ handler[r].step = "camera"
  /\ \/ ReopenLosesCamera(r, handler[r].target) /\ Answer(r) /\ serial' = FALSE
     \/ ReopenHasCamera(r) /\ Step(r, "install") /\ UNCHANGED serial
  /\ UNCHANGED roomVars

ReopenFinish(r) ==
  /\ handler[r].step = "install"
  /\ ReopenDone(r, handler[r].target)
  /\ Answer(r)
  /\ UNCHANGED <<roomVars, serial>>

Serve(r) ==
  \/ \E l \in Listings : Resolve(r, l)
  \/ SetIds(r) \/ SetLabels(r) \/ Reread(r)
  \/ Reopen(r) \/ ReopenCamera(r) \/ ReopenFinish(r)

Next ==
  \/ Startup
  \/ \E r \in Callers : SetDevices(r) \/ ListDevices(r) \/ Serve(r)
  \/ BundleStep /\ UNCHANGED <<roomVars, handler, serial>>

\* A goroutine that can run does, a read ends (the ring never blocks, the camera
\* is waited for one second), and Bundle.mu is handed to one of those that wait
\* for it again and again (sync.Mutex serves a starving goroutine first).
Spec ==
  /\ Init /\ [][Next]_vars
  /\ \A r \in Callers : SF_vars(Serve(r))
  /\ WF_vars(ReadNativeEnd /\ UNCHANGED <<roomVars, handler, serial>>)
  /\ WF_vars(ReadFrameBegin /\ UNCHANGED <<roomVars, handler, serial>>)
  /\ WF_vars(ReadFrameEnd /\ UNCHANGED <<roomVars, handler, serial>>)

-----------------------------------------------------------------------------
(* Properties.                                                              *)

\* Every variable has its type (the state of Bundle, room and handlers).
TypeOK ==
  /\ phase \in {"starting", "open", "absent", "closed"}
  /\ lock \in Callers \cup {Free}
  /\ selection \in Selections
  /\ native \in NativeHandles \cup {NoHandle}
  /\ camera \in CameraObjects \cup {NoHandle}
  /\ natives \in [NativeHandles -> Sources \cup {Closed}]
  /\ cameras \in [CameraObjects -> CameraIds \cup {ClosedCamera}]
  /\ micReader \in NativeHandles \cup {NoHandle}
  /\ camReader \in [step : {"idle", "copied", "frame"}, cam : CameraObjects \cup {NoHandle}]
  /\ torn \in BOOLEAN
  /\ roomIds \in Selections
  /\ roomLabels \in Selections
  /\ handler \in [Callers -> Handlers]
  /\ serial \in BOOLEAN

\* Nothing leaks: whatever mixture of failed and successful Open, Reopen and Close
\* came before, the only devices held open are the ones the bundle refers to, and
\* once the bundle is closed, or was never opened, there are none (bundle.go:98,
\* 132, 150, 166).
HandlesOwned ==
  /\ OpenNatives = {native} \ {NoHandle}
  /\ OpenCameras = {camera} \ {NoHandle}
  /\ phase # "open" => native = NoHandle /\ camera = NoHandle

\* A camera is never closed under the compositor: while readFrame waits for a frame
\* the camera it waits on is open, though Reopen and Close run at the same time
\* (v4l2_camera.go:82-122).
FrameFromOpenCamera ==
  camReader.step = "frame" => cameras[camReader.cam] # ClosedCamera

\* Unless a Reopen failed halfway, what ActiveSelection reports between two calls of
\* Reopen is what is captured: the native capture is open for its microphone and
\* sink, the camera for its camera (bundle.go:109-154, 217-224).
SelectionInEffect ==
  phase = "open" /\ lock = Free /\ ~torn =>
    /\ native # NoHandle /\ natives[native] = Source(selection)
    /\ selection.camera # NoId =>
         camera # NoHandle /\ cameras[camera] = selection.camera

\* As long as requests came one at a time and none was refused, between requests
\* the room shows the host the devices the bundle has selected, under their own
\* labels (capture_selection.go:28-30, capture_reopen.go:25-34).
RoomShowsSelection ==
  phase = "open" /\ Busy = {} /\ serial =>
    roomIds = selection /\ roomLabels = roomIds

\* A camera that the room has selected is only replaced by a request that names
\* another one: that the camera is missing from a listing, as it is while the
\* bundle itself streams from it, does not change the selection (the test
\* TestApplyCaptureSelectionKeepsBusyCameraWhenPatchOmitsField).
BusyCameraKept ==
  serial =>
    \A r \in Callers :
      handler[r].step = "ids" /\ handler[r].patch.camera = NoId /\ roomIds.camera # NoId
        => handler[r].target.camera = roomIds.camera

\* A field that a patch omits keeps its current selection, unless it had none or the
\* stored device is no longer available (docs/API.md:74).  Two handlers that read the
\* room before either writes it undo each other's choice.
OmittedFieldKept ==
  [][ \A r \in Callers, f \in {"mic", "camera"} :
        handler[r].step = "ids" /\ handler'[r].step = "labels"
        /\ handler[r].patch[f] = NoId /\ roomIds[f] # NoId
        /\ (\A l \in Listings : roomIds[f] \in l[f])
          => roomIds'[f] = roomIds[f] ]_vars

\* Every request is answered: Reopen waits for a frame while it holds Bundle.mu,
\* readers wait for Bundle.mu, and none of them waits for ever.
RequestsAnswered ==
  \A r \in Callers : handler[r].step # "idle" ~> handler[r].step = "idle"
=============================================================================
