------------------------ MODULE CaptureControl_proofs -------------------------
(***************************************************************************)
(* The capture bundle and the requests that switch its devices, for every  *)
(* number of devices and callers and whatever opens and fails: the types,  *)
(* the ownership of devices, the frame that is read from an open camera,   *)
(* and, of the selection, that it is in effect, that the room shows it,    *)
(* and that a camera in use is kept.                                       *)
(***************************************************************************)
EXTENDS CaptureControl, TLAPS

\* Bundle.mu is held by the one handler that is inside Reopen, of an open bundle;
\* a read of the camera has a camera.
LockDiscipline ==
  /\ lock # Free => phase = "open"
  /\ \A r \in Callers : handler[r].step \in {"camera", "install"} <=> lock = r
  /\ camReader.step # "idle" => camReader.cam \in CameraObjects

\* HandlesOwned, handle by handle.
OneNative == \A h \in NativeHandles : natives[h] # Closed <=> h = native
OneCamera == \A c \in CameraObjects : cameras[c] # ClosedCamera <=> c = camera
Owned ==
  /\ OneNative
  /\ OneCamera
  /\ phase # "open" => native = NoHandle /\ camera = NoHandle

\* SelectionInEffect, also while a Reopen is under way: the native capture is already
\* that of the new selection, the camera still that of the old one.
InEffect ==
  phase = "open" /\ ~torn =>
    /\ native # NoHandle
    /\ lock = Free => natives[native] = Source(selection)
    /\ lock # Free => natives[native] = Source(handler[lock].target)
    /\ selection.camera # NoId =>
         camera # NoHandle /\ cameras[camera] = selection.camera

\* One request at a time; and what the room shows at each of its steps.
OneRequest == serial => \A r, s \in Busy : r = s
StepShown(r) ==
  /\ handler[r].step \in {"resolve", "ids"} => roomIds = selection /\ roomLabels = roomIds
  /\ handler[r].step = "labels" => handler[r].target = roomIds
  /\ handler[r].step = "reread" => roomLabels = roomIds
  /\ handler[r].step \in {"reopen", "camera", "install"} =>
       roomLabels = roomIds /\ handler[r].target = roomIds
Shown ==
  /\ phase = "starting" => Busy = {} /\ roomLabels = roomIds
  /\ phase = "open" /\ serial =>
       /\ Busy = {} => roomIds = selection /\ roomLabels = roomIds
       /\ \A r \in Callers : StepShown(r)

IInv ==
  /\ TypeOK /\ LockDiscipline /\ Owned /\ FrameFromOpenCamera
  /\ InEffect /\ OneRequest /\ Shown /\ BusyCameraKept
-----------------------------------------------------------------------------
(* What the steps may rest on.                                              *)

\* The invariant says what the parts of the specification say.
LEMMA OwnedHandles == ASSUME TypeOK, Owned PROVE HandlesOwned
<1>1. native \in NativeHandles \cup {NoHandle} /\ camera \in CameraObjects \cup {NoHandle}
  BY DEF TypeOK
<1>2. NoHandle \notin NativeHandles /\ NoHandle \notin CameraObjects
  BY CaptureAssumption
<1>3. OpenNatives = {native} \ {NoHandle}
  BY <1>1, <1>2, Zenon DEF Owned, OneNative, OpenNatives
<1>4. OpenCameras = {camera} \ {NoHandle}
  BY <1>1, <1>2, Zenon DEF Owned, OneCamera, OpenCameras
<1>5. QED
  BY <1>3, <1>4 DEF Owned, HandlesOwned

LEMMA EffectiveSelection == ASSUME InEffect PROVE SelectionInEffect
BY DEF InEffect, SelectionInEffect

LEMMA ShownSelection == ASSUME Shown PROVE RoomShowsSelection
BY DEF Shown, RoomShowsSelection

\* A new camera object is neither the one in use nor the one being read.
LEMMA NewCameraIsNew ==
  ASSUME camera \in CameraObjects \cup {NoHandle}, camReader.cam \in CameraObjects \cup {NoHandle}
  PROVE  NewCamera \in CameraObjects /\ NewCamera \notin {camera, camReader.cam}
BY CaptureAssumption DEF NewCamera

\* The source of a selection is a source, and none of them stands for a closed capture.
LEMMA SourceOpen ==
  ASSUME NEW sel \in Selections
  PROVE  Source(sel) \in Sources /\ Source(sel) # Closed
<1>1. sel.mic \in MicIds \cup {NoId} /\ sel.sink \in SinkIds \cup {NoId}
  BY DEF Selections
<1>2. sel.mic # -1
  BY <1>1, CaptureAssumption DEF NoId
<1>3. QED
  BY <1>1, <1>2 DEF Source, Sources, Closed

LEMMA CameraIdOpen ==
  ASSUME NEW id \in CameraIds PROVE id # ClosedCamera /\ id # NoId
BY CaptureAssumption DEF ClosedCamera, NoId

\* What is resolved from a listing is a selection.
LEMMA MergedSelection ==
  ASSUME TypeOK, NEW l \in Listings, NEW patch \in Selections PROVE Merged(l, patch) \in Selections
<1>1. ASSUME NEW f \in Fields, NEW Ids, l[f] \subseteq Ids, roomIds[f] \in Ids \cup {NoId},
             patch[f] \in Ids \cup {NoId}
      PROVE  Resolved(f, l[f], patch) \in Ids \cup {NoId}
  <2>1. l[f] # {} => First(l[f]) \in l[f]
    BY ControlAssumption DEF First
  <2>2. QED
    BY <1>1, <2>1 DEF Resolved, CurrentOrFirst
<1>2. /\ roomIds["mic"] \in MicIds \cup {NoId} /\ patch["mic"] \in MicIds \cup {NoId}
      /\ roomIds["camera"] \in CameraIds \cup {NoId} /\ patch["camera"] \in CameraIds \cup {NoId}
      /\ roomIds["sink"] \in SinkIds \cup {NoId} /\ patch["sink"] \in SinkIds \cup {NoId}
  BY DEF TypeOK, Selections
<1>3. l["mic"] \subseteq MicIds /\ l["camera"] \subseteq CameraIds /\ l["sink"] \subseteq SinkIds
  BY ControlAssumption
<1>4. /\ Resolved("mic", l["mic"], patch) \in MicIds \cup {NoId}
      /\ Resolved("camera", l["camera"], patch) \in CameraIds \cup {NoId}
      /\ Resolved("sink", l["sink"], patch) \in SinkIds \cup {NoId}
  BY <1>1, <1>2, <1>3 DEF Fields
<1>5. QED
  BY <1>4 DEF Merged, Selections

\* Nothing is open and nobody asks for anything before Open.
LEMMA InitInv == Init => IInv
<1> SUFFICES ASSUME Init PROVE IInv
  OBVIOUS
<1>1. TypeOK
  BY CaptureAssumption, ControlAssumption DEF Init, BundleInit, TypeOK, Selections, Handlers, Idle, NoPatch
<1>2. LockDiscipline /\ Owned /\ FrameFromOpenCamera /\ InEffect
  BY CaptureAssumption DEF Init, BundleInit, LockDiscipline, Owned, OneNative, OneCamera,
     FrameFromOpenCamera, InEffect, Idle
<1>3. OneRequest /\ Shown /\ BusyCameraKept
  BY DEF Init, BundleInit, OneRequest, Shown, Busy, BusyCameraKept, Idle
<1>4. QED
  BY <1>1, <1>2, <1>3 DEF IInv

-----------------------------------------------------------------------------
(* The steps of a request that only look at the room.                       *)

\* Startup: the bundle captures what the room has selected.
LEMMA StartupPreserves == ASSUME IInv, Startup PROVE IInv'
<1> USE DEF Startup, roomVars
<1>1. /\ TypeOK /\ LockDiscipline /\ Owned /\ FrameFromOpenCamera /\ InEffect
      /\ OneRequest /\ Shown /\ BusyCameraKept
  BY DEF IInv
<1>2. Open(roomIds) /\ phase = "starting" /\ UNCHANGED <<roomIds, roomLabels, handler, serial>>
  BY DEF Open
<1>3. /\ native = NoHandle /\ camera = NoHandle /\ lock = Free
      /\ Busy = {} /\ roomLabels = roomIds /\ roomIds \in Selections
  BY <1>1, <1>2 DEF Owned, LockDiscipline, Shown, TypeOK
<1>4. UNCHANGED <<lock, micReader, camReader, torn>>
  BY <1>2 DEF Open, OpenFailed
<1>5. /\ NewCamera \in CameraObjects /\ NewCamera # camReader.cam
      /\ camera \in CameraObjects \cup {NoHandle}
  BY <1>1, NewCameraIsNew DEF TypeOK
<1>6. CASE OpenFailed
  BY <1>1, <1>2, <1>3, <1>4, <1>6 DEF OpenFailed, IInv, TypeOK, LockDiscipline, Owned, OneNative, OneCamera,
     FrameFromOpenCamera, InEffect, OneRequest, Shown, BusyCameraKept, Busy
<1>7. CASE phase' = "open" /\ selection' = roomIds
  <2>1. PICK h \in NativeHandles : native' = h /\ natives' = [natives EXCEPT ![h] = Source(roomIds)]
    BY <1>2, <1>7 DEF Open, OpenFailed
  <2>2. \/ roomIds.camera = NoId /\ UNCHANGED <<camera, cameras>>
        \/ \E id \in Openable(roomIds.camera) :
             camera' = NewCamera /\ cameras' = [cameras EXCEPT ![NewCamera] = id]
    BY <1>2, <1>7 DEF Open, OpenFailed
  <2>3. \A id \in Openable(roomIds.camera) :
          id \in CameraIds /\ id # ClosedCamera /\ (roomIds.camera # NoId => id = roomIds.camera)
    BY <1>3, CameraIdOpen DEF Openable, Selections
  <2>4. Source(roomIds) \in Sources /\ Source(roomIds) # Closed
    BY <1>3, SourceOpen
  <2>5. natives'[h] = Source(roomIds) /\ \A g \in NativeHandles : g # h => natives'[g] = natives[g]
    BY <1>1, <2>1 DEF TypeOK
  <2>6. \A id \in Openable(roomIds.camera) : cameras' = [cameras EXCEPT ![NewCamera] = id] =>
          /\ cameras'[NewCamera] = id
          /\ \A c \in CameraObjects : c # NewCamera => cameras'[c] = cameras[c]
    BY <1>1, <1>5 DEF TypeOK
  <2>7. TypeOK'
    BY <1>1, <1>2, <1>3, <1>4, <1>5, <1>7, <2>1, <2>2, <2>3, <2>4 DEF TypeOK
  <2>8. NoHandle \notin NativeHandles /\ NoHandle \notin CameraObjects
    BY CaptureAssumption
  <2>9. OneNative' /\ OneCamera'
    <3>1. OneNative'
      BY <1>1, <1>3, <2>1, <2>4, <2>5, <2>8 DEF Owned, OneNative
    <3>2. OneCamera'
      BY <1>1, <1>3, <1>5, <2>2, <2>3, <2>6, <2>8 DEF Owned, OneCamera
    <3>3. QED BY <3>1, <3>2
  <2>10. LockDiscipline' /\ Owned' /\ OneRequest' /\ BusyCameraKept'
    BY <1>1, <1>2, <1>4, <1>7, <2>9 DEF LockDiscipline, Owned, OneRequest, BusyCameraKept, Busy
  <2>11. FrameFromOpenCamera'
    BY <1>1, <1>4, <1>5, <2>2, <2>6 DEF FrameFromOpenCamera, LockDiscipline
  <2>12. InEffect'
    BY <1>3, <1>4, <1>5, <1>7, <2>1, <2>2, <2>3, <2>5, <2>6, <2>8 DEF InEffect
  <2>13. Shown'
    <3>1. Busy' = Busy
      BY <1>2 DEF Busy
    <3>2. \A r \in Callers : handler[r].step = "idle"
      BY <1>3 DEF Busy, Idle
    <3>3. QED
      BY <1>2, <1>3, <1>7, <3>1, <3>2 DEF Shown, StepShown
  <2>14. QED
    BY <2>7, <2>9, <2>10, <2>11, <2>12, <2>13 DEF IInv
<1>8. QED
  BY <1>2, <1>6, <1>7 DEF Open

\* A step of one request: the others are where they were.
LEMMA OthersStay ==
  ASSUME TypeOK, NEW r \in Callers, NEW h \in Handlers, handler' = [handler EXCEPT ![r] = h]
  PROVE  /\ handler' \in [Callers -> Handlers]
         /\ handler'[r] = h
         /\ \A s \in Callers : s # r => handler'[s] = handler[s]
BY DEF TypeOK

\* A request that touches the room only, and is not inside Reopen before or after:
\* the bundle's parts of the invariant need no more.
LEMMA BundleUntouched ==
  ASSUME IInv, UNCHANGED bundleVars, NEW r \in Callers,
         \A s \in Callers : s # r => handler'[s] = handler[s],
         handler[r].step \notin {"camera", "install"}, handler'[r].step \notin {"camera", "install"}
  PROVE  LockDiscipline' /\ Owned' /\ FrameFromOpenCamera' /\ InEffect'
<1> USE DEF bundleVars
<1>1. TypeOK /\ LockDiscipline /\ Owned /\ FrameFromOpenCamera /\ InEffect
  BY DEF IInv
<1>2. LockDiscipline'
  BY <1>1 DEF LockDiscipline
<1>3. Owned' /\ FrameFromOpenCamera'
  BY <1>1 DEF Owned, OneNative, OneCamera, FrameFromOpenCamera
<1>4. lock # Free => handler'[lock] = handler[lock]
  BY <1>1 DEF LockDiscipline, TypeOK
<1>5. InEffect'
  BY <1>1, <1>4 DEF InEffect
<1>6. QED
  BY <1>2, <1>3, <1>5

\* A request begins.
LEMMA BeginPreserves ==
  ASSUME IInv, NEW r \in Callers, NEW patch \in Selections, Begin(r, patch) PROVE IInv'
<1> DEFINE new == [Idle EXCEPT !.step = "resolve", !.patch = patch]
<1> USE DEF Begin, roomVars, bundleVars
<1>1. /\ TypeOK /\ LockDiscipline /\ Owned /\ FrameFromOpenCamera /\ InEffect
      /\ OneRequest /\ Shown /\ BusyCameraKept
  BY DEF IInv
<1>2. new \in Handlers /\ new.step = "resolve" /\ new # Idle
  BY DEF Idle, Handlers, NoPatch, Selections
<1>3. /\ handler' \in [Callers -> Handlers] /\ handler'[r] = new
      /\ \A s \in Callers : s # r => handler'[s] = handler[s]
  BY <1>1, <1>2, OthersStay
<1>4. handler[r] = Idle /\ handler[r].step = "idle"
  BY DEF Idle
<1> HIDE DEF new
<1>5. TypeOK'
  BY <1>1, <1>3 DEF TypeOK
<1>6. LockDiscipline' /\ Owned' /\ FrameFromOpenCamera' /\ InEffect'
  BY <1>2, <1>3, <1>4, BundleUntouched
<1>7. Busy' = Busy \cup {r}
  BY <1>2, <1>3, <1>4 DEF Busy
<1>8. OneRequest'
  BY <1>1, <1>7 DEF OneRequest
<1>9. serial' => serial /\ Busy = {} /\ \A s \in Callers : handler[s].step = "idle"
  <2>1. serial' => serial /\ Busy = {}
    BY Zenon
  <2>2. Busy = {} => \A s \in Callers : handler[s].step = "idle"
    BY DEF Busy, Idle
  <2>3. QED
    BY <2>1, <2>2
<1>10. Shown'
  BY <1>1, <1>2, <1>3, <1>7, <1>9 DEF Shown, StepShown
<1>11. BusyCameraKept'
  BY <1>2, <1>3, <1>9 DEF BusyCameraKept
<1>12. QED
  BY <1>5, <1>6, <1>8, <1>10, <1>11 DEF IInv

\* What holds of the room between two steps of the request that is being served.
LEMMA AloneServed ==
  ASSUME OneRequest, NEW r \in Callers, handler[r].step # "idle"
  PROVE  /\ r \in Busy
         /\ serial => \A s \in Callers : s # r => handler[s] = Idle /\ handler[s].step = "idle"
<1>1. r \in Busy
  BY DEF Busy, Idle
<1>2. serial => \A s \in Callers : s # r => handler[s] = Idle
  BY <1>1 DEF OneRequest, Busy
<1>3. Idle.step = "idle"
  BY DEF Idle
<1>4. QED
  BY <1>1, <1>2, <1>3

\* Resolve, SetIds, SetLabels and Reread lead a request to Reopen.
LEMMA RoomStepPreserves ==
  ASSUME IInv, NEW r \in Callers,
         (\E l \in Listings : Resolve(r, l)) \/ SetIds(r) \/ SetLabels(r) \/ Reread(r)
  PROVE  IInv'
<1> USE DEF roomVars
<1>1. /\ TypeOK /\ LockDiscipline /\ Owned /\ FrameFromOpenCamera /\ InEffect
      /\ OneRequest /\ Shown /\ BusyCameraKept
  BY DEF IInv
<1>2. PICK h \in Handlers :
        /\ handler' = [handler EXCEPT ![r] = h]
        /\ h.step \notin {"camera", "install"}
        /\ UNCHANGED bundleVars
        /\ handler[r].step \in {"resolve", "ids", "labels", "reread"}
        /\ \/ handler[r].step = "resolve" /\ UNCHANGED roomVars /\ serial' = FALSE /\ h = Idle
           \/ /\ handler[r].step = "resolve" /\ UNCHANGED <<roomVars, serial>>
              /\ h.step = "ids" /\ h.patch = handler[r].patch
              /\ \E l \in Listings : h.target = Merged(l, h.patch)
           \/ /\ handler[r].step = "ids" /\ h.step = "labels" /\ h.target = handler[r].target
              /\ roomIds' = h.target /\ UNCHANGED <<roomLabels, serial>>
           \/ /\ handler[r].step = "labels" /\ h.step = "reread"
              /\ roomLabels' = handler[r].target /\ UNCHANGED <<roomIds, serial>>
           \/ /\ handler[r].step = "reread" /\ h.step = "reopen" /\ h.target = roomIds
              /\ UNCHANGED <<roomVars, serial>>
  <2>1. handler \in [Callers -> Handlers] /\ handler[r] \in Handlers
    BY <1>1 DEF TypeOK
  <2>2. NoPatch \in Selections /\ Idle \in Handlers /\ Idle.step = "idle"
    BY DEF NoPatch, Selections, Idle, Handlers
  <2>3. ASSUME NEW l \in Listings, Resolve(r, l)
        PROVE  \E h \in Handlers :
          /\ handler' = [handler EXCEPT ![r] = h]
          /\ h.step \notin {"camera", "install"}
          /\ \/ UNCHANGED roomVars /\ serial' = FALSE /\ h = Idle
             \/ /\ UNCHANGED <<roomVars, serial>>
                /\ h.step = "ids" /\ h.patch = handler[r].patch
                /\ h.target = Merged(l, h.patch)
    <3> DEFINE next == Merged(l, handler[r].patch)
               new == [handler[r] EXCEPT !.step = "ids", !.target = next]
    <3>1. next \in Selections
      BY <1>1, <2>1, MergedSelection DEF Handlers
    <3> HIDE DEF next
    <3>2. new \in Handlers /\ new.step = "ids" /\ new.patch = handler[r].patch /\ new.target = next
      BY <2>1, <3>1 DEF Handlers
    <3>3. CASE serial' = FALSE /\ Answer(r)
      BY <2>2, <2>3, <3>3 DEF Resolve, Answer
    <3>4. CASE handler' = [handler EXCEPT ![r].step = "ids", ![r].target = next] /\ UNCHANGED serial
      <4>1. handler' = [handler EXCEPT ![r] = new]
        BY <2>1, <3>4
      <4> HIDE DEF new
      <4>2. QED
        <5>1. UNCHANGED roomVars
          BY <2>3 DEF Resolve
        <5>2. /\ new \in Handlers /\ handler' = [handler EXCEPT ![r] = new]
              /\ new.step \notin {"camera", "install"}
              /\ UNCHANGED <<roomVars, serial>> /\ new.step = "ids"
              /\ new.patch = handler[r].patch /\ new.target = Merged(l, new.patch)
          BY <3>2, <3>4, <4>1, <5>1 DEF next
        <5>3. QED
          BY <5>2
    <3>5. \/ serial' = FALSE /\ Answer(r)
          \/ handler' = [handler EXCEPT ![r].step = "ids", ![r].target = next] /\ UNCHANGED serial
      BY <2>3, Zenon DEF Resolve, next
    <3>6. QED
      BY <3>3, <3>4, <3>5
  <2>4. ASSUME SetIds(r)
        PROVE  \E h \in Handlers :
          /\ handler' = [handler EXCEPT ![r] = h]
          /\ h.step = "labels" /\ h.target = handler[r].target
    <3>1. handler' = [handler EXCEPT ![r] = [handler[r] EXCEPT !.step = "labels", !.patch = NoPatch]]
      BY <2>1, <2>4 DEF SetIds
    <3>2. [handler[r] EXCEPT !.step = "labels", !.patch = NoPatch] \in Handlers
      BY <2>1, <2>2 DEF Handlers
    <3>3. QED
      BY <2>1, <3>1, <3>2 DEF Handlers
  <2>5. ASSUME SetLabels(r)
        PROVE  \E h \in Handlers :
          handler' = [handler EXCEPT ![r] = h] /\ h.step = "reread"
    <3>1. handler' = [handler EXCEPT ![r] = [handler[r] EXCEPT !.step = "reread", !.target = NoPatch]]
      BY <2>1, <2>5 DEF SetLabels
    <3>2. [handler[r] EXCEPT !.step = "reread", !.target = NoPatch] \in Handlers
      BY <2>1, <2>2 DEF Handlers
    <3>3. QED
      BY <2>1, <3>1, <3>2 DEF Handlers
  <2>6. ASSUME Reread(r)
        PROVE  \E h \in Handlers :
          handler' = [handler EXCEPT ![r] = h] /\ h.step = "reopen" /\ h.target = roomIds
    <3>1. handler' = [handler EXCEPT ![r] = [handler[r] EXCEPT !.step = "reopen", !.target = roomIds]]
      BY <2>1, <2>6 DEF Reread
    <3>2. [handler[r] EXCEPT !.step = "reopen", !.target = roomIds] \in Handlers
      BY <1>1, <2>1 DEF Handlers, TypeOK
    <3>3. QED
      BY <2>1, <3>1, <3>2 DEF Handlers
  <2>7. CASE \E l \in Listings : Resolve(r, l)
    <3>1. PICK l \in Listings : Resolve(r, l)
      BY <2>7
    <3>2. handler[r].step = "resolve" /\ UNCHANGED bundleVars
      BY <3>1 DEF Resolve
    <3>3. QED
      BY <2>3, <3>1, <3>2
  <2>8. CASE SetIds(r)
    <3>1. handler[r].step = "ids" /\ UNCHANGED bundleVars /\ roomIds' = handler[r].target
          /\ UNCHANGED <<roomLabels, serial>>
      BY <2>8 DEF SetIds
    <3>2. QED
      BY <2>4, <2>8, <3>1
  <2>9. CASE SetLabels(r)
    <3>1. handler[r].step = "labels" /\ UNCHANGED bundleVars /\ roomLabels' = handler[r].target
          /\ UNCHANGED <<roomIds, serial>>
      BY <2>9 DEF SetLabels, NewLabels
    <3>2. QED
      BY <2>5, <2>9, <3>1
  <2>10. CASE Reread(r)
    <3>1. handler[r].step = "reread" /\ UNCHANGED bundleVars /\ UNCHANGED <<roomVars, serial>>
      BY <2>10 DEF Reread
    <3>2. QED
      BY <2>6, <2>10, <3>1
  <2>11. QED
    BY <2>7, <2>8, <2>9, <2>10
<1>3. /\ handler' \in [Callers -> Handlers] /\ handler'[r] = h
      /\ \A s \in Callers : s # r => handler'[s] = handler[s]
  BY <1>1, <1>2, OthersStay
<1>4. handler[r] \in Handlers /\ handler[r].target \in Selections
  BY <1>1 DEF TypeOK, Handlers
<1>5. TypeOK'
  <2>1. roomIds' \in Selections /\ roomLabels' \in Selections
    BY <1>1, <1>2, <1>4 DEF TypeOK, Handlers
  <2>2. serial' \in BOOLEAN
    BY <1>1, <1>2 DEF TypeOK
  <2>3. QED
    BY <1>1, <1>2, <1>3, <2>1, <2>2 DEF TypeOK, bundleVars
<1>6. LockDiscipline' /\ Owned' /\ FrameFromOpenCamera' /\ InEffect'
  BY <1>2, <1>3, BundleUntouched
<1>7. /\ r \in Busy
      /\ serial => \A s \in Callers : s # r => handler[s] = Idle /\ handler[s].step = "idle"
  BY <1>1, <1>2, AloneServed
<1>8. serial' => serial
  BY <1>2
<1>9. Busy' \subseteq Busy /\ (serial' => Busy' # {})
  <2>1. Busy' \subseteq Busy
    BY <1>3, <1>7 DEF Busy
  <2>2. h.step # "idle" => h # Idle
    BY DEF Idle
  <2>3. h.step # "idle" => r \in Busy'
    BY <1>3, <2>2 DEF Busy
  <2>4. QED
    BY <1>2, <2>1, <2>3
<1>10. OneRequest'
  BY <1>1, <1>8, <1>9 DEF OneRequest
<1>11. phase' = phase /\ selection' = selection /\ phase # "starting"
  BY <1>1, <1>2, <1>7 DEF bundleVars, Shown
<1>12. Shown'
  BY <1>1, <1>2, <1>3, <1>7, <1>8, <1>9, <1>11 DEF Shown, StepShown
<1>13. BusyCameraKept'
  <2>1. \A l \in Listings, patch \in Selections :
          patch.camera = NoId /\ roomIds.camera # NoId => Merged(l, patch).camera = roomIds.camera
    BY DEF Merged, Resolved, CurrentOrFirst
  <2>2. h.patch \in Selections
    BY DEF Handlers
  <2>3. QED
    BY <1>1, <1>2, <1>3, <1>7, <1>8, <2>1, <2>2 DEF BusyCameraKept
<1>14. QED
  BY <1>5, <1>6, <1>10, <1>12, <1>13 DEF IInv

-----------------------------------------------------------------------------
(* The steps of Reopen.                                                     *)

\* What a step of Reopen does to the requests, whatever it does to the devices.
LEMMA ServedInReopen ==
  ASSUME IInv, NEW r \in Callers, handler[r].step \in {"reopen", "camera", "install"},
         UNCHANGED <<phase, roomIds, roomLabels>>,
         serial' => serial, serial' \in BOOLEAN,
         \/ /\ handler' = [handler EXCEPT ![r] = Idle]
            /\ serial' => phase # "open" \/ selection' = handler[r].target
         \/ \E step \in {"camera", "install"} : handler' = [handler EXCEPT ![r].step = step]
  PROVE  /\ handler' \in [Callers -> Handlers]
         /\ \A s \in Callers : s # r => handler'[s] = handler[s]
         /\ \/ handler'[r] = Idle
            \/ /\ handler'[r].target = handler[r].target
               /\ \E step \in {"camera", "install"} :
                    /\ handler' = [handler EXCEPT ![r].step = step]
                    /\ handler'[r].step = step
         /\ OneRequest' /\ Shown' /\ BusyCameraKept'
<1>1. /\ TypeOK /\ OneRequest /\ Shown /\ BusyCameraKept
  BY DEF IInv
<1>2. Idle \in Handlers /\ Idle.step = "idle"
  BY DEF NoPatch, Selections, Idle, Handlers
<1>3. \A step \in {"camera", "install"} :
        LET next == [handler[r] EXCEPT !.step = step] IN
          /\ next \in Handlers /\ next.step = step /\ next.target = handler[r].target
          /\ handler' = [handler EXCEPT ![r].step = step] => handler' = [handler EXCEPT ![r] = next]
  BY <1>1 DEF TypeOK, Handlers
<1>4. PICK h \in Handlers :
        /\ handler' = [handler EXCEPT ![r] = h]
        /\ \/ h = Idle /\ (serial' => phase # "open" \/ selection' = handler[r].target)
           \/ /\ h.target = handler[r].target
              /\ \E step \in {"camera", "install"} :
                   handler' = [handler EXCEPT ![r].step = step] /\ h.step = step
  <2>1. CASE handler' = [handler EXCEPT ![r] = Idle] /\ (serial' => phase # "open" \/ selection' = handler[r].target)
    BY <1>2, <2>1
  <2>2. CASE \E step \in {"camera", "install"} : handler' = [handler EXCEPT ![r].step = step]
    BY <1>3, <2>2
  <2>3. QED
    BY <2>1, <2>2
<1>5. /\ handler' \in [Callers -> Handlers] /\ handler'[r] = h
      /\ \A s \in Callers : s # r => handler'[s] = handler[s]
  BY <1>1, <1>4, OthersStay
<1>6. /\ r \in Busy
      /\ serial => \A s \in Callers : s # r => handler[s] = Idle /\ handler[s].step = "idle"
  BY <1>1, AloneServed
<1>7. Busy' \subseteq Busy /\ (h.step # "idle" => Busy' # {})
  <2>1. Busy' \subseteq Busy
    BY <1>5, <1>6 DEF Busy
  <2>2. h.step # "idle" => r \in Busy'
    BY <1>2, <1>5 DEF Busy
  <2>3. QED
    BY <2>1, <2>2
<1>8. OneRequest'
  BY <1>1, <1>7 DEF OneRequest
<1>9. phase # "starting"
  BY <1>1, <1>6 DEF Shown
<1>10. Shown'
  <2>1. ASSUME phase = "open", serial' PROVE roomLabels = roomIds /\ handler[r].target = roomIds
    BY <1>1, <2>1 DEF Shown, StepShown
  <2>2. ASSUME phase = "open", serial', Busy' = {} PROVE selection' = roomIds
    BY <1>4, <1>7, <2>1, <2>2
  <2>3. ASSUME phase = "open", serial', NEW s \in Callers PROVE StepShown(s)'
    BY <1>2, <1>4, <1>5, <1>6, <2>1, <2>3 DEF StepShown
  <2>4. QED
    BY <1>9, <2>1, <2>2, <2>3 DEF Shown
<1>11. BusyCameraKept'
  <2>1. handler'[r].step # "ids"
    BY <1>2, <1>4, <1>5
  <2>2. \A s \in Callers : handler'[s].step = "ids" => handler'[s] = handler[s]
    BY <1>5, <2>1
  <2>3. QED
    BY <1>1, <2>2 DEF BusyCameraKept
<1>12. QED
  BY <1>4, <1>5, <1>8, <1>10, <1>11

\* Closing the bundle's native capture closes the only one there is.
LEMMA NativesClosed ==
  ASSUME TypeOK, Owned
  PROVE  /\ ClosedNatives \in [NativeHandles -> Sources \cup {Closed}]
         /\ \A h \in NativeHandles : ClosedNatives[h] = Closed
<1>1. NoHandle \notin NativeHandles
  BY CaptureAssumption
<1>2. CASE native = NoHandle
  BY <1>1, <1>2 DEF ClosedNatives, Owned, OneNative, TypeOK
<1>3. CASE native # NoHandle
  BY <1>3 DEF ClosedNatives, Owned, OneNative, TypeOK
<1>4. QED
  BY <1>2, <1>3

\* The lock is taken: the native capture is kept, switched or lost.
LEMMA ReopenPreserves == ASSUME IInv, NEW r \in Callers, Reopen(r) PROVE IInv'
<1> DEFINE sel == handler[r].target
<1> USE DEF roomVars
<1>1. /\ TypeOK /\ LockDiscipline /\ Owned /\ FrameFromOpenCamera /\ InEffect
      /\ OneRequest /\ Shown /\ BusyCameraKept
  BY DEF IInv
<1>2. handler[r].step = "reopen" /\ UNCHANGED <<roomIds, roomLabels>>
  BY DEF Reopen
<1>3. sel \in Selections /\ Source(sel) \in Sources /\ Source(sel) # Closed
  BY <1>1, SourceOpen DEF TypeOK, Handlers
<1>4. NoHandle \notin NativeHandles /\ Free \notin Callers
  BY CaptureAssumption
<1>5. Idle.step = "idle"
  BY DEF Idle
<1> HIDE DEF sel
<1>6. ASSUME UNCHANGED bundleVars, Answer(r), serial' => serial, serial' \in BOOLEAN,
             phase = "absent" \/ serial' = FALSE
      PROVE  IInv'
  <2>1. /\ handler' \in [Callers -> Handlers] /\ handler'[r] = Idle
        /\ \A s \in Callers : s # r => handler'[s] = handler[s]
        /\ OneRequest' /\ Shown' /\ BusyCameraKept'
    BY <1>1, <1>2, <1>5, <1>6, ServedInReopen DEF Answer, bundleVars, TypeOK
  <2>2. LockDiscipline' /\ Owned' /\ FrameFromOpenCamera' /\ InEffect'
    BY <1>2, <1>5, <1>6, <2>1, BundleUntouched
  <2>3. TypeOK'
    BY <1>1, <1>2, <1>6, <2>1 DEF TypeOK, bundleVars
  <2>4. QED
    BY <2>1, <2>2, <2>3 DEF IInv
<1>7. CASE ReopenLosesNative(sel) /\ Answer(r) /\ serial' = FALSE
  <2>1. /\ handler' \in [Callers -> Handlers] /\ handler'[r] = Idle
        /\ \A s \in Callers : s # r => handler'[s] = handler[s]
        /\ OneRequest' /\ Shown' /\ BusyCameraKept'
    BY <1>1, <1>2, <1>5, <1>7, ServedInReopen DEF Answer, ReopenLosesNative, TypeOK
  <2>2. /\ native' = NoHandle /\ natives' \in [NativeHandles -> Sources \cup {Closed}]
        /\ \A h \in NativeHandles : natives'[h] = Closed
    BY <1>1, <1>7, NativesClosed DEF ReopenLosesNative
  <2>3. UNCHANGED <<phase, lock, selection, camera, cameras, micReader, camReader>> /\ torn' = TRUE
    BY <1>7 DEF ReopenLosesNative
  <2>4. TypeOK'
    BY <1>1, <1>2, <1>7, <2>1, <2>2, <2>3 DEF TypeOK
  <2>5. LockDiscipline'
    BY <1>1, <1>2, <1>5, <2>1, <2>3 DEF LockDiscipline
  <2>6. phase = "open"
    BY <1>7 DEF ReopenLosesNative
  <2>7. Owned' /\ FrameFromOpenCamera' /\ InEffect'
    BY <1>1, <1>4, <2>2, <2>3, <2>6 DEF Owned, OneNative, OneCamera, FrameFromOpenCamera, InEffect
  <2>8. QED
    BY <2>1, <2>4, <2>5, <2>7 DEF IInv
<1>8. CASE (ReopenKeepsNative(r, sel) \/ ReopenSwitchesNative(r, sel)) /\ Step(r, "camera") /\ UNCHANGED serial
  <2>1. /\ handler' \in [Callers -> Handlers]
        /\ handler' = [handler EXCEPT ![r].step = "camera"]
        /\ \A s \in Callers : s # r => handler'[s] = handler[s]
        /\ OneRequest' /\ Shown' /\ BusyCameraKept'
    BY <1>1, <1>2, <1>8, ServedInReopen DEF Step, ReopenKeepsNative, ReopenSwitchesNative, TypeOK
  <2>2. handler'[r].step = "camera" /\ handler'[r].target = sel
    BY <1>1, <2>1 DEF TypeOK, Handlers, sel
  <2>3. /\ UNCHANGED <<phase, selection, camera, cameras, micReader, camReader, torn>>
        /\ phase = "open" /\ lock = Free /\ lock' = r
    BY <1>8 DEF ReopenKeepsNative, ReopenSwitchesNative
  <2>4. /\ native' \in NativeHandles \cup {NoHandle} /\ natives' \in [NativeHandles -> Sources \cup {Closed}]
        /\ OneNative'
        /\ ~torn => native' # NoHandle /\ natives'[native'] = Source(sel)
    <3>1. CASE ReopenKeepsNative(r, sel)
      <4>1. UNCHANGED <<native, natives>> /\ Source(sel) = Source(selection)
        BY <3>1 DEF ReopenKeepsNative
      <4>2. QED
        BY <1>1, <2>3, <4>1 DEF TypeOK, Owned, OneNative, InEffect
    <3>2. CASE ReopenSwitchesNative(r, sel)
      <4>1. PICK h \in UnusedHandles(native) :
              native' = h /\ natives' = [ClosedNatives EXCEPT ![h] = Source(sel)]
        BY <3>2 DEF ReopenSwitchesNative
      <4>2. h \in NativeHandles
        BY <4>1 DEF UnusedHandles
      <4>3. /\ ClosedNatives \in [NativeHandles -> Sources \cup {Closed}]
            /\ \A g \in NativeHandles : ClosedNatives[g] = Closed
        BY <1>1, NativesClosed
      <4>4. /\ natives' \in [NativeHandles -> Sources \cup {Closed}] /\ natives'[h] = Source(sel)
            /\ \A g \in NativeHandles : g # h => natives'[g] = Closed
        BY <1>3, <4>1, <4>2, <4>3
      <4>5. QED
        BY <1>3, <1>4, <4>1, <4>2, <4>4 DEF OneNative
    <3>3. QED
      BY <1>8, <3>1, <3>2
  <2>5. TypeOK'
    BY <1>1, <1>2, <1>8, <2>1, <2>3, <2>4 DEF TypeOK
  <2>6. LockDiscipline'
    BY <1>1, <1>4, <2>1, <2>2, <2>3 DEF LockDiscipline
  <2>7. Owned' /\ FrameFromOpenCamera'
    BY <1>1, <2>3, <2>4 DEF Owned, OneCamera, FrameFromOpenCamera
  <2>8. InEffect'
    BY <1>1, <1>4, <2>2, <2>3, <2>4 DEF InEffect
  <2>9. QED
    BY <2>1, <2>5, <2>6, <2>7, <2>8 DEF IInv
<1>9. QED
  <2>1. \/ ReopenIgnored /\ Answer(r) /\ UNCHANGED serial
        \/ ReopenRefused /\ Answer(r) /\ serial' = FALSE
        \/ ReopenLosesNative(sel) /\ Answer(r) /\ serial' = FALSE
        \/ (ReopenKeepsNative(r, sel) \/ ReopenSwitchesNative(r, sel)) /\ Step(r, "camera") /\ UNCHANGED serial
    BY Zenon DEF Reopen, sel
  <2>2. serial \in BOOLEAN
    BY <1>1 DEF TypeOK
  <2>3. QED
    BY <1>6, <1>7, <1>8, <2>1, <2>2 DEF ReopenIgnored, ReopenRefused

\* The old camera is closed, if there is one; the others stay as they are.
LEMMA CameraClosed ==
  ASSUME TypeOK, NEW cs \in [CameraObjects -> CameraIds \cup {ClosedCamera}]
  PROVE  /\ CloseCamera(camera, cs) \in [CameraObjects -> CameraIds \cup {ClosedCamera}]
         /\ \A c \in CameraObjects : CloseCamera(camera, cs)[c] = IF c = camera THEN ClosedCamera ELSE cs[c]
<1>1. NoHandle \notin CameraObjects
  BY CaptureAssumption
<1>2. CASE camera = NoHandle
  BY <1>1, <1>2 DEF CloseCamera
<1>3. CASE camera # NoHandle
  BY <1>3 DEF CloseCamera
<1>4. QED
  BY <1>2, <1>3

\* The new camera is opened before the old one is closed, or cannot be opened.
LEMMA ReopenCameraPreserves == ASSUME IInv, NEW r \in Callers, ReopenCamera(r) PROVE IInv'
<1> DEFINE sel == handler[r].target
<1> USE DEF roomVars
<1>1. /\ TypeOK /\ LockDiscipline /\ Owned /\ FrameFromOpenCamera /\ InEffect
      /\ OneRequest /\ Shown /\ BusyCameraKept
  BY DEF IInv
<1>2. /\ handler[r].step = "camera" /\ UNCHANGED <<roomIds, roomLabels>>
      /\ UNCHANGED <<phase, selection, native, camera, natives, cameras, micReader, camReader>>
  BY DEF ReopenCamera, ReopenLosesCamera, ReopenHasCamera, bundleVars
<1>3. lock = r /\ Free \notin Callers /\ Idle.step = "idle"
  BY <1>1, <1>2, CaptureAssumption DEF LockDiscipline, Idle
<1> HIDE DEF sel
<1>4. Owned' /\ FrameFromOpenCamera'
  BY <1>1, <1>2 DEF Owned, OneNative, OneCamera, FrameFromOpenCamera
<1>5. CASE ReopenLosesCamera(r, sel) /\ Answer(r) /\ serial' = FALSE
  <2>1. /\ handler' \in [Callers -> Handlers] /\ handler'[r] = Idle
        /\ \A s \in Callers : s # r => handler'[s] = handler[s]
        /\ OneRequest' /\ Shown' /\ BusyCameraKept'
    BY <1>1, <1>2, <1>3, <1>5, ServedInReopen DEF Answer, TypeOK
  <2>2. lock' = Free
    BY <1>5 DEF ReopenLosesCamera
  <2>3. torn' \in BOOLEAN /\ (torn' <=> torn \/ Source(sel) # Source(selection))
    BY <1>1, <1>5, Zenon DEF ReopenLosesCamera, TypeOK
  <2>4. TypeOK'
    BY <1>1, <1>2, <1>5, <2>1, <2>2, <2>3 DEF TypeOK
  <2>5. LockDiscipline'
    BY <1>1, <1>2, <1>3, <2>1, <2>2 DEF LockDiscipline
  <2>6. InEffect'
    BY <1>1, <1>2, <1>3, <2>2, <2>3 DEF InEffect, sel
  <2>7. QED
    BY <1>4, <2>1, <2>4, <2>5, <2>6 DEF IInv
<1>6. CASE ReopenHasCamera(r) /\ Step(r, "install") /\ UNCHANGED serial
  <2>1. /\ handler' \in [Callers -> Handlers]
        /\ handler' = [handler EXCEPT ![r].step = "install"]
        /\ \A s \in Callers : s # r => handler'[s] = handler[s]
        /\ OneRequest' /\ Shown' /\ BusyCameraKept'
    BY <1>1, <1>2, <1>6, ServedInReopen DEF Step, TypeOK
  <2>2. handler'[r].step = "install" /\ handler'[r].target = handler[r].target
    BY <1>1, <2>1 DEF TypeOK, Handlers
  <2>3. UNCHANGED <<lock, torn>>
    BY <1>6 DEF ReopenHasCamera, bundleVars
  <2>4. TypeOK'
    BY <1>1, <1>2, <1>6, <2>1, <2>3 DEF TypeOK
  <2>5. LockDiscipline'
    BY <1>1, <1>2, <2>1, <2>2, <2>3 DEF LockDiscipline
  <2>6. InEffect'
    BY <1>1, <1>2, <1>3, <2>2, <2>3 DEF InEffect
  <2>7. QED
    BY <1>4, <2>1, <2>4, <2>5, <2>6 DEF IInv
<1>7. QED
  BY <1>5, <1>6, Zenon DEF ReopenCamera, sel

\* The switch is complete.
LEMMA ReopenFinishPreserves == ASSUME IInv, NEW r \in Callers, ReopenFinish(r) PROVE IInv'
<1> DEFINE sel == handler[r].target
<1> USE DEF roomVars
<1>1. /\ TypeOK /\ LockDiscipline /\ Owned /\ FrameFromOpenCamera /\ InEffect
      /\ OneRequest /\ Shown /\ BusyCameraKept
  BY DEF IInv
<1>2. /\ handler[r].step = "install" /\ ReopenDone(r, sel) /\ Answer(r)
      /\ UNCHANGED <<roomIds, roomLabels, serial>>
  BY DEF ReopenFinish
<1>3. sel \in Selections /\ sel.camera \in CameraIds \cup {NoId}
  BY <1>1 DEF TypeOK, Handlers, Selections
<1>4. /\ lock = r /\ Free \notin Callers /\ NoHandle \notin CameraObjects /\ phase = "open"
      /\ Idle.step = "idle"
  BY <1>1, <1>2, CaptureAssumption DEF LockDiscipline, Idle
<1> HIDE DEF sel
<1>5. /\ selection' = sel /\ lock' = Free
      /\ UNCHANGED <<phase, native, natives, micReader, camReader, torn>>
  BY <1>2 DEF ReopenDone
<1>6. /\ handler' \in [Callers -> Handlers] /\ handler'[r] = Idle
      /\ \A s \in Callers : s # r => handler'[s] = handler[s]
      /\ OneRequest' /\ Shown' /\ BusyCameraKept'
  BY <1>1, <1>2, <1>4, <1>5, ServedInReopen DEF Answer, TypeOK, sel
<1>7. NewCamera \in CameraObjects /\ NewCamera \notin {camera, camReader.cam}
  BY <1>1, NewCameraIsNew DEF TypeOK
<1>8. /\ camera' \in CameraObjects \cup {NoHandle}
      /\ cameras' \in [CameraObjects -> CameraIds \cup {ClosedCamera}]
      /\ OneCamera' /\ FrameFromOpenCamera'
      /\ ~torn /\ sel.camera # NoId => camera' # NoHandle /\ cameras'[camera'] = sel.camera
  <2>1. CASE sel.camera = selection.camera /\ UNCHANGED <<camera, cameras>>
    BY <1>1, <1>4, <1>5, <2>1 DEF TypeOK, Owned, OneCamera, FrameFromOpenCamera, InEffect
  <2>2. CASE ~ReadingFrame(camera) /\ sel.camera = NoId /\ camera' = NoHandle
             /\ cameras' = CloseCamera(camera, cameras)
    <3>1. /\ cameras' \in [CameraObjects -> CameraIds \cup {ClosedCamera}]
          /\ \A c \in CameraObjects : cameras'[c] = IF c = camera THEN ClosedCamera ELSE cameras[c]
      BY <1>1, <2>2, CameraClosed DEF TypeOK
    <3>2. OneCamera'
      BY <1>1, <1>4, <2>2, <3>1 DEF Owned, OneCamera
    <3>3. FrameFromOpenCamera'
      BY <1>1, <1>5, <2>2, <3>1 DEF FrameFromOpenCamera, ReadingFrame, LockDiscipline
    <3>4. QED
      BY <2>2, <3>1, <3>2, <3>3
  <2>3. CASE ~ReadingFrame(camera) /\ sel.camera # NoId /\ camera' = NewCamera
             /\ cameras' = CloseCamera(camera, [cameras EXCEPT ![NewCamera] = sel.camera])
    <3> DEFINE cs == [cameras EXCEPT ![NewCamera] = sel.camera]
    <3>1. /\ cs \in [CameraObjects -> CameraIds \cup {ClosedCamera}] /\ cs[NewCamera] = sel.camera
          /\ \A c \in CameraObjects : c # NewCamera => cs[c] = cameras[c]
      BY <1>1, <1>3, <1>7, <2>3 DEF TypeOK
    <3>2. cameras' = CloseCamera(camera, cs)
      BY <2>3
    <3> HIDE DEF cs
    <3>3. /\ cameras' \in [CameraObjects -> CameraIds \cup {ClosedCamera}]
          /\ \A c \in CameraObjects : cameras'[c] = IF c = camera THEN ClosedCamera ELSE cs[c]
      BY <1>1, <3>1, <3>2, CameraClosed
    <3>4. sel.camera # ClosedCamera
      BY <1>3, <2>3, CameraIdOpen
    <3>5. cameras'[NewCamera] = sel.camera
      BY <1>7, <3>1, <3>3
    <3>6. OneCamera'
      BY <1>1, <1>7, <2>3, <3>1, <3>3, <3>4, <3>5 DEF Owned, OneCamera
    <3>7. FrameFromOpenCamera'
      BY <1>1, <1>5, <1>7, <2>3, <3>1, <3>3 DEF FrameFromOpenCamera, ReadingFrame, LockDiscipline
    <3>8. QED
      BY <1>4, <1>7, <2>3, <3>3, <3>5, <3>6, <3>7
  <2>4. QED
    BY <1>2, <2>1, <2>2, <2>3 DEF ReopenDone
<1>9. TypeOK'
  BY <1>1, <1>2, <1>3, <1>5, <1>6, <1>8 DEF TypeOK
<1>10. LockDiscipline'
  BY <1>1, <1>4, <1>5, <1>6 DEF LockDiscipline
<1>11. Owned'
  BY <1>1, <1>4, <1>5, <1>8 DEF Owned, OneNative
<1>12. InEffect'
  BY <1>1, <1>4, <1>5, <1>8 DEF InEffect, sel
<1>13. QED
  BY <1>6, <1>8, <1>9, <1>10, <1>11, <1>12 DEF IInv

-----------------------------------------------------------------------------
(* Close and the readers.                                                   *)

\* Steps of the bundle alone leave the requests alone.
LEMMA BundleStepPreserves ==
  ASSUME IInv, BundleStep, UNCHANGED <<roomVars, handler, serial>> PROVE IInv'
<1> USE DEF roomVars
<1>1. /\ TypeOK /\ LockDiscipline /\ Owned /\ FrameFromOpenCamera /\ InEffect
      /\ OneRequest /\ Shown /\ BusyCameraKept
  BY DEF IInv
<1>2. UNCHANGED <<lock, selection, torn>>
  BY DEF BundleStep, Close, Close_Unlocked, ReadNativeBegin, ReadNativeEnd,
     ReadCameraBegin, ReadFrameBegin, ReadFrameEnd
<1>3. UNCHANGED Busy
  BY DEF Busy
<1>4. OneRequest' /\ BusyCameraKept'
  BY <1>1, <1>3 DEF OneRequest, BusyCameraKept
<1>5. CASE Close
  <2>1. /\ phase = "open" /\ phase' = "closed" /\ lock = Free /\ ~ReadingFrame(camera)
        /\ native' = NoHandle /\ natives' = ClosedNatives
        /\ camera' = NoHandle /\ cameras' = CloseCamera(camera, cameras)
        /\ UNCHANGED <<micReader, camReader>>
    BY <1>5 DEF Close, Close_Unlocked
  <2>2. /\ natives' \in [NativeHandles -> Sources \cup {Closed}]
        /\ \A h \in NativeHandles : natives'[h] = Closed
    BY <1>1, <2>1, NativesClosed
  <2>3. /\ cameras' \in [CameraObjects -> CameraIds \cup {ClosedCamera}]
        /\ \A c \in CameraObjects : cameras'[c] = IF c = camera THEN ClosedCamera ELSE cameras[c]
    BY <1>1, <2>1, CameraClosed DEF TypeOK
  <2>4. TypeOK'
    BY <1>1, <1>2, <2>1, <2>2, <2>3 DEF TypeOK
  <2>5. LockDiscipline' /\ InEffect' /\ Shown'
    BY <1>1, <1>2, <2>1 DEF LockDiscipline, InEffect, Shown
  <2>6. Owned'
    BY <1>1, <2>1, <2>2, <2>3, CaptureAssumption DEF Owned, OneNative, OneCamera
  <2>7. FrameFromOpenCamera'
    BY <1>1, <2>1, <2>3 DEF FrameFromOpenCamera, ReadingFrame, LockDiscipline
  <2>8. QED
    BY <1>4, <2>4, <2>5, <2>6, <2>7 DEF IInv
<1>6. CASE UNCHANGED <<phase, native, camera, natives, cameras>>
           /\ micReader' \in NativeHandles \cup {NoHandle}
           /\ camReader' \in [step : {"idle", "copied", "frame"}, cam : CameraObjects \cup {NoHandle}]
           /\ (camReader'.step # "idle" => camReader'.cam \in CameraObjects)
           /\ (camReader'.step = "frame" => cameras[camReader'.cam] # ClosedCamera)
  <2>1. TypeOK'
    BY <1>1, <1>2, <1>6 DEF TypeOK
  <2>2. LockDiscipline' /\ FrameFromOpenCamera'
    BY <1>1, <1>2, <1>6 DEF LockDiscipline, FrameFromOpenCamera
  <2>3. Owned' /\ InEffect'
    BY <1>1, <1>2, <1>6 DEF Owned, OneNative, OneCamera, InEffect
  <2>4. Shown'
    BY <1>1, <1>2, <1>3, <1>6 DEF Shown, StepShown
  <2>5. QED
    BY <1>4, <2>1, <2>2, <2>3, <2>4 DEF IInv
<1>7. CASE ReadNativeBegin \/ ReadNativeEnd
  BY <1>1, <1>6, <1>7 DEF ReadNativeBegin, ReadNativeEnd, TypeOK, LockDiscipline, FrameFromOpenCamera
<1>8. CASE ReadCameraBegin
  BY <1>1, <1>6, <1>8 DEF ReadCameraBegin, TypeOK
<1>9. CASE ReadFrameBegin \/ ReadFrameEnd
  BY <1>1, <1>6, <1>9 DEF ReadFrameBegin, ReadFrameEnd, LockedFrame, NoFrame, TypeOK, LockDiscipline
<1>10. QED
  BY <1>5, <1>7, <1>8, <1>9 DEF BundleStep

-----------------------------------------------------------------------------
(* The theorems.                                                            *)

\* Every step of the specification preserves the invariant.
LEMMA StepInv == ASSUME IInv, [Next]_vars PROVE IInv'
<1>1. CASE Startup
  BY <1>1, StartupPreserves
<1>2. ASSUME NEW r \in Callers, SetDevices(r) \/ ListDevices(r) PROVE IInv'
  BY <1>2, BeginPreserves, ControlAssumption DEF SetDevices, ListDevices, NoPatch, Selections
<1>3. ASSUME NEW r \in Callers, Serve(r) PROVE IInv'
  BY <1>3, RoomStepPreserves, ReopenPreserves, ReopenCameraPreserves, ReopenFinishPreserves DEF Serve
<1>4. CASE BundleStep /\ UNCHANGED <<roomVars, handler, serial>>
  BY <1>4, BundleStepPreserves
<1>5. CASE UNCHANGED vars
  <2>1. UNCHANGED Busy
    BY <1>5 DEF vars, Busy
  <2>2. QED
    BY <1>5, <2>1 DEF vars, bundleVars, roomVars, IInv, TypeOK, LockDiscipline, Owned, OneNative, OneCamera,
       FrameFromOpenCamera, InEffect, OneRequest, Shown, StepShown, BusyCameraKept
<1>6. QED
  BY <1>1, <1>2, <1>3, <1>4, <1>5 DEF Next

LEMMA Invariance == Spec => []IInv
<1>1. QED
  BY InitInv, StepInv, PTL DEF Spec

\* Bundle, room and handlers keep their types (bundle.go, room.go, capture_selection.go).
THEOREM CaptureTypeCorrect == Spec => []TypeOK
<1>1. IInv => TypeOK
  BY DEF IInv
<1>2. QED
  BY <1>1, Invariance, PTL

\* No device is leaked, whatever fails (bundle.go:98-170).
THEOREM DevicesOwned == Spec => []HandlesOwned
<1>1. IInv => HandlesOwned
  BY OwnedHandles DEF IInv
<1>2. QED
  BY <1>1, Invariance, PTL

\* No camera is closed while a frame is read from it (v4l2_camera.go:82-122).
THEOREM FramesFromOpenCameras == Spec => []FrameFromOpenCamera
<1>1. IInv => FrameFromOpenCamera
  BY DEF IInv
<1>2. QED
  BY <1>1, Invariance, PTL

\* What is selected is captured, unless a switch failed halfway (bundle.go:109-154).
THEOREM SelectionTakesEffect == Spec => []SelectionInEffect
<1>1. IInv => SelectionInEffect
  BY EffectiveSelection DEF IInv
<1>2. QED
  BY <1>1, Invariance, PTL

\* What the room shows is selected, as long as requests do not overlap and are not
\* refused (capture_selection.go:28-30, capture_reopen.go:25-34).
THEOREM RoomAgrees == Spec => []RoomShowsSelection
<1>1. IInv => RoomShowsSelection
  BY ShownSelection DEF IInv
<1>2. QED
  BY <1>1, Invariance, PTL

\* A camera in use is not replaced unless a request names another one
\* (capture_selection.go:39-75).
THEOREM CameraInUseKept == Spec => []BusyCameraKept
<1>1. IInv => BusyCameraKept
  BY DEF IInv
<1>2. QED
  BY <1>1, Invariance, PTL

-----------------------------------------------------------------------------
(* A field that a patch omits.                                              *)

\* A request that has looked at the room alone wants what the room has of a field that
\* its patch omits, if that device is always listed.
OmittedResolved ==
  serial =>
    \A r \in Callers, f \in Fields :
      handler[r].step = "ids" /\ handler[r].patch[f] = NoId /\ roomIds[f] # NoId
      /\ (\A l \in Listings : roomIds[f] \in l[f])
        => handler[r].target[f] = roomIds[f]

\* Steps that bring no request to where it writes ids, and leave the room's, keep it.
LEMMA OmittedStays ==
  ASSUME OmittedResolved, serial' => serial, UNCHANGED roomIds,
         \A r \in Callers : handler'[r].step # "ids" \/ handler'[r] = handler[r]
  PROVE  OmittedResolved'
BY DEF OmittedResolved

\* Requests that come one at a time keep it: no other request has changed the room since.
LEMMA OmittedStep == ASSUME IInv, OmittedResolved, [Next]_vars PROVE OmittedResolved'
<1>1. TypeOK /\ OneRequest
  BY DEF IInv
<1>2. ASSUME NEW r \in Callers, NEW step, step # "ids",
             handler' = [handler EXCEPT ![r].step = step] \/ Answer(r),
             serial' => serial, UNCHANGED roomIds
      PROVE  OmittedResolved'
  <2>1. \A s \in Callers : s # r => handler'[s] = handler[s]
    BY <1>1, <1>2 DEF Answer, TypeOK
  <2>2. handler'[r].step # "ids"
    BY <1>1, <1>2 DEF Answer, Idle, TypeOK, Handlers
  <2>3. QED
    BY <1>2, <2>1, <2>2, OmittedStays
<1>3. ASSUME NEW r \in Callers, NEW l \in Listings, Resolve(r, l) PROVE OmittedResolved'
  <2>1. UNCHANGED roomIds
    BY <1>3 DEF Resolve, roomVars
  <2>2. CASE Answer(r) /\ serial' = FALSE
    BY <2>2 DEF OmittedResolved
  <2>3. CASE handler' = [handler EXCEPT ![r].step = "ids", ![r].target = Merged(l, handler[r].patch)]
             /\ UNCHANGED serial
    <3>1. /\ \A s \in Callers : s # r => handler'[s] = handler[s]
          /\ handler'[r].patch = handler[r].patch
          /\ handler'[r].target = Merged(l, handler[r].patch)
      BY <1>1, <2>3 DEF TypeOK, Handlers
    <3>2. ASSUME NEW f \in Fields, handler[r].patch[f] = NoId, roomIds[f] \in l[f]
          PROVE  Merged(l, handler[r].patch)[f] = roomIds[f]
      BY <3>2 DEF Fields, Merged, Resolved, CurrentOrFirst
    <3>3. ASSUME serial, NEW s \in Callers, NEW f \in Fields,
                 handler'[s].step = "ids", handler'[s].patch[f] = NoId, roomIds[f] # NoId,
                 \A k \in Listings : roomIds[f] \in k[f]
          PROVE  handler'[s].target[f] = roomIds[f]
      <4>1. CASE s = r
        BY <1>3, <3>1, <3>2, <3>3, <4>1
      <4>2. CASE s # r
        BY <3>1, <3>3, <4>2 DEF OmittedResolved
      <4>3. QED
        BY <4>1, <4>2
    <3>4. QED
      BY <2>1, <2>3, <3>3 DEF OmittedResolved
  <2>4. QED
    BY <1>3, <2>2, <2>3 DEF Resolve
<1>4. ASSUME NEW r \in Callers, SetIds(r) PROVE OmittedResolved'
  <2>1. /\ handler[r].step = "ids" /\ UNCHANGED serial
        /\ handler'[r].step = "labels" /\ \A s \in Callers : s # r => handler'[s] = handler[s]
    BY <1>1, <1>4 DEF SetIds, TypeOK, Handlers
  <2>2. ASSUME serial, NEW s \in Callers, handler'[s].step = "ids" PROVE FALSE
    <3>1. s # r /\ handler[s].step = "ids"
      BY <2>1, <2>2
    <3>2. r \in Busy /\ s \in Busy
      BY <2>1, <3>1 DEF Busy, Idle
    <3>3. QED
      BY <1>1, <2>2, <3>1, <3>2 DEF OneRequest
  <2>3. QED
    BY <2>1, <2>2 DEF OmittedResolved
<1>5. ASSUME NEW r \in Callers, NEW patch, Begin(r, patch) PROVE OmittedResolved'
  <2>1. /\ \A s \in Callers : s # r => handler'[s] = handler[s]
        /\ handler'[r].step = "resolve"
    BY <1>1, <1>5 DEF Begin, TypeOK, Idle
  <2>2. UNCHANGED roomIds /\ (serial' => serial)
    BY <1>5 DEF Begin, roomVars
  <2>3. QED
    BY <2>1, <2>2, OmittedStays
<1>6. ASSUME NEW r \in Callers, Serve(r) PROVE OmittedResolved'
  <2>1. CASE SetLabels(r)
    <3>1. handler' = [handler EXCEPT ![r].step = "reread", ![r].target = NoPatch]
      BY <2>1 DEF SetLabels
    <3>2. /\ \A s \in Callers : s # r => handler'[s] = handler[s]
          /\ handler'[r].step = "reread"
      BY <1>1, <3>1 DEF TypeOK, Handlers
    <3>3. QED
      BY <2>1, <3>2, OmittedStays DEF SetLabels
  <2>2. CASE Reread(r)
    <3>1. handler' = [handler EXCEPT ![r].step = "reopen", ![r].target = roomIds]
      BY <2>2 DEF Reread
    <3>2. /\ \A s \in Callers : s # r => handler'[s] = handler[s]
          /\ handler'[r].step = "reopen"
      BY <1>1, <3>1 DEF TypeOK, Handlers
    <3>3. QED
      BY <2>2, <3>2, OmittedStays DEF Reread, roomVars
  <2>3. CASE Reopen(r)
    <3>1. Answer(r) \/ handler' = [handler EXCEPT ![r].step = "camera"]
      BY <2>3 DEF Reopen, Step
    <3>2. (serial' => serial) /\ UNCHANGED roomIds
      BY <2>3 DEF Reopen, roomVars
    <3>3. QED
      BY <1>2, <3>1, <3>2
  <2>4. CASE ReopenCamera(r)
    <3>1. Answer(r) \/ handler' = [handler EXCEPT ![r].step = "install"]
      BY <2>4 DEF ReopenCamera, Step
    <3>2. (serial' => serial) /\ UNCHANGED roomIds
      BY <2>4 DEF ReopenCamera, roomVars
    <3>3. QED
      BY <1>2, <3>1, <3>2
  <2>5. CASE ReopenFinish(r)
    <3>1. Answer(r) /\ UNCHANGED <<serial, roomIds>>
      BY <2>5 DEF ReopenFinish, roomVars
    <3>2. QED
      BY <1>2, <3>1
  <2>6. QED
    BY <1>3, <1>4, <1>6, <2>1, <2>2, <2>3, <2>4, <2>5 DEF Serve
<1>7. CASE UNCHANGED <<roomIds, handler, serial>>
  BY <1>7 DEF OmittedResolved
<1>8. QED
  BY <1>5, <1>6, <1>7 DEF Next, SetDevices, ListDevices, Startup, roomVars, vars

\* What the documentation says of a field that a patch omits (docs/API.md:74) is so as
\* long as requests come one at a time: two that read the room before either writes it
\* are the only way to lose a choice.
THEOREM LoneRequestsKeepOmitted ==
  Spec => [][ serial' => \A r \in Callers, f \in {"mic", "camera"} :
                handler[r].step = "ids" /\ handler'[r].step = "labels"
                /\ handler[r].patch[f] = NoId /\ roomIds[f] # NoId
                /\ (\A l \in Listings : roomIds[f] \in l[f])
                  => roomIds'[f] = roomIds[f] ]_vars
<1> DEFINE Kept == serial' => \A r \in Callers, f \in {"mic", "camera"} :
                     handler[r].step = "ids" /\ handler'[r].step = "labels"
                     /\ handler[r].patch[f] = NoId /\ roomIds[f] # NoId
                     /\ (\A l \in Listings : roomIds[f] \in l[f])
                       => roomIds'[f] = roomIds[f]
<1>1. Init => OmittedResolved
  BY DEF Init, OmittedResolved, Idle
<1>2. ASSUME IInv, OmittedResolved, [Next]_vars PROVE [Kept]_vars
  <2>1. TypeOK
    BY <1>2 DEF IInv
  <2> SUFFICES ASSUME serial', Next,
                      NEW r \in Callers, NEW f \in {"mic", "camera"},
                      handler[r].step = "ids", handler'[r].step = "labels", handler[r].patch[f] = NoId,
                      roomIds[f] # NoId, \A l \in Listings : roomIds[f] \in l[f]
               PROVE  roomIds'[f] = roomIds[f]
    BY <1>2
  <2>2. CASE UNCHANGED roomIds
    BY <2>2
  <2>3. ASSUME NEW s \in Callers, SetIds(s) PROVE roomIds'[f] = roomIds[f]
    <3>1. s = r /\ serial
      BY <2>1, <2>3 DEF SetIds, TypeOK
    <3>2. handler[r].target[f] = roomIds[f]
      BY <1>2, <3>1 DEF OmittedResolved, Fields
    <3>3. QED
      BY <2>3, <3>1, <3>2 DEF SetIds
  <2>4. ASSUME NEW s \in Callers, Serve(s) PROVE UNCHANGED roomIds \/ SetIds(s)
    BY <2>4 DEF Serve, Resolve, SetLabels, Reread, Reopen, ReopenCamera, ReopenFinish, roomVars
  <2>5. QED
    BY <2>2, <2>3, <2>4 DEF Next, SetDevices, ListDevices, Begin, Startup, roomVars
<1>3. QED
  BY <1>1, <1>2, InitInv, StepInv, OmittedStep, PTL DEF Spec
=============================================================================
