---------------------------- MODULE CaptureBundle ----------------------------
(***************************************************************************)
(* The capture bundle of the daemon (internal/capture/bundle.go): the      *)
(* PipeWire capture of one microphone and one sink monitor, and the V4L2   *)
(* camera, behind one mutex.  Open builds it at startup, Reopen switches   *)
(* devices while it runs, Close ends it.  Two goroutines read from it at   *)
(* the same time: the audio engine (ReadMic, ReadMonitor) and the preview  *)
(* compositor (ReadCamera).  They copy the handle under the mutex and read *)
(* after they released it.                                                 *)
(*                                                                         *)
(* Device ids are numbers, 0 is the empty id.  Whether a device can be     *)
(* opened is up to the environment, so every open may fail.                *)
(***************************************************************************)
EXTENDS Integers, FiniteSets

CONSTANTS
  MicIds, CameraIds, SinkIds, \* ids of the devices there may be, all positive
  NativeHandles,              \* addresses sp_capture_open may return
  CameraObjects,              \* v4l2Camera values
  Callers                     \* goroutines that may call Reopen

NoId == 0
NoHandle == 0
Free == 0
Closed == [mic |-> -1, sink |-> -1]
ClosedCamera == -1

ASSUME CaptureAssumption ==
  /\ MicIds \cup CameraIds \cup SinkIds \subseteq Nat \ {NoId}
  /\ NativeHandles \subseteq Nat \ {NoHandle}
  /\ CameraObjects \subseteq Nat \ {NoHandle}
  /\ Callers \subseteq Nat \ {Free}
  \* a new camera object is none of those in use
  /\ \A c, d \in CameraObjects \cup {NoHandle} : CameraObjects \ {c, d} # {}

Selections == [mic : MicIds \cup {NoId}, camera : CameraIds \cup {NoId},
               sink : SinkIds \cup {NoId}]
Sources == [mic : MicIds \cup {NoId}, sink : SinkIds \cup {NoId}]

VARIABLES
  phase,      \* "starting" before Open, "open", "absent" if Open failed, "closed"
  lock,       \* holder of Bundle.mu between two steps of Reopen, or Free
  selection,  \* Bundle.selection
  native,     \* Bundle.native: a handle, or NoHandle
  camera,     \* Bundle.camera: a camera object, or NoHandle for nil
  natives,    \* per handle the source its PipeWire streams capture, or Closed
  cameras,    \* per camera object the device it streams, or ClosedCamera
  micReader,  \* the handle the audio goroutine is reading from, or NoHandle
  camReader,  \* [step, cam]: the ReadCamera call of the compositor
  torn        \* history: a Reopen failed after it began to switch devices

bundleVars == <<phase, lock, selection, native, camera, natives, cameras,
                micReader, camReader, torn>>

Source(sel) == [mic |-> sel.mic, sink |-> sel.sink]

BundleInit ==
  /\ phase = "starting"
  /\ lock = Free
  /\ selection = [mic |-> NoId, camera |-> NoId, sink |-> NoId]
  /\ native = NoHandle
  /\ camera = NoHandle
  /\ natives = [h \in NativeHandles |-> Closed]
  /\ cameras = [c \in CameraObjects |-> ClosedCamera]
  /\ micReader = NoHandle
  /\ camReader = [step |-> "idle", cam |-> NoHandle]
  /\ torn = FALSE

OpenNatives == { h \in NativeHandles : natives[h] # Closed }
OpenCameras == { c \in CameraObjects : cameras[c] # ClosedCamera }

\* A freed address may be handed out again; a camera object is not collected
\* while the compositor refers to it.
UnusedHandles(held) == NativeHandles \ (OpenNatives \ {held})
NewCamera == CHOOSE c \in CameraObjects : c \notin {camera, camReader.cam}

Openable_NoDefault(id) == {id}

\* openCamera: the device asked for, the first one there is for the empty id.
Openable(id) == IF id = NoId THEN CameraIds ELSE {id}

-----------------------------------------------------------------------------
(* Open, at startup.  A camera that cannot be opened is fatal only if an id *)
(* was given; the native capture is closed again then.                      *)

OpenFailed_Leaks ==
  /\ phase' = "absent"
  /\ \E h \in NativeHandles :
       natives' = [natives EXCEPT ![h] = [mic |-> NoId, sink |-> NoId]]
  /\ UNCHANGED <<lock, selection, native, camera, cameras,
                 micReader, camReader, torn>>

OpenFailed ==
  /\ phase' = "absent"
  /\ UNCHANGED <<lock, selection, native, camera, natives, cameras,
                 micReader, camReader, torn>>

Open(sel) ==
  /\ phase = "starting"
  /\ \/ OpenFailed
     \/ /\ phase' = "open"
        /\ selection' = sel
        /\ \E h \in NativeHandles :
             /\ native' = h
             /\ natives' = [natives EXCEPT ![h] = Source(sel)]
        /\ \/ /\ sel.camera = NoId
              /\ UNCHANGED <<camera, cameras>>
           \/ \E id \in Openable(sel.camera) :
                /\ camera' = NewCamera
                /\ cameras' = [cameras EXCEPT ![NewCamera] = id]
        /\ UNCHANGED <<lock, micReader, camReader, torn>>

-----------------------------------------------------------------------------
(* Reopen(sel), called by r.  The mutex is held from the first step to the  *)
(* last; what the steps are cut at is where a reader can still interfere.   *)

\* No bundle (nothing to do), a closed one, or devices that cannot be listed.
ReopenIgnored == phase = "absent" /\ UNCHANGED bundleVars
ReopenRefused == phase \in {"open", "closed"} /\ lock = Free /\ UNCHANGED bundleVars

\* The lock is taken; the native capture needs no switch.
ReopenKeepsNative(r, sel) ==
  /\ phase = "open" /\ lock = Free
  /\ Source(sel) = Source(selection)
  /\ lock' = r
  /\ UNCHANGED <<phase, selection, native, camera, natives, cameras,
                 micReader, camReader, torn>>

\* The old native capture is closed before the new one is opened.
ClosedNatives ==
  IF native = NoHandle THEN natives ELSE [natives EXCEPT ![native] = Closed]

ReopenSwitchesNative(r, sel) ==
  /\ phase = "open" /\ lock = Free
  /\ Source(sel) # Source(selection)
  /\ \E h \in UnusedHandles(native) :
       /\ native' = h
       /\ natives' = [ClosedNatives EXCEPT ![h] = Source(sel)]
  /\ lock' = r
  /\ UNCHANGED <<phase, selection, camera, cameras, micReader, camReader, torn>>

\* PipeWire refuses the new source: the bundle is left without native capture,
\* with the selection it had.
ReopenLosesNative(sel) ==
  /\ phase = "open" /\ lock = Free
  /\ Source(sel) # Source(selection)
  /\ native' = NoHandle
  /\ natives' = ClosedNatives
  /\ torn' = TRUE
  /\ UNCHANGED <<phase, lock, selection, camera, cameras, micReader, camReader>>

ReopenLosesCamera_Records(r, sel) ==
  /\ lock = r
  /\ sel.camera \notin {selection.camera, NoId}
  /\ lock' = Free
  /\ selection' = sel
  /\ UNCHANGED <<phase, native, camera, natives, cameras, micReader,
                 camReader, torn>>

\* The camera cannot be opened: the old one stays, and so does the selection.
ReopenLosesCamera(r, sel) ==
  /\ lock = r
  /\ sel.camera \notin {selection.camera, NoId}
  /\ lock' = Free
  /\ torn' = (torn \/ Source(sel) # Source(selection))
  /\ UNCHANGED <<phase, selection, native, camera, natives, cameras,
                 micReader, camReader>>

\* There is a camera to switch to, or none to switch.
ReopenHasCamera(r) == lock = r /\ UNCHANGED bundleVars

ReadingFrame(c) == camReader.step = "frame" /\ camReader.cam = c

\* camera.close waits for the frame that is being read from the camera.
CloseCamera(c, cs) == IF c = NoHandle THEN cs ELSE [cs EXCEPT ![c] = ClosedCamera]

\* The new camera takes the old one's place.
ReopenDone(r, sel) ==
  /\ lock = r
  /\ \/ /\ sel.camera = selection.camera
        /\ UNCHANGED <<camera, cameras>>
     \/ /\ sel.camera # selection.camera
        /\ ~ReadingFrame(camera)
        /\ IF sel.camera = NoId
           THEN /\ camera' = NoHandle
                /\ cameras' = CloseCamera(camera, cameras)
           ELSE /\ camera' = NewCamera
                /\ cameras' = CloseCamera(camera,
                                [cameras EXCEPT ![NewCamera] = sel.camera])
  /\ selection' = sel
  /\ lock' = Free
  /\ UNCHANGED <<phase, native, natives, micReader, camReader, torn>>

-----------------------------------------------------------------------------
(* Close, when the daemon ends.                                             *)

Close_Unlocked ==
  /\ phase = "open"
  /\ ~ReadingFrame(camera)
  /\ phase' = "closed"
  /\ natives' = ClosedNatives
  /\ native' = NoHandle
  /\ cameras' = CloseCamera(camera, cameras)
  /\ camera' = NoHandle
  /\ UNCHANGED <<lock, selection, micReader, camReader, torn>>
Close == lock = Free /\ Close_Unlocked

-----------------------------------------------------------------------------
(* The readers.                                                             *)

\* ReadMic and ReadMonitor: the handle is copied under the mutex ...
ReadNativeBegin ==
  /\ phase = "open" /\ lock = Free
  /\ micReader = NoHandle
  /\ native # NoHandle
  /\ micReader' = native
  /\ UNCHANGED <<phase, lock, selection, native, camera, natives, cameras,
                 camReader, torn>>

\* ... and the ring is read without it.
ReadNativeEnd ==
  /\ micReader # NoHandle
  /\ micReader' = NoHandle
  /\ UNCHANGED <<phase, lock, selection, native, camera, natives, cameras,
                 camReader, torn>>

\* ReadCamera: the camera is copied under the mutex ...
ReadCameraBegin ==
  /\ phase = "open" /\ lock = Free
  /\ camReader.step = "idle"
  /\ camera # NoHandle
  /\ camReader' = [step |-> "copied", cam |-> camera]
  /\ UNCHANGED <<phase, lock, selection, native, camera, natives, cameras,
                 micReader, torn>>

\* ... readFrame takes the camera's own mutex, sees whether it was closed ...
NoFrame == [step |-> "idle", cam |-> NoHandle]

LockedFrame_Unchecked == [camReader EXCEPT !.step = "frame"]
LockedFrame ==
  IF cameras[camReader.cam] = ClosedCamera THEN NoFrame
  ELSE [camReader EXCEPT !.step = "frame"]

ReadFrameBegin ==
  /\ camReader.step = "copied"
  /\ camReader' = LockedFrame
  /\ UNCHANGED <<phase, lock, selection, native, camera, natives, cameras,
                 micReader, torn>>

\* ... and keeps it until a frame came or the wait of a second is over.
ReadFrameEnd_KeepsLock ==
  /\ camReader.step = "frame"
  /\ FALSE
  /\ UNCHANGED bundleVars
ReadFrameEnd ==
  /\ camReader.step = "frame"
  /\ camReader' = NoFrame
  /\ UNCHANGED <<phase, lock, selection, native, camera, natives, cameras,
                 micReader, torn>>

BundleStep ==
  \/ Close
  \/ ReadNativeBegin \/ ReadNativeEnd
  \/ ReadCameraBegin \/ ReadFrameBegin \/ ReadFrameEnd
=============================================================================
