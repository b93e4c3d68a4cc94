---------------------------- MODULE VirtualOutput ----------------------------
(***************************************************************************)
(* The virtual camera and microphone (internal/output): opening the        *)
(* v4l2loopback device and the PulseAudio sink, which daemon/run.go gives  *)
(* up waiting for after three seconds, writing to both, and closing them.  *)
(* The opener, the compositor, the audio goroutine, the PulseAudio client  *)
(* and the daemon's own goroutine interleave.                              *)
(*                                                                         *)
(* What the opening acquires is a set of resources: the device's file, the *)
(* client's connection and the null sink's module.  Samples are numbered;  *)
(* of a video frame the model keeps its size.                              *)
(***************************************************************************)
EXTENDS Frames, Sequences

CONSTANTS
  Composite,   \* the compositor's picture: [width, height]
  PixFormats,  \* what VIDIOC_S_FMT may answer: [format, width, height, sizeimage]
  FrameSize,   \* samples of a WritePCM
  MaxRead,     \* samples the PulseAudio client asks for, at most
  MaxQueued    \* bound: samples pushed in a behaviour

ASSUME OutputAssumption ==
  /\ Composite \in [width : Nat \ {0}, height : Nat \ {0}]
  /\ PixFormats \subseteq [format : PixelFormats, width : Nat, height : Nat, sizeimage : Nat]
  /\ FrameSize \in Nat \ {0} /\ MaxRead \in Nat \ {0} /\ MaxQueued \in Nat

NoPix == [format |-> "other", width |-> 0, height |-> 0, sizeimage |-> 0]
UsablePix(p) == p.width > 0 /\ p.height > 0 /\ p.sizeimage > 0

\* The steps of openPlatform, each of which may fail.
OpenSteps == {"find", "open", "query", "formats", "set", "prime", "refresh",
              "client", "sink", "load", "recheck", "playback"}

VARIABLES
  opening,       \* the opener's next step, "ready", "failed" or "panicked"
  held,          \* what it acquired and nobody released
  created,       \* pulseSink.createdSink
  pix,           \* v4l2Writer.pix
  daemon,        \* "waiting" for the opener, "running", "fallback", "stopped" or "crashed"
  audioRuns,     \* the capture was opened, and with it the audio engine started
  videoHealthy,  \* v4l2Writer.healthy
  audioHealthy,  \* pulseSink.healthy
  streamError,   \* stream.Error() # nil
  shownHealthy,  \* RoomState.OutputHealthy
  wrote,         \* bytes of the last video frame written
  queue,         \* sampleQueue.buf
  closed,        \* sampleQueue.closed
  pushed,        \* history: samples pushed
  played         \* history: what the client's last read got of them

openVars == <<opening, held, created, pix>>
healthVars == <<videoHealthy, audioHealthy, streamError, wrote>>
queueVars == <<queue, closed, pushed, played>>
outputVars == <<openVars, daemon, audioRuns, healthVars, shownHealthy, queueVars>>

OutputInit ==
  /\ opening = "find" /\ held = {} /\ created = FALSE /\ pix = NoPix
  /\ daemon = "waiting" /\ audioRuns \in BOOLEAN
  /\ videoHealthy = TRUE /\ audioHealthy = TRUE /\ streamError = FALSE
  /\ shownHealthy = TRUE
  /\ wrote = 0
  /\ queue = << >> /\ closed = FALSE /\ pushed = 0 /\ played = << >>

-----------------------------------------------------------------------------
(* Opening: openPlatform, openV4L2Output, openPulseSink, ensurePulseSink.    *)

After ==
  [find |-> "open", open |-> "query", query |-> "formats", formats |-> "set", set |-> "prime",
   prime |-> "refresh", refresh |-> "client", client |-> "sink", sink |-> "playback",
   load |-> "recheck", recheck |-> "playback", playback |-> "ready"]

Acquired(at) ==
  CASE at = "open" -> {"file"} [] at = "client" -> {"client"} [] at = "load" -> {"module"}
    [] OTHER -> {}

\* A step that succeeds.  setFormat tries three sizes for an answer that is usable, and
\* priming writes a frame, if it can be converted.
OpenStep(at) ==
  /\ opening = at /\ (at = "prime" => ~Overruns(pix))
  /\ opening' = After[at]
  /\ held' = held \cup Acquired(at)
  /\ created' = (created \/ at = "recheck")
  /\ IF at = "set" THEN pix' \in { p \in PixFormats : UsablePix(p) } ELSE pix' = pix
  /\ wrote' = IF at = "prime" THEN ConvertedSize(pix) ELSE wrote
  /\ UNCHANGED <<daemon, audioRuns, videoHealthy, audioHealthy, streamError, shownHealthy, queueVars>>

\* SinkByID finds no such sink: the module that makes one is loaded.
SinkMissing ==
  /\ opening = "sink"
  /\ opening' = "load"
  /\ UNCHANGED <<held, created, pix, daemon, audioRuns, healthVars, shownHealthy, queueVars>>

\* What the error path of each layer releases: openV4L2Output and openPlatform the
\* file, ensurePulseSink and openPulseSink the module and the connection.
ReleasedAt_KeepsModule(at) ==
  (IF at \in {"find", "open"} THEN {} ELSE {"file"})
    \cup (IF at \in {"load", "recheck", "playback"} THEN {"client"} ELSE {})
ReleasedAt(at) ==
  (IF at \in {"find", "open"} THEN {} ELSE {"file"})
    \cup (IF at \in {"load", "recheck", "playback"} THEN {"client"} ELSE {})
    \cup (IF at = "recheck" \/ (at = "playback" /\ created) THEN {"module"} ELSE {})

\* A missing sink is not an error.
OpenFails(at) ==
  /\ opening = at /\ at # "sink" /\ (at = "prime" => ~Overruns(pix))
  /\ opening' = "failed"
  /\ held' = held \ ReleasedAt(at)
  /\ UNCHANGED <<created, pix, daemon, audioRuns, healthVars, shownHealthy, queueVars>>

\* Priming is the first conversion.  Nothing recovers its panic, in a goroutine of the
\* daemon, which ends, though it may have given up waiting; what it held goes with it.
PrimePanics ==
  /\ opening = "prime" /\ Overruns(pix)
  /\ opening' = "panicked"
  /\ daemon' = "crashed"
  /\ held' = {}
  /\ UNCHANGED <<created, pix, audioRuns, healthVars, shownHealthy, queueVars>>

Opener == \/ \E at \in OpenSteps : OpenStep(at) \/ OpenFails(at)
          \/ SinkMissing \/ PrimePanics

-----------------------------------------------------------------------------
(* The daemon's own goroutine (run.go).                                      *)

Usable == daemon = "running"
Healthy == Usable /\ videoHealthy /\ audioHealthy /\ ~streamError

\* The opener answers in time, or not: a result that is late is never looked at.
TakeResult ==
  /\ daemon = "waiting" /\ opening \in {"ready", "failed"}
  /\ daemon' = IF opening = "ready" THEN "running" ELSE "fallback"
  /\ shownHealthy' = (opening = "ready" /\ ~streamError)
  /\ UNCHANGED <<openVars, audioRuns, healthVars, queueVars>>

GiveUp ==
  /\ daemon = "waiting"
  /\ daemon' = "fallback"
  /\ shownHealthy' = FALSE
  /\ UNCHANGED <<openVars, audioRuns, healthVars, queueVars>>

\* Only a module that this opener loaded is unloaded.  (The code asks that its index is
\* not 0, too: that is the first module of the server itself.)
AfterClose == held \ ({"file", "client"} \cup IF created THEN {"module"} ELSE {})

\* Close, deferred: the file, then the queue, the stream, the module, the client.
Close ==
  /\ daemon = "running"
  /\ daemon' = "stopped"
  /\ held' = AfterClose
  /\ closed' = TRUE
  /\ UNCHANGED <<opening, created, pix, audioRuns, healthVars, shownHealthy, queue, pushed, played>>

-----------------------------------------------------------------------------
(* Writing.                                                                  *)

\* The compositor writes only while the whole output is healthy.  A write that fails
\* or is short makes the video unhealthy.
WriteVideo ==
  /\ Healthy
  /\ \E ok \in BOOLEAN :
       /\ videoHealthy' = ok
       /\ wrote' = IF ok THEN ConvertedSize(pix) ELSE wrote
  /\ UNCHANGED <<openVars, daemon, audioRuns, audioHealthy, streamError, shownHealthy, queueVars>>

\* The audio goroutine: nothing is pushed once the stream failed, or after close.
WritePCM ==
  /\ audioRuns /\ daemon \in {"running", "stopped"} /\ audioHealthy
  /\ ~closed => pushed + FrameSize <= MaxQueued
  /\ IF closed
     THEN UNCHANGED <<queue, pushed>>
     ELSE /\ queue' = queue \o [i \in 1 .. FrameSize |-> pushed + i - 1]
          /\ pushed' = pushed + FrameSize
  /\ audioHealthy' = ~streamError
  /\ UNCHANGED <<openVars, daemon, audioRuns, videoHealthy, streamError, wrote,
                 shownHealthy, closed, played>>

Shorter(a, b) == IF a < b THEN a ELSE b
Remaining_Lost(n) == << >>
Remaining(n) == SubSeq(queue, n + 1, Len(queue))

\* The client's callback: what there is, or silence; the end only after the last one.
ReadSamples(n) ==
  /\ opening = "ready" /\ queue # << >>
  /\ LET k == Shorter(n, Len(queue)) IN
       /\ played' = SubSeq(queue, 1, k)
       /\ queue' = Remaining(k)
  /\ UNCHANGED <<openVars, daemon, audioRuns, healthVars, shownHealthy, closed, pushed>>

\* The server goes away, the sink is removed.
StreamFails ==
  /\ opening = "ready"
  /\ streamError' = TRUE
  /\ UNCHANGED <<openVars, daemon, audioRuns, videoHealthy, audioHealthy, wrote, shownHealthy, queueVars>>

ReportedHealth_Video == Usable /\ videoHealthy
ReportedHealth == Healthy

\* publishRoom, in the audio goroutine.
PublishHealth ==
  /\ audioRuns /\ daemon \in {"running", "fallback"}
  /\ shownHealthy' = ReportedHealth
  /\ UNCHANGED <<openVars, daemon, audioRuns, healthVars, queueVars>>

OutputNext ==
  \/ Opener \/ TakeResult \/ GiveUp \/ Close
  \/ WriteVideo \/ WritePCM \/ StreamFails \/ PublishHealth
  \/ \E n \in 1 .. MaxRead : ReadSamples(n)

OutputFairness == WF_outputVars(PublishHealth)
OutputSpec == OutputInit /\ [][OutputNext]_outputVars /\ OutputFairness
-----------------------------------------------------------------------------
(* Properties.                                                              *)

\* Every variable has its type.
OutputTypeOK ==
  /\ opening \in OpenSteps \cup {"ready", "failed", "panicked"}
  /\ held \subseteq {"file", "client", "module"}
  /\ created \in BOOLEAN /\ audioRuns \in BOOLEAN /\ closed \in BOOLEAN
  /\ pix \in PixFormats \cup {NoPix}
  /\ daemon \in {"waiting", "running", "fallback", "stopped", "crashed"}
  /\ videoHealthy \in BOOLEAN /\ audioHealthy \in BOOLEAN
  /\ streamError \in BOOLEAN /\ shownHealthy \in BOOLEAN
  /\ wrote \in Nat
  /\ pushed \in 0 .. MaxQueued /\ Len(queue) <= pushed

\* Whichever step of the opening fails, and when the daemon stops, nothing is left
\* over: what is held belongs to an opener that is at work, to the daemon that uses
\* it, or to an opener the daemon gave up waiting for (output_linux.go:38-72;
\* v4l2.go:104-145; pulse.go:70-131, 149-161; run.go:80-101).
OutputOwned ==
  held # {} => \/ opening \in OpenSteps
               \/ opening = "ready" /\ daemon \in {"waiting", "running", "fallback"}

OddYuyv(p) == p.format = "yuyv" /\ p.width % 2 = 1

\* Whatever picture format the driver answers with, a frame that is written is as long as
\* the driver set and scaling reads inside the composite.  The conversion to YUYV, two
\* pixels at a time, writes inside the frame but for one kind of answer, a picture of odd
\* width: of such a one no byte is ever written to the device, and such a one it is of
\* which the daemon panicked (v4l2.go:196-199, 225-248, 263-347; scale.go:3-21).
FramesFit ==
  /\ wrote \in {0, pix.sizeimage}
  /\ \A x \in 0 .. pix.width - 1, y \in 0 .. pix.height - 1 :
       ScaledOffset(x, y, pix.width, pix.height, Composite.width, Composite.height)
         \in 0 .. RgbaSize(Composite.width, Composite.height) - 4
  /\ wrote # 0 => ~OddYuyv(pix)
  /\ opening = "panicked" => OddYuyv(pix) /\ wrote = 0

\* What the sink plays is what the audio goroutine wrote, in order, each sample once,
\* whatever the sizes the client reads in and whenever it is closed (pulse.go:36-68).
SampleQueue == INSTANCE Fifo WITH Capacity <- MaxQueued, produced <- pushed, taken <- played
PlaysWhatWasWritten == SampleQueue!Spec

\* A failure of either half comes to be shown to the host, if an audio goroutine runs
\* to publish it (bridge.go:122-125; output_linux.go:23-25; run.go:102-104).
FailureShown ==
  (audioRuns /\ daemon = "running" /\ ~Healthy) ~> (~shownHealthy \/ daemon = "stopped")
=============================================================================
