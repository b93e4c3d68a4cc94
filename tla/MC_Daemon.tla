------------------------------ MODULE MC_Daemon ------------------------------
(***************************************************************************)
(* The instances that TLC checks of the daemon's goroutines beside the     *)
(* participants' hub: host, room and audio goroutine (HostHub), preview,   *)
(* virtual output, the hub's throttle by itself, and the conversion of the *)
(* preview's byte stream.  They share no state and are checked side by     *)
(* side: `part' says which of them a behaviour is about, the others keep   *)
(* their initial state.                                                    *)
(*                                                                         *)
(* HostHub: as MC_HostHub has it.                                          *)
(* Preview: a socket, a channel of one chunk, a keyframe every third       *)
(* encoded frame, one change of the active video.                          *)
(* VirtualOutput: answers of the driver that are longer and shorter than   *)
(* the converted picture, one that is of no use, one of an odd width, and  *)
(* pictures that are enlarged and reduced.                                 *)
(* BroadcastThrottle: a window of three ticks; the hub has one of one.     *)
(***************************************************************************)
EXTENDS MC_HostHub, Preview, VirtualOutput, BroadcastThrottle, NalUnits

VARIABLE part
Parts == {"control", "preview", "output", "throttle", "units"}

daemonVars == <<controlVars, previewVars, outputVars, throttleVars>>

DaemonInit ==
  /\ part \in Parts
  /\ ControlInit /\ (part # "control" => audio = "off")
  /\ PreviewInit
  /\ OutputInit /\ (part # "output" => audioRuns)
  /\ ThrottleInit

Only(p) ==
  /\ part = p
  /\ UNCHANGED part
  /\ p # "control" => UNCHANGED controlVars
  /\ p # "preview" => UNCHANGED previewVars
  /\ p # "output" => UNCHANGED outputVars
  /\ p # "throttle" => UNCHANGED throttleVars

DaemonNext ==
  \/ Only("control") /\ ControlNext
  \/ Only("preview") /\ PreviewNext
  \/ Only("output") /\ OutputNext
  \/ Only("throttle") /\ ThrottleNext

\* ControlFairness, PreviewFairness and OutputFairness, for the behaviours that are
\* about each.
DaemonFairness ==
  /\ WF_controlVars(part = "control" /\ AudioGoroutine)
  /\ SF_controlVars(part = "control" /\ ScenarioGoroutine)
  /\ \A c \in Callers : SF_controlVars(part = "control" /\ FinishProcessing(c))
  /\ WF_previewVars(part = "preview" /\ ~crashed /\ Compositor)
  /\ WF_previewVars(part = "preview" /\ ~crashed /\ Publisher)
  /\ SF_previewVars(part = "preview" /\ ~crashed /\ SendKey)
  /\ SF_previewVars(part = "preview" /\ ~crashed /\ SendDelta)
  /\ \A v \in Viewers : WF_previewVars(part = "preview" /\ ~crashed /\ Upgrade(v))
  /\ WF_outputVars(part = "output" /\ PublishHealth)

DaemonSpec == DaemonInit /\ [][DaemonNext]_<<part, daemonVars>> /\ DaemonFairness

MCComposite == [width |-> 4, height |-> 3]
MCPixFormats ==
  { [format |-> "yuyv", width |-> 2, height |-> 2, sizeimage |-> 8],
    [format |-> "yuyv", width |-> 4, height |-> 1, sizeimage |-> 6],
    [format |-> "yuyv", width |-> 3, height |-> 2, sizeimage |-> 12],
    [format |-> "rgb24", width |-> 3, height |-> 5, sizeimage |-> 48],
    [format |-> "rgb24", width |-> 2, height |-> 2, sizeimage |-> 0] }

-----------------------------------------------------------------------------

\* Every variable of the models has its type: among them that the configuration stays
\* legal whatever patches come, and the preview's channel in its capacity
\* (room.go; engine.go; host.go; stream.go; preview_hub.go; internal/output).
DaemonTypeOK == ControlTypeOK /\ PreviewTypeOK /\ OutputTypeOK /\ ThrottleTypeOK

\* UnitsComeApart for units of up to three bytes, zeros and ones as in a start code and
\* 8, a parameter set's first byte, and for those of a single byte of each kind that
\* makes a keyframe (pack.go:9-77; enc_x264.c:28-125; preview-stream.ts:8-59).
ShortUnitsComeApart ==
  part = "units" => UnitsComeApart({0, 1, 8}, 3) /\ UnitsComeApart({5, 7, 8}, 1)
=============================================================================
