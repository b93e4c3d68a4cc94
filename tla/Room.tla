-------------------------------- MODULE Room --------------------------------
(***************************************************************************)
(* The room (internal/room): what every other part of the daemon reads and *)
(* writes under one lock.  Of a stream's metrics the model keeps the flags *)
(* of its processing, of the selection the time left to hold.  The order   *)
(* of the metrics is not kept: the audio engine ranges over a map.         *)
(* streamProcessing is written by every operation and read by none.        *)
(*                                                                         *)
(* The daemon runs on real devices (daemon/run.go without -mock), with an  *)
(* audio engine, or without one when capture.Open failed.                  *)
(***************************************************************************)
EXTENDS HostConfig, FiniteSets

CONSTANTS
  Guests,       \* client ids of participants that may join
  MaxHold,      \* bound: the longest hold the selector publishes, in ms
  HoldStep      \* scenario's tickInterval, in ms

StreamProcessingFlags == [aec : BOOLEAN, denoise : BOOLEAN]
NoFlags == [aec |-> FALSE, denoise |-> FALSE]

ASSUME RoomAssumption ==
  /\ HostStream \notin Guests
  /\ MaxHold \in Nat /\ HoldStep \in Nat \ {0}

StreamIds == {HostStream} \cup Guests

VARIABLES
  config,           \* Room.config
  participants,     \* RoomState.Participants, the keys of Room.connected
  metrics,          \* RoomState.Metrics, the flags by stream
  streamProcessing, \* Room.streamProcessing
  hold,             \* RoomState.Selection's HoldRemainingMs
  roomLock          \* who keeps Room.mu across a step, or "nobody"

roomVars == <<config, participants, metrics, streamProcessing, hold, roomLock>>

\* ApplyBootstrapIdle: the host alone has metrics, nothing is switched on or held.
IdleMetrics == [id \in {HostStream} |-> NoFlags]

\* SetState's initStreamProcessingLocked: the flags of the metrics, none by default.
IdleProcessing == [id \in DOMAIN IdleMetrics |-> NoFlags]

\* New, with the idle state that the daemon gives it at once.
RoomInit ==
  /\ config = DefaultHostConfig
  /\ participants = {}
  /\ metrics = IdleMetrics
  /\ streamProcessing = IdleProcessing
  /\ hold = 0
  /\ roomLock = "nobody"

With(f, id, value) == [i \in DOMAIN f \cup {id} |-> IF i = id THEN value ELSE f[i]]
Without(f, id) == [i \in DOMAIN f \ {id} |-> f[i]]

UpdateConfig_Unchecked(patch) ==
  /\ roomLock = "nobody"
  /\ config' = MergeHostConfig(config, patch)
  /\ UNCHANGED <<participants, metrics, streamProcessing, hold, roomLock>>

\* A patch that makes the configuration illegal is refused as a whole.
UpdateConfig(patch) ==
  /\ roomLock = "nobody"
  /\ ValidHostConfig(MergeHostConfig(config, patch))
  /\ config' = MergeHostConfig(config, patch)
  /\ UNCHANGED <<participants, metrics, streamProcessing, hold, roomLock>>

KnowsStream(id) == id \in DOMAIN metrics \cup {HostStream}

RoomSetProcessing(id, flags) ==
  /\ roomLock = "nobody"
  /\ KnowsStream(id)
  /\ streamProcessing' = With(streamProcessing, id, flags)
  /\ metrics' = IF id \in DOMAIN metrics THEN [metrics EXCEPT ![id] = flags] ELSE metrics
  /\ UNCHANGED <<config, participants, hold, roomLock>>

DefaultMetric == NoFlags

\* A new participant's metric is a copy of another participant's, or the default.
Templates ==
  LET others == DOMAIN metrics \ {HostStream} IN
  IF others = {} THEN {DefaultMetric} ELSE { metrics[id] : id \in others }

RoomJoin(c) ==
  /\ roomLock = "nobody"
  /\ c \notin participants
  /\ participants' = participants \cup {c}
  /\ \E flags \in Templates : metrics' = With(metrics, c, flags)
  /\ streamProcessing' = With(streamProcessing, c, NoFlags)
  /\ UNCHANGED <<config, hold, roomLock>>

MetricsAfterLeave_All(c) == metrics
MetricsAfterLeave(c) == Without(metrics, c)

RoomLeave(c) ==
  /\ roomLock = "nobody"
  /\ participants' = participants \ {c}
  /\ metrics' = MetricsAfterLeave(c)
  /\ streamProcessing' = Without(streamProcessing, c)
  /\ UNCHANGED <<config, hold, roomLock>>

Decayed_Unclamped(h) == IF h > 0 THEN h - HoldStep ELSE h
Decayed(h) == IF h > HoldStep THEN h - HoldStep ELSE 0

\* Every variable has its type; the configuration stays legal whatever patches come.
RoomTypeOK ==
  /\ IsHostConfig(config) /\ ValidHostConfig(config)
  /\ participants \subseteq Guests
  /\ DOMAIN metrics \subseteq StreamIds
  /\ \A id \in DOMAIN metrics : metrics[id] \in StreamProcessingFlags
  /\ DOMAIN streamProcessing \subseteq StreamIds
  /\ \A id \in DOMAIN streamProcessing : streamProcessing[id] \in StreamProcessingFlags
  /\ hold \in 0 .. MaxHold
  /\ roomLock \in {"nobody", "audio"}
=============================================================================
