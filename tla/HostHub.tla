------------------------------ MODULE HostHub -------------------------------
(***************************************************************************)
(* The host's side of the daemon: sockets and REST calls of the host page  *)
(* (signaling/host.go, host_rest.go, stream_processing.go), the scenario   *)
(* engine that pushes the room's state to the sockets (scenario/engine.go) *)
(* and the audio goroutine that does the same, over one room.              *)
(*                                                                         *)
(* A request to switch a stream's processing changes the room first and    *)
(* the pipeline afterwards, each under a lock of its own.  A push takes a  *)
(* snapshot of the room and writes it to one socket after the other; two   *)
(* goroutines push, so a socket may get an older snapshot after a newer.   *)
(* Of the state that is pushed the model keeps the metrics' flags.         *)
(***************************************************************************)
EXTENDS AudioEngine

CONSTANTS
  HostClients,   \* sockets of the host page, each connected once at most
  RestCallers,   \* callers of the REST interface
  RequestFlags,  \* the flags they ask for
  Patches,       \* the configuration patches they send
  MaxChanges     \* bound: requests, joins and leaves in a behaviour

ASSUME HostAssumption ==
  /\ RequestFlags \subseteq StreamProcessingFlags
  /\ \A p \in Patches : DOMAIN p \subseteq HostConfigFields
  /\ MaxChanges \in Nat

Callers == HostClients \cup RestCallers
Pushers == {"audio", "scenario"}
ScenarioSteps == {"waiting", "notify", "sending"}

VARIABLES
  socket,    \* per host client: "away", "open" or "gone"
  shown,     \* per host client, the state last written to its socket
  request,   \* per caller, the request that has changed the room and not the pipeline
  scenario,  \* where the scenario engine's goroutine is
  push,      \* per pusher, the snapshot it writes and the sockets left
  changes,   \* history: requests, joins and leaves so far
  crossed    \* history: two requests for one stream overlapped

hostVars == <<socket, shown, request, scenario, push, changes, crossed>>
controlVars == <<roomVars, engineVars, hostVars>>

Nothing == << >>
NoRequest == [busy |-> FALSE, id |-> HostStream, flags |-> NoFlags]
NoPush == [state |-> Nothing, to |-> {}]

ControlInit ==
  /\ RoomInit /\ EngineInit
  /\ socket = [c \in HostClients |-> "away"]
  /\ shown = [c \in HostClients |-> Nothing]
  /\ request = [c \in Callers |-> NoRequest]
  /\ scenario = "waiting"
  /\ push = [p \in Pushers |-> NoPush]
  /\ changes = 0
  /\ crossed = FALSE

Open == { c \in HostClients : socket[c] = "open" }

Counted == changes < MaxChanges /\ changes' = changes + 1

-----------------------------------------------------------------------------
(* Requests: handleMessage, one at a time for a socket, and the REST calls. *)

MayCall(c) == c \in RestCallers \cup Open /\ ~request[c].busy

Connect(c) ==
  /\ socket[c] = "away"
  /\ socket' = [socket EXCEPT ![c] = "open"]
  /\ UNCHANGED <<roomVars, engineVars, shown, request, scenario, push, changes, crossed>>

Disconnect(c) ==
  /\ socket[c] = "open" /\ ~request[c].busy
  /\ socket' = [socket EXCEPT ![c] = "gone"]
  /\ shown' = [shown EXCEPT ![c] = Nothing]
  /\ UNCHANGED <<roomVars, engineVars, request, scenario, push, changes, crossed>>

\* applyStreamProcessing, first half; a request for an unknown stream ends here.
SetProcessing(c, id, flags) ==
  /\ MayCall(c)
  /\ Counted
  /\ RoomSetProcessing(id, flags)
  /\ request' = [request EXCEPT ![c] = [busy |-> TRUE, id |-> id, flags |-> flags]]
  /\ crossed' = (crossed \/ \E d \in Callers : request[d].busy /\ request[d].id = id)
  /\ UNCHANGED <<engineVars, socket, shown, scenario, push>>

AppliedFlags_AsShown(c) ==
  IF request[c].id \in DOMAIN metrics THEN metrics[request[c].id] ELSE NoFlags
AppliedFlags(c) == request[c].flags

\* Second half: the engine's error for a stream it does not have is ignored.  Without
\* an engine a socket's request skips it and a REST call panics on the nil engine
\* inside its interface (run.go:157): either way only the room has changed.
FinishProcessing(c) ==
  /\ request[c].busy
  /\ EngineSetProcessing(request[c].id, AppliedFlags(c))
  /\ request' = [request EXCEPT ![c] = NoRequest]
  /\ UNCHANGED <<socket, shown, scenario, push, changes, crossed>>

SetConfig(c, patch) ==
  /\ MayCall(c)
  /\ Counted
  /\ UpdateConfig(patch)
  /\ UNCHANGED <<engineVars, socket, shown, request, scenario, push, crossed>>

\* Participants come and go as ParticipantHub has it.
GuestJoins(c) ==
  /\ Counted
  /\ RoomJoin(c)
  /\ UNCHANGED <<engineVars, socket, shown, request, scenario, push, crossed>>

GuestLeaves(c) ==
  /\ c \in participants
  /\ Counted
  /\ RoomLeave(c)
  /\ UNCHANGED <<engineVars, socket, shown, request, scenario, push, crossed>>

-----------------------------------------------------------------------------
(* The pushes: emitState and BroadcastState.                                *)

\* tickAudioDriven, up to emitState.
ScenarioTick ==
  /\ scenario = "waiting"
  /\ roomLock = "nobody"
  /\ scenario' = "notify"
  /\ hold' = Decayed(hold)
  /\ UNCHANGED <<config, participants, metrics, streamProcessing, roomLock,
                 engineVars, socket, shown, request, push, changes, crossed>>

Moves(p, from, to) ==
  IF p = "audio"
  THEN audio = from /\ audio' = to /\ UNCHANGED scenario
  ELSE scenario = from /\ scenario' = to /\ UNCHANGED audio

BroadcastTargets_WithState == { c \in Open : shown[c] # Nothing }
BroadcastTargets == Open

\* FullState: a deep copy, so that what is written to a socket no longer changes.
Snapshot == metrics

TakeSnapshot(p) ==
  /\ roomLock = "nobody"
  /\ Moves(p, "notify", "sending")
  /\ push' = [push EXCEPT ![p] = [state |-> Snapshot, to |-> BroadcastTargets]]
  /\ UNCHANGED <<roomVars, engineConfig, pipe, engineLock, computed, even,
                 socket, shown, request, changes, crossed>>

\* A write to a socket that is gone fails and is ignored.
WriteState(p, c) ==
  /\ c \in push[p].to
  /\ shown' = [shown EXCEPT ![c] = IF c \in Open THEN push[p].state ELSE @]
  /\ push' = [push EXCEPT ![p].to = @ \ {c}]
  /\ UNCHANGED <<roomVars, engineVars, socket, request, scenario, changes, crossed>>

Sent(p) ==
  /\ push[p].to = {}
  /\ Moves(p, "sending", "waiting")
  /\ push' = [push EXCEPT ![p] = NoPush]
  /\ UNCHANGED <<roomVars, engineConfig, pipe, engineLock, computed, even,
                 socket, shown, request, changes, crossed>>

PushStep(p) == TakeSnapshot(p) \/ Sent(p) \/ \E c \in HostClients : WriteState(p, c)

-----------------------------------------------------------------------------

Environment ==
  \/ \E c \in HostClients : Connect(c) \/ Disconnect(c)
  \/ \E c \in Callers, id \in StreamIds, f \in RequestFlags : SetProcessing(c, id, f)
  \/ \E c \in Callers, p \in Patches : SetConfig(c, p)
  \/ \E c \in Guests : GuestJoins(c) \/ GuestLeaves(c)

AudioGoroutine == (AudioStep /\ UNCHANGED hostVars) \/ PushStep("audio")
ScenarioGoroutine == ScenarioTick \/ PushStep("scenario")

ControlNext ==
  \/ Environment
  \/ \E c \in Callers : FinishProcessing(c)
  \/ AudioGoroutine \/ ScenarioGoroutine

\* Goroutines run, tickers tick, a lock that is released again and again is given to
\* whoever waits for it (Go's mutexes do not starve), and a write to a socket ends.
ControlFairness ==
  /\ WF_controlVars(AudioGoroutine) /\ SF_controlVars(ScenarioGoroutine)
  /\ \A c \in Callers : SF_controlVars(FinishProcessing(c))

ControlSpec == ControlInit /\ [][ControlNext]_controlVars /\ ControlFairness
-----------------------------------------------------------------------------
(* Properties.                                                              *)

\* Every variable has its type.
ControlTypeOK ==
  /\ RoomTypeOK /\ EngineTypeOK
  /\ socket \in [HostClients -> {"away", "open", "gone"}]
  /\ DOMAIN shown = HostClients
  /\ \A c \in Callers : request[c].id \in StreamIds /\ request[c].flags \in StreamProcessingFlags
  /\ scenario \in ScenarioSteps
  /\ \A p \in Pushers : push[p].to \subseteq HostClients
  /\ changes \in 0 .. MaxChanges
  /\ crossed \in BOOLEAN

\* Whatever joins, leaves and publications overtook each other, the room has metrics
\* of attached streams and of participants that are there, and of nobody who left
\* (room.go:183-190, 287-316; bridge.go:112-116).
MetricsHaveOwner ==
  DOMAIN metrics \subseteq {HostStream} \cup Attached \cup participants

\* Requests that did not overlap leave the room and the pipelines in agreement on
\* what was asked for last, although each changes them one after the other under two
\* locks (stream_processing.go:12-20; room.go:108-127; engine.go:221-229).
FlagsAgree ==
  ~crossed /\ (\A c \in Callers : ~request[c].busy)
    => \A id \in Attached : streamProcessing[id] = pipe[id]

\* A request that was begun is ended: the two locks are never taken in an order that
\* makes two goroutines, or one, wait for ever (engine.go:104-168; bridge.go:112-126).
RequestsEnd == \A c \in Callers : request[c].busy ~> ~request[c].busy

\* Once requests, joins and leaves have ended, every host page that stays connected
\* is shown, for good, the room's metrics, and the room those of the pipelines:
\* no older snapshot of the other pusher and no metrics of an older tick are left
\* over (bridge.go:99-134; scenario/engine.go:202-251; host.go:67-84).
HostConverges ==
  <>[](\A c \in Open : shown[c] = metrics /\ (Attached # {} => metrics = pipe))

\* What the host configures is what the audio engine works with: a configuration
\* "applies immediately" (docs/API.md:126).
ConfigTakesEffect == <>[](Attached # {} => engineConfig = config)
=============================================================================
