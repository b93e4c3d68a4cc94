---------------------------- MODULE AudioEngine -----------------------------
(***************************************************************************)
(* The audio goroutine (audio/engine.go, audio/bridge.go): every 10 ms it  *)
(* takes a frame of each attached stream through its pipeline, hands the   *)
(* mix to the output and, with every second tick, publishes metrics,       *)
(* selection and health in the room and tells the host (scenario's Notify  *)
(* functions).  The host is the only stream that is attached.              *)
(*                                                                         *)
(* The engine has a lock and the room has one.  publishRoom asks the       *)
(* engine for its enhancement budget while it holds the room's lock.       *)
(* What a tick computes for a stream is module SignalPath's, which stream  *)
(* it selects is Selector's, who else hears of it is ParticipantHub's.     *)
(***************************************************************************)
EXTENDS Room

CONSTANT Holds  \* bound: the hold times the selector publishes

ASSUME EngineAssumption == Holds \subseteq 0 .. MaxHold

VARIABLES
  engineConfig, \* Engine.cfg, as the room's was when the engine was made
  pipe,        \* per attached stream, the flags of its pipeline
  engineLock,  \* who holds Engine.mu across a step, or "nobody"
  computed,    \* Engine.metrics: the flags by stream
  even,        \* tickCount%2 == 0
  audio        \* where the goroutine is

engineVars == <<engineConfig, pipe, engineLock, computed, even, audio>>

AudioSteps == {"off", "waiting", "ticking", "mixed", "publishing", "notify", "sending"}

Attached == DOMAIN pipe

\* SetupProductionAudio attaches the host and starts the goroutine; without a
\* capture it is not called.
StartStreams == { {HostStream}, {} }

EngineInit ==
  /\ engineConfig = config
  /\ \E streams \in StartStreams : pipe = [id \in streams |-> NoFlags]
  /\ engineLock = "nobody"
  /\ computed = [id \in {} |-> NoFlags]
  /\ even = TRUE
  /\ audio = IF Attached = {} THEN "off" ELSE "waiting"

Proceeds(from, to) == audio = from /\ audio' = to

\* tick takes the lock ...
TickBegin ==
  /\ engineLock = "nobody"
  /\ Proceeds("waiting", "ticking")
  /\ engineLock' = "audio"
  /\ even' = ~even
  /\ UNCHANGED <<roomVars, engineConfig, pipe, computed>>

\* ... takes a frame through every pipeline: ingestCapture has pushed one, of the
\* microphone or of silence.
TickEnd_HoldsLock ==
  /\ Proceeds("ticking", "mixed")
  /\ computed' = pipe
  /\ UNCHANGED <<roomVars, engineConfig, pipe, engineLock, even>>
TickEnd ==
  /\ Proceeds("ticking", "mixed")
  /\ computed' = pipe
  /\ engineLock' = "nobody"
  /\ UNCHANGED <<roomVars, engineConfig, pipe, even>>

\* The callback of Bridge.Start, after WritePCM: an odd tick publishes nothing.
SkipPublish ==
  /\ ~even
  /\ Proceeds("mixed", "waiting")
  /\ UNCHANGED <<roomVars, engineConfig, pipe, engineLock, computed, even>>

\* The accessors wait while the engine is locked: Metrics, EnhancementBudgetPct, ...
EngineFree == engineLock = "nobody"

\* publishRoom has read the engine under its lock, access by access, and takes the
\* room's.
PublishBegin ==
  /\ even
  /\ EngineFree
  /\ roomLock = "nobody"
  /\ Proceeds("mixed", "publishing")
  /\ roomLock' = "audio"
  /\ UNCHANGED <<config, participants, metrics, streamProcessing, hold,
                 engineConfig, pipe, engineLock, computed, even>>

PublishedMetrics_Kept == metrics
PublishedMetrics == IF computed = << >> THEN metrics ELSE computed

\* The callback of UpdateState, with EnhancementBudgetPct's turn on the engine's lock.
PublishEnd ==
  /\ EngineFree
  /\ Proceeds("publishing", "notify")
  /\ metrics' = PublishedMetrics
  /\ hold' \in Holds
  /\ roomLock' = "nobody"
  /\ UNCHANGED <<config, participants, streamProcessing,
                 engineConfig, pipe, engineLock, computed, even>>

\* Pipeline.SetProcessing: each filter whose flag differs is made or dropped; making
\* one cannot fail (both are pass-throughs in this build).
Switched(old, flags) ==
  [f \in DOMAIN old |-> IF flags[f] # old[f] THEN flags[f] ELSE old[f]]

\* Engine.SetStreamProcessing, called by the host's handlers.
EngineSetProcessing(id, flags) ==
  /\ EngineFree
  /\ pipe' = IF id \in Attached THEN [pipe EXCEPT ![id] = Switched(@, flags)] ELSE pipe
  /\ UNCHANGED <<roomVars, engineConfig, engineLock, computed, even, audio>>

AudioStep == TickBegin \/ TickEnd \/ SkipPublish \/ PublishBegin \/ PublishEnd

\* Every variable has its type.
EngineTypeOK ==
  /\ IsHostConfig(engineConfig)
  /\ Attached \subseteq StreamIds
  /\ \A id \in Attached : pipe[id] \in StreamProcessingFlags
  /\ engineLock \in {"nobody", "audio"}
  /\ DOMAIN computed \subseteq Attached
  /\ even \in BOOLEAN
  /\ audio \in AudioSteps
=============================================================================
