---------------------------- MODULE Daemon_proofs ----------------------------
(***************************************************************************)
(* Room, audio engine and host hub, for every number of participants,      *)
(* sockets and callers, and whatever they ask for: metrics have an owner,  *)
(* requests that do not overlap leave the room and the pipelines in        *)
(* agreement, the configuration stays legal and the two locks are never    *)
(* waited for in turn.  Then the types of the preview, and of the four     *)
(* models that the run of the daemon's goroutines checks side by side; and *)
(* that the byte stream comes apart into the encoder's units.              *)
(*                                                                         *)
(* For the agreement, the invariant says what the pipeline lacks while a   *)
(* request is between its two halves: the room has the request's flags     *)
(* already, and no other request is about the same stream.                 *)
(***************************************************************************)
EXTENDS MC_Daemon, VirtualOutput_proofs, FiniteSetTheorems, WellFoundedInduction,
        SequenceTheorems, TLAPS

\* The steps of the model that change none of the variables the invariants are about.
LEMMA OtherStepsIdle ==
  ASSUME ControlNext
  PROVE  \/ \E c \in Callers, id \in StreamIds, f \in RequestFlags : SetProcessing(c, id, f)
         \/ \E c \in Callers : FinishProcessing(c)
         \/ \E c \in Guests : GuestJoins(c) \/ GuestLeaves(c)
         \/ TickEnd /\ UNCHANGED hostVars
         \/ PublishEnd /\ UNCHANGED hostVars
         \/ UNCHANGED <<participants, metrics, streamProcessing, pipe, computed, request, crossed>>
<1> USE DEF roomVars, engineVars, hostVars
<1>1. CASE Environment
  <2>1. ASSUME NEW c \in HostClients, Connect(c) \/ Disconnect(c)
        PROVE  UNCHANGED <<participants, metrics, streamProcessing, pipe, computed, request, crossed>>
    BY <2>1 DEF Connect, Disconnect
  <2>2. ASSUME NEW c \in Callers, NEW p \in Patches, SetConfig(c, p)
        PROVE  UNCHANGED <<participants, metrics, streamProcessing, pipe, computed, request, crossed>>
    BY <2>2 DEF SetConfig, UpdateConfig
  <2>3. QED
    BY <1>1, <2>1, <2>2 DEF Environment
<1>2. CASE AudioStep /\ UNCHANGED hostVars
  BY <1>2 DEF AudioStep, TickBegin, SkipPublish, PublishBegin
<1>3. CASE ScenarioTick
  BY <1>3 DEF ScenarioTick
<1>4. ASSUME NEW p \in Pushers, PushStep(p)
      PROVE  UNCHANGED <<participants, metrics, streamProcessing, pipe, computed, request, crossed>>
  BY <1>4 DEF PushStep, TakeSnapshot, Sent, WriteState
<1>5. QED
  BY <1>1, <1>2, <1>3, <1>4 DEF ControlNext, AudioGoroutine, ScenarioGoroutine, Pushers

-----------------------------------------------------------------------------
(* Owners of metrics.                                                       *)

OwnerInv == DOMAIN computed \subseteq Attached /\ MetricsHaveOwner

\* The host alone has metrics at the start.
LEMMA OwnerInvInit == ControlInit => OwnerInv
BY DEF ControlInit, RoomInit, EngineInit, IdleMetrics, OwnerInv, MetricsHaveOwner

\* Whatever order joins, leaves, requests and publications come in.
LEMMA OwnerInvStep == ASSUME OwnerInv, [ControlNext]_controlVars PROVE OwnerInv'
<1> USE DEF OwnerInv, MetricsHaveOwner, Attached, With, Without
<1>1. ASSUME NEW c \in Callers, NEW id \in StreamIds, NEW f \in RequestFlags, SetProcessing(c, id, f)
      PROVE  OwnerInv'
  <2>1. DOMAIN metrics' = DOMAIN metrics /\ UNCHANGED <<participants, pipe, computed>>
    BY <1>1 DEF SetProcessing, RoomSetProcessing, engineVars
  <2>2. QED
    BY <2>1
<1>2. ASSUME NEW c \in Callers, FinishProcessing(c) PROVE OwnerInv'
  <2>1. DOMAIN pipe' = DOMAIN pipe /\ UNCHANGED <<participants, metrics, computed>>
    BY <1>2 DEF FinishProcessing, EngineSetProcessing, roomVars
  <2>2. QED
    BY <2>1
<1>3. ASSUME NEW c \in Guests, GuestJoins(c) PROVE OwnerInv'
  <2>1. /\ DOMAIN metrics' = DOMAIN metrics \cup {c} /\ participants' = participants \cup {c}
        /\ UNCHANGED <<pipe, computed>>
    BY <1>3 DEF GuestJoins, RoomJoin, engineVars
  <2>2. QED
    BY <2>1
<1>4. ASSUME NEW c \in Guests, GuestLeaves(c) PROVE OwnerInv'
  <2>1. /\ DOMAIN metrics' = DOMAIN metrics \ {c} /\ participants' = participants \ {c}
        /\ UNCHANGED <<pipe, computed>>
    BY <1>4 DEF GuestLeaves, RoomLeave, MetricsAfterLeave, engineVars
  <2>2. QED
    BY <2>1
<1>5. CASE TickEnd
  BY <1>5 DEF TickEnd, roomVars
<1>6. CASE PublishEnd
  BY <1>6 DEF PublishEnd, PublishedMetrics
<1>7. CASE UNCHANGED <<participants, metrics, streamProcessing, pipe, computed, request, crossed>>
  BY <1>7
<1>8. QED
  BY <1>1, <1>2, <1>3, <1>4, <1>5, <1>6, <1>7, OtherStepsIdle
     DEF controlVars, roomVars, engineVars, hostVars

\* The room has metrics of nobody who left (room.go:183-190, 287-316;
\* bridge.go:112-116).
THEOREM NoMetricsOfTheGone == ControlSpec => []MetricsHaveOwner
<1>1. OwnerInv => MetricsHaveOwner
  BY DEF OwnerInv
<1>2. QED
  BY <1>1, OwnerInvInit, OwnerInvStep, PTL DEF ControlSpec

-----------------------------------------------------------------------------
(* The flags of a stream's processing, in the room and in its pipeline.     *)

Requests == [busy : BOOLEAN, id : StreamIds, flags : StreamProcessingFlags]

FlagTypes ==
  /\ Attached \subseteq {HostStream}
  /\ Attached \subseteq DOMAIN streamProcessing
  /\ \A id \in Attached : pipe[id] \in StreamProcessingFlags
  /\ request \in [Callers -> Requests]
  /\ crossed \in BOOLEAN

Asked(id) == \E c \in Callers : request[c].busy /\ request[c].id = id

\* Without overlaps a stream has one request at most; the room has its flags.
OneRequest ==
  \A c, d \in Callers :
    request[c].busy /\ request[d].busy /\ request[c].id = request[d].id => c = d
RoomIsAhead ==
  \A c \in Callers :
    request[c].busy /\ request[c].id \in Attached => streamProcessing[request[c].id] = request[c].flags
RestAgrees == \A id \in Attached : Asked(id) \/ streamProcessing[id] = pipe[id]

FlagsInv == FlagTypes /\ (~crossed => OneRequest /\ RoomIsAhead /\ RestAgrees)

\* A pipeline whose filters are switched has the flags that were asked for.
LEMMA SwitchedToFlags ==
  ASSUME NEW old \in StreamProcessingFlags, NEW flags \in StreamProcessingFlags
  PROVE  Switched(old, flags) = flags
BY DEF Switched, StreamProcessingFlags

\* Nothing is switched on at the start, in the room or in a pipeline.
LEMMA FlagsInvInit == ControlInit => FlagsInv
<1> SUFFICES ASSUME ControlInit PROVE FlagsInv
  OBVIOUS
<1>1. PICK streams \in StartStreams : pipe = [id \in streams |-> NoFlags]
  BY DEF ControlInit, EngineInit
<1>2. NoFlags \in StreamProcessingFlags
  BY DEF NoFlags, StreamProcessingFlags
<1>3. request = [c \in Callers |-> NoRequest] /\ NoRequest \in Requests /\ ~NoRequest.busy
  BY <1>2 DEF ControlInit, NoRequest, Requests, StreamIds
<1>4. Attached \subseteq {HostStream} /\ \A id \in Attached : pipe[id] = NoFlags
  BY <1>1 DEF Attached, StartStreams
<1>5. FlagTypes
  BY <1>2, <1>3, <1>4 DEF FlagTypes, ControlInit, RoomInit, IdleProcessing, IdleMetrics
<1>6. \A id \in Attached : streamProcessing[id] = NoFlags
  BY <1>4 DEF ControlInit, RoomInit, IdleProcessing, IdleMetrics
<1>7. OneRequest /\ RoomIsAhead /\ RestAgrees
  BY <1>3, <1>4, <1>6 DEF OneRequest, RoomIsAhead, RestAgrees
<1>8. QED
  BY <1>5, <1>7 DEF FlagsInv

\* First half of a request: the room is ahead of the pipeline.
LEMMA SetKeepsFlags ==
  ASSUME FlagsInv, NEW c \in Callers, NEW id \in StreamIds, NEW f \in RequestFlags,
         SetProcessing(c, id, f)
  PROVE  FlagsInv'
<1> USE DEF FlagsInv, FlagTypes
<1>1. /\ ~request[c].busy
      /\ request' = [request EXCEPT ![c] = [busy |-> TRUE, id |-> id, flags |-> f]]
      /\ streamProcessing' = With(streamProcessing, id, f)
      /\ pipe' = pipe
  BY DEF SetProcessing, MayCall, RoomSetProcessing, engineVars
<1>2. crossed' = (crossed \/ \E d \in Callers : request[d].busy /\ request[d].id = id)
  BY DEF SetProcessing
<1>3. crossed' \in BOOLEAN
  BY <1>2
<1>4. f \in StreamProcessingFlags
  BY HostAssumption DEF HostAssumption
<1>5. FlagTypes'
  BY <1>1, <1>3, <1>4 DEF Requests, Attached, With
<1>6. ASSUME ~crossed' PROVE ~crossed /\ ~Asked(id)
  BY <1>2, <1>6 DEF Asked
<1>7. /\ request'[c] = [busy |-> TRUE, id |-> id, flags |-> f]
      /\ \A d \in Callers : d # c => request'[d] = request[d]
  BY <1>1
<1>8. ASSUME ~crossed' PROVE OneRequest' /\ RoomIsAhead' /\ RestAgrees'
  <2>1. ~crossed /\ ~Asked(id) /\ OneRequest /\ RoomIsAhead /\ RestAgrees
    BY <1>6, <1>8
  <2>2. OneRequest'
    BY <1>7, <2>1 DEF OneRequest, Asked
  <2>3. \A i \in Attached : streamProcessing'[i] = IF i = id THEN f ELSE streamProcessing[i]
    BY <1>1 DEF With
  <2>4. RoomIsAhead'
    BY <1>1, <1>7, <2>1, <2>3 DEF RoomIsAhead, Asked, Attached
  <2>5. RestAgrees'
    BY <1>1, <1>7, <2>1, <2>3 DEF RestAgrees, Asked, Attached
  <2>6. QED
    BY <2>2, <2>4, <2>5
<1>9. QED
  BY <1>5, <1>8

\* Second half: the pipeline comes up to it.
LEMMA FinishKeepsFlags ==
  ASSUME FlagsInv, NEW c \in Callers, FinishProcessing(c)
  PROVE  FlagsInv'
<1> USE DEF FlagsInv, FlagTypes
<1> DEFINE id == request[c].id
           f == request[c].flags
<1>1. /\ request[c].busy
      /\ request' = [request EXCEPT ![c] = NoRequest]
      /\ UNCHANGED <<streamProcessing, crossed>>
      /\ pipe' = IF id \in Attached THEN [pipe EXCEPT ![id] = Switched(@, f)] ELSE pipe
  BY DEF FinishProcessing, EngineSetProcessing, AppliedFlags, roomVars
<1>2. request[c] \in Requests /\ id \in StreamIds /\ f \in StreamProcessingFlags
  BY DEF Requests
<1>3. NoRequest \in Requests /\ ~NoRequest.busy
  BY DEF NoRequest, Requests, StreamIds, NoFlags, StreamProcessingFlags
<1>4. /\ ~request'[c].busy
      /\ \A d \in Callers : d # c => request'[d] = request[d]
  BY <1>1, <1>3
<1>5. /\ Attached' = Attached
      /\ \A i \in Attached : pipe'[i] = IF i = id THEN f ELSE pipe[i]
  BY <1>1, <1>2, SwitchedToFlags DEF Attached
<1>6. FlagTypes'
  BY <1>1, <1>2, <1>3, <1>5
<1>7. ASSUME ~crossed' PROVE OneRequest' /\ RoomIsAhead' /\ RestAgrees'
  <2>1. OneRequest /\ RoomIsAhead /\ RestAgrees
    BY <1>1, <1>7
  <2>2. OneRequest'
    BY <1>4, <2>1 DEF OneRequest
  <2>3. RoomIsAhead'
    BY <1>1, <1>4, <1>5, <2>1 DEF RoomIsAhead
  <2>4. RestAgrees'
    <3> SUFFICES ASSUME NEW i \in Attached, ~Asked(i)'
                 PROVE  streamProcessing'[i] = pipe'[i]
      BY <1>5 DEF RestAgrees
    <3>1. CASE i = id
      BY <1>1, <1>5, <2>1, <3>1 DEF RoomIsAhead
    <3>2. CASE i # id
      BY <1>1, <1>4, <1>5, <2>1, <3>2 DEF RestAgrees, Asked
    <3>3. QED
      BY <3>1, <3>2
  <2>5. QED
    BY <2>2, <2>3, <2>4
<1>8. QED
  BY <1>6, <1>7

\* Participants have no pipeline.
LEMMA GuestsKeepFlags ==
  ASSUME FlagsInv, NEW c \in Guests, GuestJoins(c) \/ GuestLeaves(c)
  PROVE  FlagsInv'
<1> USE DEF FlagsInv, FlagTypes
<1>1. UNCHANGED <<pipe, request, crossed>>
  BY DEF GuestJoins, GuestLeaves, engineVars
<1>2. c \notin Attached
  BY RoomAssumption DEF RoomAssumption
<1>3. /\ Attached \subseteq DOMAIN streamProcessing'
      /\ \A i \in Attached : streamProcessing'[i] = streamProcessing[i]
  <2>1. CASE GuestJoins(c)
    BY <1>2, <2>1 DEF GuestJoins, RoomJoin, With
  <2>2. CASE GuestLeaves(c)
    BY <1>2, <2>2 DEF GuestLeaves, RoomLeave, Without
  <2>3. QED
    BY <2>1, <2>2
<1>4. QED
  BY <1>1, <1>3 DEF Attached, OneRequest, RoomIsAhead, RestAgrees, Asked

\* Every step keeps the invariant.
LEMMA FlagsInvStep == ASSUME FlagsInv, [ControlNext]_controlVars PROVE FlagsInv'
<1>1. CASE UNCHANGED <<streamProcessing, pipe, request, crossed>>
  BY <1>1 DEF FlagsInv, FlagTypes, Attached, OneRequest, RoomIsAhead, RestAgrees, Asked
<1>2. CASE TickEnd /\ UNCHANGED hostVars
  BY <1>1, <1>2 DEF TickEnd, roomVars, hostVars
<1>3. CASE PublishEnd /\ UNCHANGED hostVars
  BY <1>1, <1>3 DEF PublishEnd, hostVars
<1>4. CASE UNCHANGED controlVars
  BY <1>1, <1>4 DEF controlVars, roomVars, engineVars, hostVars
<1>5. QED
  BY <1>1, <1>2, <1>3, <1>4, OtherStepsIdle, SetKeepsFlags, FinishKeepsFlags, GuestsKeepFlags

\* Requests that do not overlap leave the room and the pipelines in agreement, for any
\* number of callers (stream_processing.go:12-20; room.go:108-127; engine.go:221-229).
THEOREM RequestsAgree == ControlSpec => []FlagsAgree
<1>1. FlagsInv => FlagsAgree
  BY DEF FlagsInv, FlagTypes, RestAgrees, Asked, FlagsAgree
<1>2. QED
  BY <1>1, FlagsInvInit, FlagsInvStep, PTL DEF ControlSpec

-----------------------------------------------------------------------------
(* The configuration.                                                       *)

ConfigInv == IsHostConfig(config) /\ ValidHostConfig(config) /\ IsHostConfig(engineConfig)

\* The defaults are a legal configuration.
LEMMA DefaultsLegal == IsHostConfig(DefaultHostConfig) /\ ValidHostConfig(DefaultHostConfig)
<1>1. IsHostConfig(DefaultHostConfig)
  BY DEF IsHostConfig, HostConfigFields, DefaultHostConfig
<1>2. DefaultHostConfig["crossfadeMs"] = 100 /\ DefaultHostConfig["audioHoldMs"] = 400
  BY DEF DefaultHostConfig
<1>3. QED
  BY <1>1, <1>2 DEF ValidHostConfig

\* A patch merged into a configuration has its fields, and so have its weights.
LEMMA MergeKeepsFields ==
  ASSUME NEW base, IsHostConfig(base), NEW patch
  PROVE  IsHostConfig(MergeHostConfig(base, patch))
<1>1. "scoreWeights" \in HostConfigFields
  BY DEF HostConfigFields, DefaultHostConfig
<1>2. DOMAIN MergeHostConfig(base, patch) = HostConfigFields
  BY DEF MergeHostConfig, Patched, IsHostConfig
<1>3. MergeHostConfig(base, patch)["scoreWeights"] = MergedWeights(base, patch)
  BY <1>1 DEF MergeHostConfig, Patched, IsHostConfig
<1>4. DOMAIN MergedWeights(base, patch) = DOMAIN DefaultScoreWeights
  BY DEF MergedWeights, Patched, IsHostConfig
<1>5. QED
  BY <1>2, <1>3, <1>4 DEF IsHostConfig

\* Only SetConfig changes a configuration, and only to a legal one.
LEMMA ConfigInvStep == ASSUME ConfigInv, [ControlNext]_controlVars PROVE ConfigInv'
<1>1. ASSUME NEW c \in Callers, NEW p \in Patches, SetConfig(c, p) PROVE ConfigInv'
  BY <1>1, MergeKeepsFields DEF SetConfig, UpdateConfig, ConfigInv, engineVars
<1>2. CASE UNCHANGED <<config, engineConfig>>
  BY <1>2 DEF ConfigInv
<1>3. ASSUME Environment PROVE ConfigInv'
  BY <1>1, <1>2, <1>3
     DEF Environment, Connect, Disconnect, SetProcessing, RoomSetProcessing, GuestJoins, RoomJoin,
         GuestLeaves, RoomLeave, roomVars, engineVars
<1>4. ASSUME NEW c \in Callers, FinishProcessing(c) PROVE ConfigInv'
  BY <1>2, <1>4 DEF FinishProcessing, EngineSetProcessing, roomVars
<1>5. ASSUME AudioStep PROVE ConfigInv'
  BY <1>2, <1>5 DEF AudioStep, TickBegin, TickEnd, SkipPublish, PublishBegin, PublishEnd, roomVars
<1>6. ASSUME ScenarioTick PROVE ConfigInv'
  BY <1>2, <1>6 DEF ScenarioTick, engineVars
<1>7. ASSUME NEW p \in Pushers, PushStep(p) PROVE ConfigInv'
  BY <1>2, <1>7 DEF PushStep, TakeSnapshot, WriteState, Sent, roomVars, engineVars
<1>8. CASE UNCHANGED controlVars
  BY <1>2, <1>8 DEF controlVars, roomVars, engineVars
<1>9. QED
  BY <1>3, <1>4, <1>5, <1>6, <1>7, <1>8
     DEF ControlNext, AudioGoroutine, ScenarioGoroutine, Pushers

\* The room's configuration is complete and within the limits of its validation,
\* whatever patches come in what order (config.go; room.go:86-97).
THEOREM ConfigStaysLegal == ControlSpec => []ConfigInv
<1>1. ControlInit => ConfigInv
  BY DefaultsLegal DEF ControlInit, RoomInit, EngineInit, ConfigInv
<1>2. QED
  BY <1>1, ConfigInvStep, PTL DEF ControlSpec

-----------------------------------------------------------------------------
(* The two locks.                                                           *)

\* The engine's lock is kept across a step by a tick, the room's by a publication.
LocksInv ==
  /\ audio \in AudioSteps
  /\ engineLock = (IF audio = "ticking" THEN "audio" ELSE "nobody")
  /\ roomLock = (IF audio = "publishing" THEN "audio" ELSE "nobody")
  /\ even \in BOOLEAN

\* Every step keeps it: whoever else needs a lock waits until it is free.
LEMMA LocksInvStep == ASSUME LocksInv, [ControlNext]_controlVars PROVE LocksInv'
<1> USE DEF LocksInv, AudioSteps, Proceeds
<1>1. CASE UNCHANGED <<audio, engineLock, roomLock, even>>
  BY <1>1
<1>2. ASSUME Environment PROVE LocksInv'
  BY <1>1, <1>2
     DEF Environment, Connect, Disconnect, SetProcessing, RoomSetProcessing, SetConfig, UpdateConfig,
         GuestJoins, RoomJoin, GuestLeaves, RoomLeave, roomVars, engineVars
<1>3. ASSUME NEW c \in Callers, FinishProcessing(c) PROVE LocksInv'
  BY <1>1, <1>3 DEF FinishProcessing, EngineSetProcessing, roomVars
<1>4. ASSUME AudioStep PROVE LocksInv'
  BY <1>4 DEF AudioStep, TickBegin, TickEnd, SkipPublish, PublishBegin, PublishEnd, roomVars
<1>5. ASSUME ScenarioTick PROVE LocksInv'
  BY <1>1, <1>5 DEF ScenarioTick, engineVars
<1>6. ASSUME NEW p \in Pushers, PushStep(p) PROVE LocksInv'
  BY <1>6 DEF PushStep, TakeSnapshot, WriteState, Sent, Moves, roomVars, engineVars
<1>7. CASE UNCHANGED controlVars
  BY <1>1, <1>7 DEF controlVars, roomVars, engineVars
<1>8. QED
  BY <1>2, <1>3, <1>4, <1>5, <1>6, <1>7
     DEF ControlNext, AudioGoroutine, ScenarioGoroutine, Pushers

\* The audio goroutine never waits for one lock while it keeps the other: when it asks
\* for the engine's lock inside the room's, that is free (engine.go:104-168;
\* bridge.go:112-126).
THEOREM RoomNeverWaitsForEngine == ControlSpec => [](roomLock # "nobody" => EngineFree)
<1>1. ControlInit => LocksInv
  BY DEF ControlInit, RoomInit, EngineInit, LocksInv, AudioSteps
<1>2. LocksInv => (roomLock # "nobody" => EngineFree)
  BY DEF LocksInv, EngineFree
<1>3. QED
  BY <1>1, <1>2, LocksInvStep, PTL DEF ControlSpec

-----------------------------------------------------------------------------
(* Types.                                                                   *)

FlagsByStream(f) ==
  DOMAIN f \subseteq StreamIds /\ \A id \in DOMAIN f : f[id] \in StreamProcessingFlags

ValuesInv ==
  /\ participants \subseteq Guests
  /\ FlagsByStream(metrics) /\ FlagsByStream(streamProcessing)
  /\ FlagsByStream(computed) /\ DOMAIN computed \subseteq Attached
  /\ hold \in 0 .. MaxHold

\* The room's maps, with one stream more or less and with changed flags.
LEMMA FlagsByStreamKept ==
  ASSUME NEW f, FlagsByStream(f), NEW id \in StreamIds, NEW flags \in StreamProcessingFlags
  PROVE  /\ FlagsByStream(With(f, id, flags))
         /\ FlagsByStream(Without(f, id))
         /\ FlagsByStream([f EXCEPT ![id] = flags])
BY DEF FlagsByStream, With, Without

\* A new participant's flags are flags.
LEMMA TemplatesAreFlags ==
  ASSUME FlagsByStream(metrics), NEW flags \in Templates
  PROVE  flags \in StreamProcessingFlags
<1>1. DefaultMetric \in StreamProcessingFlags
  BY DEF DefaultMetric, NoFlags, StreamProcessingFlags
<1>2. flags = DefaultMetric \/ \E id \in DOMAIN metrics : flags = metrics[id]
  BY DEF Templates
<1>3. QED
  BY <1>1, <1>2 DEF FlagsByStream

\* Maps and hold time are typed at the start.
LEMMA ValuesInvInit == ControlInit => ValuesInv
<1> SUFFICES ASSUME ControlInit PROVE ValuesInv
  OBVIOUS
<1>1. NoFlags \in StreamProcessingFlags
  BY DEF NoFlags, StreamProcessingFlags
<1>2. FlagsByStream(metrics) /\ FlagsByStream(streamProcessing)
  BY <1>1 DEF ControlInit, RoomInit, IdleMetrics, IdleProcessing, FlagsByStream, StreamIds
<1>3. FlagsByStream(computed) /\ DOMAIN computed \subseteq Attached
  BY DEF ControlInit, EngineInit, FlagsByStream
<1>4. participants \subseteq Guests /\ hold \in 0 .. MaxHold
  BY RoomAssumption DEF RoomAssumption, ControlInit, RoomInit
<1>5. QED
  BY <1>2, <1>3, <1>4 DEF ValuesInv

\* Every step keeps them typed.
LEMMA ValuesInvStep ==
  ASSUME ValuesInv, FlagsInv, [ControlNext]_controlVars
  PROVE  ValuesInv'
<1>1. CASE UNCHANGED <<participants, metrics, streamProcessing, computed, hold>> /\ DOMAIN pipe' = DOMAIN pipe
  BY <1>1 DEF ValuesInv, FlagsByStream, Attached
<1>2. ASSUME NEW c \in Callers, NEW id \in StreamIds, NEW f \in RequestFlags, SetProcessing(c, id, f)
      PROVE  ValuesInv'
  <2>1. f \in StreamProcessingFlags
    BY HostAssumption DEF HostAssumption
  <2>2. FlagsByStream(With(streamProcessing, id, f)) /\ FlagsByStream([metrics EXCEPT ![id] = f])
    BY <2>1, FlagsByStreamKept DEF ValuesInv
  <2>3. FlagsByStream(streamProcessing') /\ FlagsByStream(metrics')
    BY <1>2, <2>2 DEF SetProcessing, RoomSetProcessing, ValuesInv
  <2>4. UNCHANGED <<participants, hold, computed, pipe>>
    BY <1>2 DEF SetProcessing, RoomSetProcessing, engineVars
  <2>5. QED
    BY <2>3, <2>4 DEF ValuesInv, FlagsByStream, Attached
<1>3. ASSUME NEW c \in Callers, FinishProcessing(c) PROVE ValuesInv'
  BY <1>1, <1>3 DEF FinishProcessing, EngineSetProcessing, roomVars
<1>4. ASSUME NEW c \in Guests, GuestJoins(c) PROVE ValuesInv'
  <2>1. c \in StreamIds /\ NoFlags \in StreamProcessingFlags
    BY DEF StreamIds, NoFlags, StreamProcessingFlags
  <2>2. PICK flags \in Templates : metrics' = With(metrics, c, flags)
    BY <1>4 DEF GuestJoins, RoomJoin
  <2>3. FlagsByStream(metrics')
    BY <2>1, <2>2, TemplatesAreFlags, FlagsByStreamKept DEF ValuesInv
  <2>4. FlagsByStream(streamProcessing')
    BY <1>4, <2>1, FlagsByStreamKept DEF GuestJoins, RoomJoin, ValuesInv
  <2>5. participants' \subseteq Guests /\ UNCHANGED <<hold, computed, pipe>>
    BY <1>4 DEF GuestJoins, RoomJoin, engineVars, ValuesInv
  <2>6. QED
    BY <2>3, <2>4, <2>5 DEF ValuesInv, FlagsByStream, Attached
<1>5. ASSUME NEW c \in Guests, GuestLeaves(c) PROVE ValuesInv'
  <2>1. c \in StreamIds /\ NoFlags \in StreamProcessingFlags
    BY DEF StreamIds, NoFlags, StreamProcessingFlags
  <2>2. FlagsByStream(metrics') /\ FlagsByStream(streamProcessing')
    BY <1>5, <2>1, FlagsByStreamKept DEF GuestLeaves, RoomLeave, MetricsAfterLeave, ValuesInv
  <2>3. participants' \subseteq Guests /\ UNCHANGED <<hold, computed, pipe>>
    BY <1>5 DEF GuestLeaves, RoomLeave, engineVars, ValuesInv
  <2>4. QED
    BY <2>2, <2>3 DEF ValuesInv, FlagsByStream, Attached
<1>6. ASSUME TickEnd PROVE ValuesInv'
  <2>1. FlagsByStream(pipe)
    BY DEF FlagsInv, FlagTypes, Attached, FlagsByStream, StreamIds
  <2>2. UNCHANGED <<participants, metrics, streamProcessing, hold, pipe>> /\ computed' = pipe
    BY <1>6 DEF TickEnd, roomVars
  <2>3. QED
    BY <2>1, <2>2 DEF ValuesInv, FlagsByStream, Attached
<1>7. ASSUME PublishEnd PROVE ValuesInv'
  <2>1. FlagsByStream(metrics')
    BY <1>7 DEF PublishEnd, PublishedMetrics, ValuesInv
  <2>2. hold' \in 0 .. MaxHold
    BY <1>7, EngineAssumption DEF EngineAssumption, PublishEnd
  <2>3. UNCHANGED <<participants, streamProcessing, computed, pipe>>
    BY <1>7 DEF PublishEnd
  <2>4. QED
    BY <2>1, <2>2, <2>3 DEF ValuesInv, FlagsByStream, Attached
<1>8. ASSUME ScenarioTick PROVE ValuesInv'
  <2>1. hold' \in 0 .. MaxHold
    BY <1>8, RoomAssumption DEF RoomAssumption, ScenarioTick, Decayed, ValuesInv
  <2>2. UNCHANGED <<participants, metrics, streamProcessing, computed, pipe>>
    BY <1>8 DEF ScenarioTick, engineVars
  <2>3. QED
    BY <2>1, <2>2 DEF ValuesInv, FlagsByStream, Attached
<1>9. ASSUME Environment PROVE ValuesInv'
  BY <1>1, <1>2, <1>4, <1>5, <1>9
     DEF Environment, Connect, Disconnect, SetConfig, UpdateConfig, roomVars, engineVars
<1>10. ASSUME AudioStep PROVE ValuesInv'
  BY <1>1, <1>6, <1>7, <1>10 DEF AudioStep, TickBegin, SkipPublish, PublishBegin, roomVars
<1>11. ASSUME NEW p \in Pushers, PushStep(p) PROVE ValuesInv'
  BY <1>1, <1>11 DEF PushStep, TakeSnapshot, WriteState, Sent, roomVars, engineVars
<1>12. CASE UNCHANGED controlVars
  BY <1>1, <1>12 DEF controlVars, roomVars, engineVars
<1>13. QED
  BY <1>3, <1>8, <1>9, <1>10, <1>11, <1>12
     DEF ControlNext, AudioGoroutine, ScenarioGoroutine, Pushers

SocketSteps == {"away", "open", "gone"}

PushesInv ==
  /\ socket \in [HostClients -> SocketSteps]
  /\ shown = [c \in HostClients |-> shown[c]]
  /\ scenario \in ScenarioSteps
  /\ push = [p \in Pushers |-> [state |-> push[p].state, to |-> push[p].to]]
  /\ \A p \in Pushers : push[p].to \subseteq HostClients
  /\ changes \in 0 .. MaxChanges

\* Nothing is pushed at the start.
LEMMA PushesInvInit == ControlInit => PushesInv
<1> SUFFICES ASSUME ControlInit PROVE PushesInv
  OBVIOUS
<1>1. changes \in 0 .. MaxChanges
  BY HostAssumption DEF HostAssumption, ControlInit
<1>2. QED
  BY <1>1 DEF ControlInit, PushesInv, SocketSteps, ScenarioSteps, NoPush

\* A step of a push writes to sockets that were open when it took its snapshot.
LEMMA PushStepKeeps ==
  ASSUME PushesInv, NEW p \in Pushers, PushStep(p)
  PROVE  PushesInv'
<1>1. UNCHANGED <<socket, changes>>
  BY DEF PushStep, TakeSnapshot, WriteState, Sent
<1>2. scenario' \in ScenarioSteps
  BY DEF PushStep, TakeSnapshot, WriteState, Sent, Moves, PushesInv, ScenarioSteps
<1>3. shown' = [c \in HostClients |-> shown'[c]]
  <2>1. shown' = shown \/ \E c \in HostClients : \E v : shown' = [shown EXCEPT ![c] = v]
    BY DEF PushStep, TakeSnapshot, WriteState, Sent
  <2>2. QED
    BY <2>1 DEF PushesInv
<1>4. push[p] = [state |-> push[p].state, to |-> push[p].to] /\ push[p].to \subseteq HostClients
  BY DEF PushesInv
<1>5. ASSUME NEW st, NEW to, to \subseteq HostClients,
             push' = [push EXCEPT ![p] = [state |-> st, to |-> to]]
      PROVE  /\ push' = [q \in Pushers |-> [state |-> push'[q].state, to |-> push'[q].to]]
             /\ \A q \in Pushers : push'[q].to \subseteq HostClients
  BY <1>5 DEF PushesInv
<1>6. /\ push' = [q \in Pushers |-> [state |-> push'[q].state, to |-> push'[q].to]]
      /\ \A q \in Pushers : push'[q].to \subseteq HostClients
  <2>1. CASE TakeSnapshot(p)
    <3>1. push' = [push EXCEPT ![p] = [state |-> Snapshot, to |-> BroadcastTargets]]
      BY <2>1 DEF TakeSnapshot
    <3>2. BroadcastTargets \subseteq HostClients
      BY DEF BroadcastTargets, Open
    <3>3. QED
      BY <1>5, <3>1, <3>2
  <2>2. ASSUME NEW c \in HostClients, WriteState(p, c)
        PROVE  push' = [push EXCEPT ![p] = [state |-> push[p].state, to |-> push[p].to \ {c}]]
    <3>1. push' = [push EXCEPT ![p] = [push[p] EXCEPT !.to = @ \ {c}]]
      BY <2>2 DEF WriteState
    <3>2. [push[p] EXCEPT !.to = @ \ {c}] = [state |-> push[p].state, to |-> push[p].to \ {c}]
      BY <1>4
    <3>3. QED
      BY <3>1, <3>2
  <2>3. CASE Sent(p)
    <3>1. push' = [push EXCEPT ![p] = [state |-> Nothing, to |-> {}]]
      BY <2>3 DEF Sent, NoPush
    <3>2. {} \subseteq HostClients
      OBVIOUS
    <3>3. QED
      BY <1>5, <3>1, <3>2
  <2>4. ASSUME NEW c \in HostClients
        PROVE  push[p].to \ {c} \subseteq HostClients
    BY <1>4
  <2>5. CASE \E c \in HostClients : WriteState(p, c)
    <3>1. PICK c \in HostClients : WriteState(p, c)
      BY <2>5
    <3>2. QED
      BY <1>5, <2>2, <2>4, <3>1
  <2>6. QED
    BY <2>1, <2>3, <2>5 DEF PushStep
<1>7. QED
  BY <1>1, <1>2, <1>3, <1>6 DEF PushesInv

\* Every step keeps sockets and pushes typed.
LEMMA PushesInvStep == ASSUME PushesInv, [ControlNext]_controlVars PROVE PushesInv'
<1>1. CASE UNCHANGED <<socket, shown, scenario, push, changes>>
  BY <1>1 DEF PushesInv
<1>2. ASSUME Counted, UNCHANGED <<socket, shown, scenario, push>> PROVE PushesInv'
  BY <1>2, HostAssumption DEF HostAssumption, Counted, PushesInv
<1>3. ASSUME NEW c \in HostClients, Connect(c) \/ Disconnect(c) PROVE PushesInv'
  BY <1>3 DEF Connect, Disconnect, PushesInv, SocketSteps
<1>4. ASSUME Environment PROVE PushesInv'
  BY <1>2, <1>3, <1>4 DEF Environment, SetProcessing, SetConfig, GuestJoins, GuestLeaves
<1>5. ASSUME NEW c \in Callers, FinishProcessing(c) PROVE PushesInv'
  BY <1>1, <1>5 DEF FinishProcessing
<1>6. ASSUME ScenarioTick PROVE PushesInv'
  BY <1>6 DEF ScenarioTick, PushesInv, ScenarioSteps
<1>7. CASE UNCHANGED hostVars
  BY <1>1, <1>7 DEF hostVars
<1>8. QED
  BY <1>4, <1>5, <1>6, <1>7, PushStepKeeps
     DEF ControlNext, AudioGoroutine, ScenarioGoroutine, Pushers, controlVars

ControlInv == ConfigInv /\ LocksInv /\ FlagsInv /\ ValuesInv /\ PushesInv

\* Configuration, locks, flags, values and pushes start as they should ...
LEMMA ControlStarts == ControlInit => ControlInv
<1>1. ControlInit => ConfigInv /\ LocksInv
  BY DefaultsLegal DEF ControlInit, RoomInit, EngineInit, ConfigInv, LocksInv, AudioSteps
<1>2. QED
  BY <1>1, FlagsInvInit, ValuesInvInit, PushesInvInit DEF ControlInv

\* ... and every step keeps them.
LEMMA ControlStep == ControlInv /\ [ControlNext]_controlVars => ControlInv'
BY ConfigInvStep, LocksInvStep, FlagsInvStep, ValuesInvStep, PushesInvStep DEF ControlInv

\* Then every variable has its type.
LEMMA ControlInvTypes == ControlInv => ControlTypeOK
<1> SUFFICES ASSUME ControlInv PROVE ControlTypeOK
  OBVIOUS
<1> USE DEF ControlInv
<1>1. RoomTypeOK
  BY DEF RoomTypeOK, ConfigInv, ValuesInv, FlagsByStream, LocksInv
<1>2. EngineTypeOK
  BY DEF EngineTypeOK, ConfigInv, ValuesInv, FlagsInv, FlagTypes, LocksInv, StreamIds
<1>3. \A c \in Callers : request[c].id \in StreamIds /\ request[c].flags \in StreamProcessingFlags
  BY DEF FlagsInv, FlagTypes, Requests
<1>4. DOMAIN shown = HostClients
  BY DEF PushesInv
<1>5. QED
  BY <1>1, <1>2, <1>3, <1>4 DEF ControlTypeOK, PushesInv, SocketSteps, FlagsInv, FlagTypes

\* Every variable of room, engine and host hub keeps its type.
THEOREM ControlTypeCorrect == ControlSpec => []ControlTypeOK
BY ControlStarts, ControlStep, ControlInvTypes, PTL DEF ControlSpec

-----------------------------------------------------------------------------
(* The preview.                                                             *)

Publications == [chunk : Chunks, to : SUBSET Viewers, at : SUBSET Viewers, busy : BOOLEAN]

ChunksInv ==
  /\ odd \in BOOLEAN /\ forced \in BOOLEAN /\ spoilt \in BOOLEAN
  /\ frameN \in 0 .. Fps
  /\ chunk \in Chunks /\ publishing \in Publications
  /\ out \in Seq(Chunks) /\ Len(out) <= ChunkCap

\* The number of the next frame stays below Fps.
LEMMA NextFrameInRange == ASSUME frameN \in 0 .. Fps PROVE NextFrame \in 0 .. Fps
<1> USE PreviewAssumption DEF PreviewAssumption
<1>1. (frameN + 1) % Fps \in 0 .. Fps - 1
  OBVIOUS
<1>2. 1 \in 0 .. Fps
  OBVIOUS
<1>3. QED
  BY <1>1, <1>2 DEF NextFrame

\* The compositor puts a chunk into the channel only where there is room.
LEMMA EncoderKeepsChunks ==
  ASSUME ChunksInv, SkipFrame \/ BeginEncode \/ SendKey \/ SendDelta \/ EncodeFails
  PROVE  ChunksInv'
<1> USE DEF ChunksInv
<1>1. NoChunk \in Chunks
  BY DEF NoChunk, Chunks
<1>2. CASE SkipFrame
  <2>1. IsCut \in BOOLEAN
    BY DEF IsCut
  <2>2. QED
    BY <1>2, <2>1 DEF SkipFrame
<1>3. CASE BeginEncode
  <2>1. (forced \/ IsCut \/ FirstOrFpsth) \in BOOLEAN
    OBVIOUS
  <2>2. PICK key \in BOOLEAN : chunk' = [key |-> key, spoilt |-> ~key /\ spoilt]
    BY <1>3, <2>1 DEF BeginEncode
  <2>3. chunk' \in Chunks
    BY <2>2 DEF Chunks
  <2>4. odd' = FALSE /\ forced' = FALSE /\ UNCHANGED <<frameN, spoilt, out, publishing>>
    BY <1>3 DEF BeginEncode
  <2>5. QED
    BY <2>3, <2>4
<1>4. ASSUME Len(out) < ChunkCap, out' = Append(out, chunk)
      PROVE  out' \in Seq(Chunks) /\ Len(out') <= ChunkCap
  BY <1>4, PreviewAssumption DEF PreviewAssumption
<1>5. CASE SendKey
  BY <1>1, <1>4, <1>5, NextFrameInRange DEF SendKey, EndEncode
<1>6. CASE SendDelta
  BY <1>1, <1>4, <1>6, NextFrameInRange DEF SendDelta, EndEncode, DeltaFits
<1>7. CASE EncodeFails
  <2>1. spoilt' \in BOOLEAN
    BY <1>7 DEF EncodeFails
  <2>2. QED
    BY <1>1, <1>7, <2>1 DEF EncodeFails, EndEncode
<1>8. QED
  BY <1>2, <1>3, <1>5, <1>6, <1>7

\* The publishing goroutine takes its chunks from the channel.
LEMMA PublisherKeepsChunks == ASSUME ChunksInv, Publisher PROVE ChunksInv'
<1> USE DEF ChunksInv, streamVars
<1>1. CASE TakeChunk
  <2>1. publishing'.chunk = Head(out) /\ out' = Tail(out) /\ out # << >>
    BY <1>1 DEF TakeChunk
  <2>2. Head(out) \in Chunks /\ Tail(out) \in Seq(Chunks) /\ Len(Tail(out)) <= ChunkCap
    BY <2>1, PreviewAssumption DEF PreviewAssumption
  <2>3. publishing' \in Publications
    BY <1>1, <2>1, <2>2 DEF TakeChunk, Publications, Registered
  <2>4. QED
    BY <1>1, <2>1, <2>2, <2>3 DEF TakeChunk
<1>2. ASSUME NEW v \in Viewers, BeginChunk(v) \/ WriteChunk(v) PROVE ChunksInv'
  <2>1. CASE BeginChunk(v)
    <3>1. publishing' \in Publications
      BY <2>1 DEF BeginChunk, Publications
    <3>2. QED
      BY <2>1, <3>1 DEF BeginChunk
  <2>2. CASE WriteChunk(v)
    <3>1. publishing' \in Publications
      BY <2>2 DEF WriteChunk, Publications
    <3>2. QED
      BY <2>2, <3>1 DEF WriteChunk
  <2>3. QED
    BY <1>2, <2>1, <2>2
<1>3. CASE ChunkSent
  BY <1>3 DEF ChunkSent, NotPublishing, NoChunk, Chunks, Publications
<1>4. QED
  BY <1>1, <1>2, <1>3 DEF Publisher

Pictures == {"none", "live", "spoilt", "closed"}

ViewersInv ==
  /\ active \in 1 .. MaxSwitches + 1 /\ lastVideo \in 0 .. MaxSwitches + 1
  /\ compositor \in {"waiting", "encoding", "encoding-cut", "cut"}
  /\ cutTo \subseteq Viewers /\ cutting \subseteq Viewers
  /\ publishing.to \subseteq Viewers /\ publishing.at \subseteq Viewers
  /\ viewer \in [Viewers -> {"away", "added", "asked", "greeting", "open", "gone"}]
  /\ picture \in [Viewers -> Pictures]
  /\ mixed \subseteq Viewers /\ crashed \in BOOLEAN

\* Writes that overlap mix up the messages of a socket that there is, or end the daemon.
LEMMA BeginWriteTyped ==
  ASSUME ViewersInv, NEW v \in Viewers, BeginWrite(v)
  PROVE  mixed' \subseteq Viewers /\ crashed' \in BOOLEAN
<1>1. CASE Writing(v)
  BY <1>1 DEF BeginWrite, ViewersInv
<1>2. CASE ~Writing(v)
  BY <1>2 DEF BeginWrite, ViewersInv, socketVars
<1>3. QED
  BY <1>1, <1>2

\* A write that has ended leaves one of the pictures.
LEMMA ShownTyped ==
  ASSUME ViewersInv, NEW v \in Viewers, NEW p \in Pictures
  PROVE  Shown(v, p) \in [Viewers -> Pictures]
BY DEF ViewersInv, Shown, Pictures

\* So does one that clears it.
LEMMA ClearedTyped == ASSUME NEW v \in Viewers PROVE Cleared(v) \in Pictures
BY DEF Cleared, Pictures

\* A step of the compositor keeps what it, the sockets and the pages are at.
LEMMA CompositorKeepsViewers == ASSUME ViewersInv, Compositor \/ EncodeFails PROVE ViewersInv'
<1> USE PreviewAssumption DEF PreviewAssumption, ViewersInv, streamVars, viewVars, cutVars, socketVars
<1>1. Registered \subseteq Viewers /\ active \in 0 .. MaxSwitches + 1
  BY DEF Registered
<1>2. CASE SkipFrame \/ BeginEncode
  BY <1>1, <1>2 DEF SkipFrame, BeginEncode, AfterFrame
<1>3. CASE SendKey \/ SendDelta \/ EncodeFails
  BY <1>1, <1>3 DEF SendKey, SendDelta, EncodeFails, EndEncode, AfterFrame
<1>4. ASSUME NEW v \in Viewers, BeginCut(v) PROVE ViewersInv'
  BY <1>4, BeginWriteTyped DEF BeginCut
<1>5. ASSUME NEW v \in Viewers, WriteCut(v) PROVE ViewersInv'
  <2>1. picture' \in [Viewers -> Pictures]
    BY <1>5, ShownTyped, ClearedTyped DEF WriteCut
  <2>2. QED
    BY <1>5, <2>1 DEF WriteCut
<1>6. CASE CutSent
  BY <1>6 DEF CutSent
<1>7. QED
  BY <1>2, <1>3, <1>4, <1>5, <1>6 DEF Compositor

\* So does a step of the publishing goroutine.
LEMMA PublisherKeepsViewers == ASSUME ViewersInv, Publisher PROVE ViewersInv'
<1> USE DEF ViewersInv, streamVars, viewVars, cutVars, socketVars
<1>1. CASE TakeChunk
  <2>1. publishing'.to \subseteq Viewers /\ publishing'.at \subseteq Viewers
    BY <1>1 DEF TakeChunk, Registered
  <2>2. QED
    BY <1>1, <2>1 DEF TakeChunk
<1>2. ASSUME NEW v \in Viewers, BeginChunk(v) PROVE ViewersInv'
  <2>1. publishing'.to \subseteq Viewers /\ publishing'.at \subseteq Viewers
    BY <1>2 DEF BeginChunk
  <2>2. QED
    BY <1>2, <2>1, BeginWriteTyped DEF BeginChunk
<1>3. ASSUME NEW v \in Viewers, WriteChunk(v) PROVE ViewersInv'
  <2>1. publishing'.to \subseteq Viewers /\ publishing'.at \subseteq Viewers
    BY <1>3 DEF WriteChunk
  <2>2. Decoded(v) \subseteq Pictures
    BY DEF Decoded, Pictures
  <2>3. picture' \in [Viewers -> Pictures]
    BY <1>3, <2>2, ShownTyped DEF WriteChunk
  <2>4. QED
    BY <1>3, <2>1, <2>3 DEF WriteChunk
<1>4. CASE ChunkSent
  BY <1>4 DEF ChunkSent, NotPublishing
<1>5. QED
  BY <1>1, <1>2, <1>3, <1>4 DEF Publisher

\* And one of the goroutine that accepts a socket, or reads from it.
LEMMA ViewerKeepsViewers ==
  ASSUME ViewersInv, NEW v \in Viewers, AddClient(v) \/ Upgrade(v) \/ RemoveClient(v)
  PROVE  ViewersInv'
<1> USE DEF ViewersInv, ViewerGoes, cutVars, socketVars
<1>1. CASE AddClient(v) \/ AskKeyframe(v)
  BY <1>1 DEF AddClient, AskKeyframe
<1>2. CASE BeginInit(v)
  BY <1>2, BeginWriteTyped DEF BeginInit
<1>3. CASE WriteInit(v)
  <2>1. picture' \in [Viewers -> Pictures]
    BY <1>3, ShownTyped, ClearedTyped DEF WriteInit
  <2>2. QED
    BY <1>3, <2>1 DEF WriteInit
<1>4. CASE RemoveClient(v)
  <2>1. picture' \in [Viewers -> Pictures]
    BY <1>4, ShownTyped DEF RemoveClient, Pictures
  <2>2. QED
    BY <1>4, <2>1 DEF RemoveClient
<1>5. QED
  BY <1>1, <1>2, <1>3, <1>4 DEF Upgrade

PreviewInv == ChunksInv /\ ViewersInv

\* No chunk is encoded and no page connected at the start ...
LEMMA PreviewStarts == PreviewInit => PreviewInv
<1> SUFFICES ASSUME PreviewInit PROVE PreviewInv
  OBVIOUS
<1> USE PreviewAssumption DEF PreviewAssumption, PreviewInit, NotPublishing
<1>1. NoChunk \in Chunks
  BY DEF NoChunk, Chunks
<1>2. active \in 1 .. MaxSwitches + 1 /\ lastVideo \in 0 .. MaxSwitches + 1 /\ frameN \in 0 .. Fps
  OBVIOUS
<1>3. out \in Seq(Chunks) /\ Len(out) <= ChunkCap
  OBVIOUS
<1>4. ChunksInv
  BY <1>1, <1>2, <1>3 DEF ChunksInv, Publications
<1>5. ViewersInv
  BY <1>2 DEF ViewersInv, Pictures
<1>6. QED
  BY <1>4, <1>5 DEF PreviewInv

\* ... and every step keeps chunks and viewers.
LEMMA PreviewStep == PreviewInv /\ [PreviewNext]_previewVars => PreviewInv'
<1> SUFFICES ASSUME ChunksInv, ViewersInv, [PreviewNext]_previewVars PROVE ChunksInv' /\ ViewersInv'
  BY DEF PreviewInv
<1>1. CASE SkipFrame \/ BeginEncode \/ SendKey \/ SendDelta \/ EncodeFails
  BY <1>1, EncoderKeepsChunks, CompositorKeepsViewers DEF Compositor
<1>2. CASE CutSent \/ \E v \in Viewers : BeginCut(v) \/ WriteCut(v)
  <2>1. ChunksInv'
    BY <1>2 DEF CutSent, BeginCut, WriteCut, ChunksInv, streamVars
  <2>2. QED
    BY <1>2, <2>1, CompositorKeepsViewers DEF Compositor
<1>3. CASE Publisher
  BY <1>3, PublisherKeepsChunks, PublisherKeepsViewers
<1>4. CASE SwitchVideo
  BY <1>4, PreviewAssumption
     DEF PreviewAssumption, SwitchVideo, ChunksInv, ViewersInv, streamVars, viewVars, cutVars,
         socketVars
<1>5. ASSUME NEW v \in Viewers, AddClient(v) \/ Upgrade(v) \/ RemoveClient(v)
      PROVE  ChunksInv' /\ ViewersInv'
  <2>1. ChunksInv'
    BY <1>5 DEF AddClient, Upgrade, AskKeyframe, BeginInit, WriteInit, RemoveClient, ViewerGoes, ChunksInv
  <2>2. QED
    BY <1>5, <2>1, ViewerKeepsViewers
<1>6. CASE UNCHANGED previewVars
  BY <1>6 DEF previewVars, streamVars, viewVars, cutVars, socketVars, ChunksInv, ViewersInv
<1>7. QED
  BY <1>1, <1>2, <1>3, <1>4, <1>5, <1>6 DEF PreviewNext, Compositor

\* Then every variable has its type.
LEMMA PreviewInvTypes == PreviewInv => PreviewTypeOK
BY DEF PreviewInv, ChunksInv, ViewersInv, PreviewTypeOK, Pictures, Publications

\* The channel stays in its capacity, for every capacity, keyframe interval and number
\* of pages: a keyframe waits for room, a delta is dropped (stream.go:97-136).
THEOREM PreviewTypeCorrect == PreviewSpec => []PreviewTypeOK
BY PreviewStarts, PreviewStep, PreviewInvTypes, PTL DEF PreviewSpec

-----------------------------------------------------------------------------
(* The daemon's four models side by side.                                   *)

\* A timer is never set for longer than the window.
LEMMA ThrottleTyped ==
  /\ ThrottleInit => ThrottleTypeOK
  /\ ThrottleTypeOK /\ [ThrottleNext]_throttleVars => ThrottleTypeOK'
<1> USE WindowAssumption DEF WindowAssumption, ThrottleTypeOK, NoTimer
<1>1. ASSUME ThrottleInit PROVE ThrottleTypeOK
  <2>1. age \in 0 .. Window /\ timer \in 0 .. Window \cup {NoTimer}
    BY <1>1 DEF ThrottleInit
  <2>2. busy \in BOOLEAN /\ short \in BOOLEAN
    BY <1>1 DEF ThrottleInit
  <2>3. QED
    BY <2>1, <2>2
<1>2. ASSUME ThrottleTypeOK, [ThrottleNext]_throttleVars PROVE ThrottleTypeOK'
  <2>1. CASE Tick
    BY <1>2, <2>1 DEF Tick
  <2>2. CASE ScheduleNow
    BY <1>2, <2>2 DEF ScheduleNow, Broadcast
  <2>3. CASE ScheduleLater
    BY <1>2, <2>3 DEF ScheduleLater, Wait
  <2>4. CASE ScheduleCoalesced
    BY <1>2, <2>4 DEF ScheduleCoalesced, throttleVars
  <2>5. CASE TimerFires
    BY <1>2, <2>5 DEF TimerFires, Broadcast
  <2>6. CASE BroadcastEnd
    BY <1>2, <2>6 DEF BroadcastEnd
  <2>7. CASE UNCHANGED throttleVars
    BY <1>2, <2>7 DEF throttleVars
  <2>8. QED
    BY <1>2, <2>1, <2>2, <2>3, <2>4, <2>5, <2>6, <2>7 DEF ThrottleNext, ScheduleBroadcast
<1>3. QED
  BY <1>1, <1>2

\* A step of one model is a step of it, and the others stand still.
LEMMA OnePartMoves ==
  [DaemonNext]_<<part, daemonVars>> =>
    /\ [ControlNext]_controlVars /\ [PreviewNext]_previewVars
    /\ [OutputNext]_outputVars /\ [ThrottleNext]_throttleVars
BY DEF DaemonNext, Only, daemonVars

\* What the run of the four models checks of their types, for every instance: the
\* configuration, the preview's channel, the sink's queue and the throttle's timer stay
\* in their bounds (room.go; engine.go; host.go; stream.go; preview_hub.go; internal/output).
THEOREM DaemonTypeCorrect == DaemonSpec => []DaemonTypeOK
<1> DEFINE Safe == ControlInv /\ PreviewInv /\ OutputInv /\ ThrottleTypeOK
<1>1. DaemonInit => Safe
  BY ControlStarts, PreviewStarts, OutputStarts, ThrottleTyped DEF DaemonInit
<1>2. Safe /\ [DaemonNext]_<<part, daemonVars>> => Safe'
  BY OnePartMoves, ControlStep, PreviewStep, OutputStep, ThrottleTyped
<1>3. Safe => DaemonTypeOK
  BY ControlInvTypes, PreviewInvTypes, OutputInvTypes DEF DaemonTypeOK
<1>4. QED
  BY <1>1, <1>2, <1>3, PTL DEF DaemonSpec

-----------------------------------------------------------------------------

\* A set of numbers has a least one, since the intervals below them are finite sets.
LEMMA LeastNumber ==
  ASSUME NEW S, S \subseteq Nat, S # {}
  PROVE  \E m \in S : \A n \in S : m <= n
<1> DEFINE Below == { 0 .. n : n \in S }
           R == StrictSubsetOrdering(Nat)
<1>1. IsWellFoundedOn(R, FiniteSubsetsOf(Nat))
  BY FS_StrictSubsetOrderingWellFounded
<1>2. Below \subseteq FiniteSubsetsOf(Nat)
  <2>1. ASSUME NEW n \in S PROVE 0 .. n \in FiniteSubsetsOf(Nat)
    <3>1. n \in Nat
      OBVIOUS
    <3>2. IsFiniteSet(0 .. n)
      BY <3>1, FS_Interval
    <3>3. 0 .. n \in SUBSET Nat
      BY <3>1
    <3>4. QED
      BY <3>2, <3>3 DEF FiniteSubsetsOf
  <2>2. QED
    BY <2>1
<1>3. Below # {}
  OBVIOUS
<1> HIDE DEF R
<1>4. PICK x \in Below : \A y \in Below : ~(<<y, x>> \in R)
  <2> HIDE DEF Below
  <2>1. QED
    BY <1>1, <1>2, <1>3, WFMin, Zenon
<1>5. PICK m \in S : x = 0 .. m
  OBVIOUS
<1>6. ASSUME NEW n \in S, ~(m <= n) PROVE FALSE
  <2>1. m \in Nat /\ n \in Nat /\ n < m
    BY <1>6
  <2>2. 0 .. n \in SUBSET Nat /\ 0 .. m \in SUBSET Nat /\ 0 .. n \subseteq 0 .. m
    BY <2>1
  <2>3. m \in 0 .. m /\ m \notin 0 .. n
    BY <2>1
  <2>4. <<0 .. n, 0 .. m>> \in R
    BY <2>2, <2>3 DEF R, StrictSubsetOrdering
  <2>5. QED
    BY <1>4, <1>5, <2>4
<1>7. QED
  BY <1>6

\* Induction, for a set of numbers.
LEMMA NumbersByInduction ==
  ASSUME NEW S, 0 \in S, \A n \in Nat : n \in S => n + 1 \in S
  PROVE  Nat \subseteq S
<1> SUFFICES ASSUME NEW n \in Nat, n \notin S PROVE FALSE
  OBVIOUS
<1>1. Nat \ S \subseteq Nat /\ Nat \ S # {}
  OBVIOUS
<1>2. PICK m \in Nat \ S : \A k \in Nat \ S : m <= k
  BY <1>1, LeastNumber
<1>3. m - 1 \in Nat /\ m - 1 + 1 = m
  BY <1>2
<1>4. m - 1 \in S
  BY <1>2, <1>3
<1>5. QED
  BY <1>2, <1>3, <1>4

-----------------------------------------------------------------------------
\* The recursion of FlattenSeq has a solution, and FlattenSeq's value is its last.
LEMMA FlattenedUpTo ==
  ASSUME NEW seqs, Len(seqs) \in Nat \ {0}
  PROVE  \E f : /\ \A i \in 1 .. Len(seqs) : f[i] = IF i = 1 THEN seqs[i] ELSE f[i - 1] \o seqs[i]
                /\ FlattenSeq(seqs) = f[Len(seqs)]
<1> DEFINE Solves(f, n) == f = [i \in 1 .. n |-> IF i = 1 THEN seqs[i] ELSE f[i - 1] \o seqs[i]]
           S == { n \in Nat : \E f : Solves(f, n) }
<1>1. 0 \in S
  <2>1. Solves([i \in 1 .. 0 |-> i], 0)
    OBVIOUS
  <2>2. QED
    BY <2>1
<1>2. ASSUME NEW n \in Nat, n \in S PROVE n + 1 \in S
  <2>1. PICK f : Solves(f, n)
    BY <1>2
  <2> DEFINE last == IF n = 0 THEN seqs[1] ELSE f[n] \o seqs[n + 1]
             g == [i \in 1 .. n + 1 |-> IF i = n + 1 THEN last ELSE f[i]]
  <2>2. ASSUME NEW i \in 1 .. n + 1
        PROVE  g[i] = IF i = 1 THEN seqs[i] ELSE g[i - 1] \o seqs[i]
    <3>1. CASE i = n + 1
      <4>1. g[i] = last
        BY <3>1
      <4>2. i # 1 => g[i - 1] = f[n] /\ i = n + 1 /\ n # 0
        BY <3>1
      <4>3. i = 1 => n = 0
        BY <3>1
      <4> HIDE DEF g
      <4>4. QED
        BY <3>1, <4>1, <4>2, <4>3
    <3>2. CASE i # n + 1
      <4>1. i \in 1 .. n /\ g[i] = f[i] /\ (i # 1 => g[i - 1] = f[i - 1])
        BY <3>2
      <4>2. f[i] = IF i = 1 THEN seqs[i] ELSE f[i - 1] \o seqs[i]
        BY <2>1, <4>1
      <4> HIDE DEF g
      <4>3. QED
        BY <4>1, <4>2
    <3>3. QED
      BY <3>1, <3>2
  <2>3. g = [i \in 1 .. n + 1 |-> g[i]]
    OBVIOUS
  <2> HIDE DEF g
  <2>4. Solves(g, n + 1)
    BY <2>2, <2>3
  <2> HIDE DEF Solves
  <2>5. \E h : Solves(h, n + 1)
    BY <2>4, Zenon
  <2>6. QED
    BY <2>5
<1> HIDE DEF S
<1>3. Len(seqs) \in S
  <2>1. \A n \in Nat : n \in S => n + 1 \in S
    BY <1>2
  <2>2. QED
    BY <1>1, <2>1, NumbersByInduction
<1>4. PICK f : Solves(f, Len(seqs))
  BY <1>3 DEF S
<1> DEFINE flatten[i \in 1 .. Len(seqs)] == IF i = 1 THEN seqs[i] ELSE flatten[i - 1] \o seqs[i]
<1>5. Solves(flatten, Len(seqs))
  BY <1>4
<1>6. FlattenSeq(seqs) = flatten[Len(seqs)]
  BY DEF FlattenSeq
<1> HIDE DEF flatten
<1>7. \A i \in 1 .. Len(seqs) : flatten[i] = IF i = 1 THEN seqs[i] ELSE flatten[i - 1] \o seqs[i]
  BY <1>5
<1>8. QED
  BY <1>6, <1>7, Zenon

\* Where the elements of a sequence's part are once the parts are put together.
InPlace(whole, ends, piece, k) ==
  /\ ends[k] \in Nat /\ ends[k - 1] \in Nat
  /\ ends[k] = ends[k - 1] + Len(piece)
  /\ ends[k] <= Len(whole)
  /\ \A j \in 1 .. Len(piece) : whole[ends[k - 1] + j] = piece[j]

\* FlattenSeq puts every part behind the one before it.
LEMMA FlattenedInPlace ==
  ASSUME NEW seqs \in Seq(Seq(Int)), Len(seqs) \in Nat \ {0}
  PROVE  /\ FlattenSeq(seqs) \in Seq(Int)
         /\ \E ends : /\ ends[0] = 0 /\ ends[Len(seqs)] = Len(FlattenSeq(seqs))
                      /\ \A k \in 1 .. Len(seqs) : InPlace(FlattenSeq(seqs), ends, seqs[k], k)
<1> DEFINE N == Len(seqs)
<1>0. N \in Nat \ {0}
  OBVIOUS
<1>1. \A k \in 1 .. N : seqs[k] \in Seq(Int) /\ Len(seqs[k]) \in Nat
  OBVIOUS
<1>2. PICK f : /\ \A i \in 1 .. N : f[i] = IF i = 1 THEN seqs[i] ELSE f[i - 1] \o seqs[i]
               /\ FlattenSeq(seqs) = f[N]
  BY FlattenedUpTo
<1> HIDE DEF N
<1>3. f[1] = seqs[1] /\ \A i \in 1 .. N : i + 1 <= N => f[i + 1] = f[i] \o seqs[i + 1]
  <2>1. f[1] = seqs[1]
    BY <1>0, <1>2
  <2>2. ASSUME NEW i \in 1 .. N, i + 1 <= N PROVE f[i + 1] = f[i] \o seqs[i + 1]
    <3>1. PICK k \in Nat : k = i + 1
      BY <1>0
    <3>2. k \in 1 .. N /\ k # 1 /\ k - 1 = i
      BY <1>0, <2>2, <3>1
    <3>3. f[k] = f[k - 1] \o seqs[k]
      BY <1>2, <3>2
    <3>4. QED
      BY <3>1, <3>2, <3>3
  <2>3. QED
    BY <2>1, <2>2
<1> DEFINE ends == [k \in 0 .. N |-> IF k = 0 THEN 0 ELSE Len(f[k])]
           Good(n) == f[n] \in Seq(Int) /\ \A k \in 1 .. n : InPlace(f[n], ends, seqs[k], k)
           S == { n \in Nat : n + 1 <= N => Good(n + 1) }
<1>4. ends[0] = 0 /\ \A k \in 1 .. N : ends[k] = Len(f[k])
  BY <1>0
<1> HIDE DEF ends
<1>5. Good(1)
  <2>1. 1 \in 1 .. N
    BY <1>0
  <2>2. f[1] \in Seq(Int) /\ ends[1] = Len(f[1]) /\ Len(f[1]) \in Nat
    BY <1>1, <1>3, <1>4, <2>1
  <2>3. InPlace(f[1], ends, seqs[1], 1)
    <3>1. ends[1 - 1] = 0
      BY <1>4
    <3>2. ends[1] = Len(seqs[1])
      BY <1>3, <2>2
    <3>3. \A j \in 1 .. Len(seqs[1]) : f[1][0 + j] = seqs[1][j]
      BY <1>3
    <3>4. QED
      BY <2>2, <3>1, <3>2, <3>3 DEF InPlace
  <2>4. QED
    BY <2>2, <2>3
<1>6. ASSUME NEW n \in 1 .. N, n + 1 <= N, Good(n) PROVE Good(n + 1)
  <2>1. n \in Nat \ {0} /\ n + 1 \in 1 .. N /\ (n + 1) - 1 = n
    BY <1>0, <1>6
  <2>2. f[n] \in Seq(Int) /\ seqs[n + 1] \in Seq(Int) /\ f[n + 1] = f[n] \o seqs[n + 1]
    BY <1>1, <1>3, <1>6, <2>1
  <2> DEFINE a == f[n]
             b == seqs[n + 1]
  <2>3. /\ a \o b \in Seq(Int) /\ Len(a \o b) = Len(a) + Len(b)
        /\ Len(a) \in Nat /\ Len(b) \in Nat
        /\ \A j \in 1 .. Len(a) + Len(b) : (a \o b)[j] = IF j <= Len(a) THEN a[j] ELSE b[j - Len(a)]
    <3>1. a \in Seq(Int) /\ b \in Seq(Int)
      BY <2>2
    <3> HIDE DEF a, b
    <3>2. QED
      BY <3>1, ConcatProperties
  <2>4. /\ f[n + 1] \in Seq(Int) /\ Len(f[n + 1]) = Len(a) + Len(b)
        /\ Len(a) \in Nat /\ Len(b) \in Nat
        /\ \A j \in 1 .. Len(a) + Len(b) : f[n + 1][j] = IF j <= Len(a) THEN a[j] ELSE b[j - Len(a)]
    BY <2>2, <2>3
  <2>5. ends[n] = Len(a) /\ ends[n + 1] = Len(a) + Len(b)
    BY <1>4, <2>1, <2>4
  <2>6. ASSUME NEW k \in 1 .. n PROVE InPlace(f[n + 1], ends, seqs[k], k)
    <3>1. InPlace(a, ends, seqs[k], k)
      BY <1>6
    <3>2. /\ ends[k] \in Nat /\ ends[k - 1] \in Nat /\ ends[k] = ends[k - 1] + Len(seqs[k])
          /\ ends[k] <= Len(a) /\ \A j \in 1 .. Len(seqs[k]) : a[ends[k - 1] + j] = seqs[k][j]
      BY <3>1 DEF InPlace
    <3>3. ends[k] <= Len(f[n + 1])
      <4> HIDE DEF a, b
      <4>1. QED
        BY <2>4, <3>2
    <3>4. ASSUME NEW j \in 1 .. Len(seqs[k]) PROVE f[n + 1][ends[k - 1] + j] = seqs[k][j]
      <4> DEFINE e == ends[k - 1] + j
                 l == Len(seqs[k])
      <4>1. l \in Nat
        BY <1>1, <2>1
      <4>2. e \in 1 .. Len(a) + Len(b) /\ e <= Len(a)
        <5>1. ends[k - 1] \in Nat /\ ends[k] = ends[k - 1] + l /\ j \in 1 .. l /\ ends[k] <= Len(a)
              /\ Len(a) \in Nat /\ Len(b) \in Nat
          BY <2>4, <3>2
        <5> DEFINE p == ends[k - 1]
                   q == ends[k]
                   la == Len(a)
                   lb == Len(b)
        <5>2. p \in Nat /\ q = p + l /\ j \in 1 .. l /\ q <= la /\ la \in Nat /\ lb \in Nat
          BY <5>1
        <5> HIDE DEF l, p, q, la, lb
        <5>3. p + j \in 1 .. la + lb /\ p + j <= la
          BY <4>1, <5>2
        <5>4. QED
          BY <5>3 DEF p, la, lb
      <4>3. a[e] = seqs[k][j]
        BY <3>2
      <4> HIDE DEF e, a, b
      <4>4. f[n + 1][e] = seqs[k][j]
        BY <2>4, <4>2, <4>3
      <4>5. QED
        BY <4>4 DEF e
    <3>5. QED
      BY <3>2, <3>3, <3>4 DEF InPlace
  <2>7. InPlace(f[n + 1], ends, b, n + 1)
    <3>1. ASSUME NEW j \in 1 .. Len(b) PROVE f[n + 1][Len(a) + j] = b[j]
      <4> HIDE DEF a, b
      <4>1. Len(a) + j \in 1 .. Len(a) + Len(b) /\ ~(Len(a) + j <= Len(a)) /\ (Len(a) + j) - Len(a) = j
        BY <2>4
      <4>2. QED
        BY <2>4, <4>1
    <3> HIDE DEF a, b
    <3>2. ends[(n + 1) - 1] = Len(a)
      BY <2>1, <2>5
    <3>3. QED
      BY <2>4, <2>5, <3>1, <3>2 DEF InPlace
  <2>8. \A k \in 1 .. n + 1 : k \in 1 .. n \/ k = n + 1
    BY <2>1
  <2>9. QED
    BY <2>4, <2>6, <2>7, <2>8
<1> HIDE DEF Good
<1>7. N - 1 \in S
  <2>1. 0 \in S
    BY <1>5
  <2>2. ASSUME NEW n \in Nat, n \in S PROVE n + 1 \in S
    <3>1. CASE n + 1 + 1 <= N
      <4>1. n + 1 \in 1 .. N /\ Good(n + 1)
        BY <1>0, <2>2, <3>1
      <4>2. QED
        BY <1>6, <3>1, <4>1
    <3>2. CASE ~(n + 1 + 1 <= N)
      BY <3>2
    <3>3. QED
      BY <3>1, <3>2
  <2> HIDE DEF S
  <2>3. Nat \subseteq S
    BY <2>1, <2>2, NumbersByInduction
  <2>4. QED
    BY <1>0, <2>3
<1>8. Good(N)
  BY <1>0, <1>7
<1>9. N \in 1 .. N
  BY <1>0
<1>10. QED
  BY <1>2, <1>4, <1>8, <1>9 DEF Good, N

\* The recursion of the walk over lengths has a solution, and Parsed's value is its first.
LEMMA ParsedFromTheEnd ==
  ASSUME NEW avcc, Len(avcc) \in Nat, \A i \in 1 .. Len(avcc) : avcc[i] \in Int
  PROVE  \E From :
           /\ \A i \in 1 .. Len(avcc) + 1 :
                From[i] = IF i > Len(avcc) THEN << >>
                          ELSE LET n == avcc[i] IN
                               IF n <= 0 \/ i + n > Len(avcc) THEN << >>
                               ELSE <<SubSeq(avcc, i + 1, i + n)>> \o From[i + n + 1]
           /\ Parsed(avcc) = From[1]
<1> DEFINE L == Len(avcc)
           Walk(f, i) == IF i > L THEN << >>
                         ELSE LET n == avcc[i] IN
                              IF n <= 0 \/ i + n > L THEN << >>
                              ELSE <<SubSeq(avcc, i + 1, i + n)>> \o f[i + n + 1]
           Solves(f, m) == f = [i \in L + 1 - m .. L + 1 |-> Walk(f, i)]
           S == { m \in Nat : m <= L => \E f : Solves(f, m) }
<1>0. L \in Nat
  OBVIOUS
<1> HIDE DEF L
<1>1. 0 \in S
  <2> DEFINE f == [i \in L + 1 - 0 .. L + 1 |-> << >>]
  <2>1. \A i \in L + 1 - 0 .. L + 1 : Walk(f, i) = << >>
    BY <1>0
  <2> HIDE DEF Walk
  <2>2. Solves(f, 0)
    BY <2>1
  <2> HIDE DEF f, Solves
  <2>3. \E h : Solves(h, 0)
    BY <2>2, Zenon
  <2>4. QED
    BY <2>3
<1>2. ASSUME NEW m \in Nat, m \in S PROVE m + 1 \in S
  <2>1. SUFFICES ASSUME m + 1 <= L PROVE \E h : Solves(h, m + 1)
    <3> HIDE DEF Solves
    <3>1. QED
      OBVIOUS
  <2>2. PICK f : Solves(f, m)
    <3>1. m <= L
      BY <1>0, <2>1
    <3> HIDE DEF Solves
    <3>2. QED
      BY <1>2, <3>1
  <2>3. PICK first \in Nat \ {0} : first = L - m /\ first <= L
    BY <1>0, <2>1
  <2>4. L + 1 - m = first + 1 /\ L + 1 - (m + 1) = first
    BY <1>0, <2>3
  <2> DEFINE g == [i \in first .. L + 1 |-> IF i = first THEN Walk(f, first) ELSE f[i]]
  <2>5. \A i \in first + 1 .. L + 1 : f[i] = Walk(f, i) /\ g[i] = f[i] /\ i # first
    <3>1. f = [i \in first + 1 .. L + 1 |-> Walk(f, i)]
      BY <2>2, <2>4
    <3>2. \A i \in first + 1 .. L + 1 : i \in first .. L + 1 /\ i # first
      BY <1>0, <2>3
    <3> HIDE DEF Walk
    <3>3. \A i \in first + 1 .. L + 1 : f[i] = Walk(f, i)
      BY <3>1, Zenon
    <3>4. QED
      BY <3>2, <3>3
  <2>6. g[first] = Walk(f, first)
    <3>1. first \in first .. L + 1
      BY <1>0, <2>3
    <3> HIDE DEF Walk
    <3>2. QED
      BY <3>1
  <2>7. ASSUME NEW i \in first .. L + 1 PROVE Walk(f, i) = Walk(g, i)
    <3> HIDE DEF g
    <3>1. i \in Nat \ {0} /\ L \in Nat
      BY <1>0, <2>3
    <3>2. CASE i > L
      BY <3>2
    <3>3. CASE ~(i > L) /\ (avcc[i] <= 0 \/ i + avcc[i] > L)
      BY <3>3
    <3>4. CASE ~(i > L) /\ ~(avcc[i] <= 0 \/ i + avcc[i] > L)
      <4>1. avcc[i] \in Int
        BY <3>1, <3>4 DEF L
      <4>2. PICK k \in Nat : k = i + avcc[i] + 1
        BY <3>1, <3>4, <4>1
      <4>3. k \in first + 1 .. L + 1
        BY <1>0, <2>3, <3>1, <3>4, <4>1, <4>2
      <4>4. f[k] = g[k]
        BY <2>5, <4>3
      <4>5. QED
        BY <3>4, <4>2, <4>4
    <3>5. QED
      BY <3>2, <3>3, <3>4
  <2> HIDE DEF Walk
  <2>8. \A i \in first .. L + 1 : g[i] = Walk(g, i)
    <3>1. ASSUME NEW i \in first .. L + 1 PROVE g[i] = Walk(f, i)
      <4>1. i = first \/ i \in first + 1 .. L + 1
        BY <1>0, <2>3
      <4>2. QED
        BY <2>5, <2>6, <4>1
    <3> HIDE DEF g
    <3>2. QED
      BY <2>7, <3>1
  <2>9. g = [i \in first .. L + 1 |-> g[i]]
    OBVIOUS
  <2> HIDE DEF g
  <2>10. g = [i \in first .. L + 1 |-> Walk(g, i)]
    BY <2>8, <2>9
  <2>11. Solves(g, m + 1)
    BY <2>4, <2>10
  <2> HIDE DEF Solves
  <2>12. QED
    BY <2>11, Zenon
<1> HIDE DEF Walk
<1>3. PICK h : Solves(h, L)
  <2> HIDE DEF Solves
  <2>1. Nat \subseteq S
    <3> HIDE DEF S
    <3>1. QED
      BY <1>1, <1>2, NumbersByInduction
  <2>2. L \in S
    BY <1>0, <2>1
  <2>3. QED
    BY <1>0, <2>2
<1>4. h = [i \in 1 .. L + 1 |-> Walk(h, i)]
  <2>1. L + 1 - L = 1
    BY <1>0
  <2>2. QED
    BY <1>3, <2>1
<1> DEFINE From[i \in 1 .. Len(avcc) + 1] ==
             IF i > Len(avcc) THEN << >>
             ELSE LET n == avcc[i] IN
                  IF n <= 0 \/ i + n > Len(avcc) THEN << >>
                  ELSE <<SubSeq(avcc, i + 1, i + n)>> \o From[i + n + 1]
<1>5. From = [i \in 1 .. L + 1 |-> Walk(From, i)]
  BY <1>4 DEF Walk, L
<1>6. Parsed(avcc) = From[1]
  BY DEF Parsed
<1> HIDE DEF From
<1>7. \A i \in 1 .. Len(avcc) + 1 : From[i] = Walk(From, i)
  BY <1>5, Zenon DEF L
<1>8. QED
  BY <1>6, <1>7 DEF Walk, L

\* The packet of units none of which is empty: each after its length, one behind the other.
LEMMA PacketLayout ==
  ASSUME NEW units \in Seq(Seq(Int)), Len(units) # 0, \A k \in DOMAIN units : units[k] # << >>
  PROVE  /\ Prefixed(units) \in Seq(Int)
         /\ \E ends :
              /\ ends[0] = 0 /\ ends[Len(units)] = Len(Prefixed(units))
              /\ \A k \in 1 .. Len(units) :
                   /\ Len(units[k]) \in Nat \ {0}
                   /\ ends[k - 1] \in Nat /\ ends[k] = ends[k - 1] + 1 + Len(units[k])
                   /\ ends[k] <= Len(Prefixed(units))
                   /\ Prefixed(units)[ends[k - 1] + 1] = Len(units[k])
                   /\ SubSeq(Prefixed(units), ends[k - 1] + 2, ends[k]) = units[k]
<1> DEFINE N == Len(units)
           parts == [k \in DOMAIN units |->
                       IF units[k] = << >> THEN << >> ELSE <<Len(units[k])>> \o units[k]]
           packet == Prefixed(units)
<1>1. N \in Nat \ {0} /\ DOMAIN units = 1 .. N
  OBVIOUS
<1>2. ASSUME NEW k \in 1 .. N
      PROVE  /\ units[k] \in Seq(Int) /\ Len(units[k]) \in Nat \ {0}
             /\ parts[k] = <<Len(units[k])>> \o units[k]
  <2>1. units[k] \in Seq(Int) /\ units[k] # << >>
    OBVIOUS
  <2>2. Len(units[k]) \in Nat \ {0}
    BY <2>1, EmptySeq
  <2>3. parts[k] = <<Len(units[k])>> \o units[k]
    BY <2>1
  <2>4. QED
    BY <2>1, <2>2, <2>3
<1>3. DOMAIN parts = 1 .. N
  BY <1>1
<1>4. packet = FlattenSeq(parts)
  BY DEF Prefixed
<1>a. parts = [k \in 1 .. N |-> parts[k]]
  BY <1>1
<1> HIDE DEF N, parts, packet
<1>5. ASSUME NEW k \in 1 .. N
      PROVE  /\ parts[k] \in Seq(Int) /\ Len(parts[k]) = 1 + Len(units[k])
             /\ parts[k][1] = Len(units[k])
             /\ \A j \in 1 .. Len(units[k]) : parts[k][1 + j] = units[k][j]
  <2> DEFINE l == Len(units[k])
             head == <<l>>
             unit == units[k]
  <2>1. l \in Nat \ {0} /\ unit \in Seq(Int) /\ parts[k] = head \o unit
    BY <1>2
  <2>2. head \in Seq(Int) /\ Len(head) = 1 /\ head[1] = l
    BY <2>1
  <2> HIDE DEF head, unit
  <2>3. /\ head \o unit \in Seq(Int) /\ Len(head \o unit) = Len(head) + Len(unit)
        /\ \A j \in 1 .. Len(head) + Len(unit) :
             (head \o unit)[j] = IF j <= Len(head) THEN head[j] ELSE unit[j - Len(head)]
    BY <2>1, <2>2, ConcatProperties
  <2>4. parts[k] \in Seq(Int) /\ Len(parts[k]) = 1 + l
        /\ \A j \in 1 .. 1 + l : parts[k][j] = IF j <= 1 THEN head[j] ELSE unit[j - 1]
    BY <2>1, <2>2, <2>3 DEF unit
  <2> HIDE DEF l
  <2>5. parts[k][1] = l
    <3>1. 1 \in 1 .. 1 + l /\ 1 <= 1
      BY <2>1
    <3>2. parts[k][1] = head[1]
      BY <2>4, <3>1
    <3>3. QED
      BY <2>2, <3>2
  <2>6. ASSUME NEW j \in 1 .. l PROVE parts[k][1 + j] = unit[j]
    <3>1. 1 + j \in 1 .. 1 + l /\ ~(1 + j <= 1) /\ (1 + j) - 1 = j
      BY <2>1
    <3>2. QED
      BY <2>4, <3>1
  <2>7. QED
    BY <2>4, <2>5, <2>6 DEF l, unit
<1>6. parts \in Seq(Seq(Int)) /\ Len(parts) = N
  <2>1. \A k \in 1 .. N : parts[k] \in Seq(Int)
    BY <1>5
  <2>2. parts \in [1 .. N -> Seq(Int)] /\ N \in Nat
    BY <1>1, <1>a, <2>1
  <2>3. parts \in Seq(Seq(Int))
    BY <2>2
  <2>4. Len(parts) = N
    BY <2>2
  <2>5. QED
    BY <2>3, <2>4
<1>7. /\ packet \in Seq(Int)
      /\ \E ends : /\ ends[0] = 0 /\ ends[N] = Len(packet)
                   /\ \A k \in 1 .. N : InPlace(packet, ends, parts[k], k)
  BY <1>1, <1>4, <1>6, FlattenedInPlace
<1>8. PICK ends : /\ ends[0] = 0 /\ ends[N] = Len(packet)
                  /\ \A k \in 1 .. N : InPlace(packet, ends, parts[k], k)
  BY <1>7
<1>9. ASSUME NEW k \in 1 .. N
      PROVE  /\ Len(units[k]) \in Nat \ {0}
             /\ ends[k - 1] \in Nat /\ ends[k] = ends[k - 1] + 1 + Len(units[k])
             /\ ends[k] <= Len(packet)
             /\ packet[ends[k - 1] + 1] = Len(units[k])
             /\ SubSeq(packet, ends[k - 1] + 2, ends[k]) = units[k]
  <2> DEFINE p == ends[k - 1]
             q == ends[k]
             l == Len(units[k])
             unit == units[k]
             piece == parts[k]
  <2>1. p \in Nat /\ q \in Nat /\ q = p + Len(piece) /\ q <= Len(packet)
        /\ \A j \in 1 .. Len(piece) : packet[p + j] = piece[j]
    BY <1>8 DEF InPlace
  <2>2. l \in Nat \ {0} /\ Len(piece) = 1 + l /\ piece[1] = l
        /\ \A j \in 1 .. l : piece[1 + j] = unit[j]
    BY <1>2, <1>5
  <2>3. unit \in Seq(Int) /\ Len(unit) = l
    BY <1>2
  <2> HIDE DEF p, q, l, unit, piece
  <2>4. q = p + 1 + l /\ 1 \in 1 .. 1 + l
    BY <2>1, <2>2
  <2>5. packet[p + 1] = l
    BY <2>1, <2>2, <2>4
  <2>6. ASSUME NEW j \in 1 .. l PROVE packet[p + 2 + j - 1] = unit[j]
    <3>1. 1 + j \in 1 .. 1 + l /\ p + (1 + j) = p + 2 + j - 1
      <4>1. p \in Nat /\ l \in Nat
        BY <2>1, <2>2
      <4>2. QED
        BY <4>1
    <3>2. packet[p + (1 + j)] = piece[1 + j]
      BY <2>1, <2>2, <3>1
    <3>3. QED
      BY <2>2, <3>1, <3>2
  <2> DEFINE slice == SubSeq(packet, p + 2, q)
  <2>7. PICK from \in Nat \ {0} : from = p + 2
    BY <2>1
  <2>8. from <= q /\ q - from + 1 = l
    BY <2>1, <2>2, <2>4, <2>7
  <2>9. /\ SubSeq(packet, from, q) \in Seq(Int)
        /\ Len(SubSeq(packet, from, q)) = IF from <= q THEN q - from + 1 ELSE 0
        /\ \A i \in 1 .. q - from + 1 : SubSeq(packet, from, q)[i] = packet[from + i - 1]
    <3>1. from \in Int /\ q \in Int /\ \A i \in from .. q : packet[i] \in Int
      BY <1>7, <2>1, <2>7
    <3>2. QED
      BY <3>1, SubSeqProperties
  <2>10. slice \in Seq(Int) /\ Len(slice) = l /\ \A j \in 1 .. l : slice[j] = unit[j]
    BY <2>6, <2>7, <2>8, <2>9
  <2> HIDE DEF slice
  <2>11. slice = unit
    BY <2>3, <2>10, SeqEqual
  <2>12. QED
    BY <2>1, <2>2, <2>4, <2>5, <2>11 DEF p, q, l, unit, slice
<1>10. QED
  BY <1>7, <1>8, <1>9 DEF N, packet

\* Whatever the units are, how long and how many: if none is empty, the walk over the
\* lengths takes out of their packet exactly the units that went in, in their order
\* (pack.go:38-61; enc_x264.c:86-125; preview-stream.ts:8-59).
THEOREM ParsedUndoesPrefixed ==
  ASSUME NEW units \in Seq(Seq(Int)), \A k \in DOMAIN units : units[k] # << >>
  PROVE  Parsed(Prefixed(units)) = units
<1> DEFINE N == Len(units)
           packet == Prefixed(units)
<1>1. CASE N = 0
  <2>1. units = << >> /\ DOMAIN units = {}
    BY <1>1
  <2>2. packet = << >>
    <3>1. packet = FlattenSeq(<< >>)
      BY <2>1 DEF Prefixed
    <3>2. QED
      BY <3>1 DEF FlattenSeq
  <2>3. Parsed(<< >>) = << >>
    <3>1. Len(<< >>) = 0 /\ \A i \in 1 .. Len(<< >>) : << >>[i] \in Int
      OBVIOUS
    <3>2. PICK From :
            /\ \A i \in 1 .. Len(<< >>) + 1 :
                 From[i] = IF i > Len(<< >>) THEN << >>
                           ELSE LET n == << >>[i] IN
                                IF n <= 0 \/ i + n > Len(<< >>) THEN << >>
                                ELSE <<SubSeq(<< >>, i + 1, i + n)>> \o From[i + n + 1]
            /\ Parsed(<< >>) = From[1]
      BY <3>1, ParsedFromTheEnd
    <3>3. 1 \in 1 .. Len(<< >>) + 1 /\ 1 > Len(<< >>)
      BY <3>1
    <3>4. From[1] = << >>
      BY <3>2, <3>3
    <3>5. QED
      BY <3>2, <3>4
  <2>4. QED
    BY <2>1, <2>2, <2>3
<1>2. CASE N # 0
  <2>1. /\ packet \in Seq(Int)
        /\ \E ends :
             /\ ends[0] = 0 /\ ends[N] = Len(packet)
             /\ \A k \in 1 .. N :
                  /\ Len(units[k]) \in Nat \ {0}
                  /\ ends[k - 1] \in Nat /\ ends[k] = ends[k - 1] + 1 + Len(units[k])
                  /\ ends[k] <= Len(packet)
                  /\ packet[ends[k - 1] + 1] = Len(units[k])
                  /\ SubSeq(packet, ends[k - 1] + 2, ends[k]) = units[k]
    BY <1>2, PacketLayout
  <2>2. N \in Nat \ {0}
    BY <1>2
  <2> HIDE DEF packet, N
  <2>3. PICK ends :
          /\ ends[0] = 0 /\ ends[N] = Len(packet)
          /\ \A k \in 1 .. N :
               /\ Len(units[k]) \in Nat \ {0}
               /\ ends[k - 1] \in Nat /\ ends[k] = ends[k - 1] + 1 + Len(units[k])
               /\ ends[k] <= Len(packet)
               /\ packet[ends[k - 1] + 1] = Len(units[k])
               /\ SubSeq(packet, ends[k - 1] + 2, ends[k]) = units[k]
    BY <2>1
  <2>4. Len(packet) \in Nat /\ \A i \in 1 .. Len(packet) : packet[i] \in Int
    BY <2>1
  <2>5. PICK From :
          /\ \A i \in 1 .. Len(packet) + 1 :
               From[i] = IF i > Len(packet) THEN << >>
                         ELSE LET n == packet[i] IN
                              IF n <= 0 \/ i + n > Len(packet) THEN << >>
                              ELSE <<SubSeq(packet, i + 1, i + n)>> \o From[i + n + 1]
          /\ Parsed(packet) = From[1]
    BY <2>4, ParsedFromTheEnd
  <2> DEFINE Rest(k) == From[ends[k] + 1] = SubSeq(units, k + 1, N)
             S == { m \in Nat : m <= N => Rest(N - m) }
  <2>6. Rest(N)
    <3>1. ends[N] + 1 \in 1 .. Len(packet) + 1 /\ ends[N] + 1 > Len(packet)
      BY <2>3, <2>4
    <3>2. From[ends[N] + 1] = << >>
      BY <2>5, <3>1
    <3>3. SubSeq(units, N + 1, N) = << >>
      BY <2>2, SubSeqEmpty
    <3>4. QED
      BY <3>2, <3>3
  <2>7. ASSUME NEW k \in 1 .. N, Rest(k) PROVE Rest(k - 1)
    <3> DEFINE p == ends[k - 1]
               q == ends[k]
               l == Len(units[k])
    <3>1. l \in Nat \ {0} /\ p \in Nat /\ q = p + 1 + l /\ q <= Len(packet)
          /\ packet[p + 1] = l /\ SubSeq(packet, p + 2, q) = units[k]
      BY <2>3
    <3> HIDE DEF p, q, l
    <3>a. p \in Nat
      BY <3>1
    <3>2. PICK i \in Nat : i = p + 1
      BY <3>a
    <3>3. i \in 1 .. Len(packet) + 1 /\ ~(i > Len(packet)) /\ packet[i] = l
          /\ ~(l <= 0 \/ i + l > Len(packet)) /\ i + 1 = p + 2 /\ i + l = q
      BY <2>4, <3>1, <3>2
    <3>4. From[i] = <<SubSeq(packet, i + 1, i + l)>> \o From[i + l + 1]
      BY <2>5, <3>3
    <3>5. From[i] = <<units[k]>> \o From[q + 1]
      BY <3>1, <3>3, <3>4
    <3>6. From[q + 1] = SubSeq(units, k + 1, N)
      BY <2>7 DEF q
    <3>7. SubSeq(units, k, N) = <<units[k]>> \o SubSeq(units, k + 1, N)
      <4>1. k \in 1 .. Len(units) /\ N \in k .. Len(units)
        BY <2>2 DEF N
      <4>2. QED
        BY <4>1, SubSeqRecursiveFirst
    <3>8. From[p + 1] = SubSeq(units, k, N)
      BY <3>2, <3>5, <3>6, <3>7
    <3>9. (k - 1) + 1 = k
      BY <2>2
    <3>10. QED
      BY <3>8, <3>9 DEF p
  <2> HIDE DEF Rest
  <2>8. N \in S
    <3>1. 0 \in S
      <4>1. N - 0 = N
        BY <2>2
      <4>2. QED
        BY <2>6, <4>1
    <3>2. ASSUME NEW m \in Nat, m \in S PROVE m + 1 \in S
      <4>1. SUFFICES ASSUME m + 1 <= N PROVE Rest(N - (m + 1))
        OBVIOUS
      <4>2. PICK k \in Nat : k = N - m
        BY <2>2, <4>1
      <4>3. k \in 1 .. N /\ k - 1 = N - (m + 1) /\ m <= N
        BY <2>2, <4>1, <4>2
      <4>4. Rest(k)
        BY <3>2, <4>2, <4>3
      <4>5. Rest(k - 1)
        BY <2>7, <4>3, <4>4
      <4>6. QED
        BY <4>3, <4>5
    <3> HIDE DEF S
    <3>3. Nat \subseteq S
      BY <3>1, <3>2, NumbersByInduction
    <3>4. QED
      BY <2>2, <3>3
  <2>9. Rest(0)
    <3>1. N <= N /\ N - N = 0
      BY <2>2
    <3>2. QED
      BY <2>8, <3>1
  <2>10. From[1] = SubSeq(units, 1, N)
    <3>1. ends[0] + 1 = 1 /\ 0 + 1 = 1
      BY <2>3
    <3>2. QED
      BY <2>9, <3>1 DEF Rest
  <2>11. SubSeq(units, 1, N) = units
    BY SubSeqFull DEF N
  <2>12. QED
    BY <2>5, <2>10, <2>11 DEF packet
<1>3. QED
  BY <1>1, <1>2

-----------------------------------------------------------------------------

\* The length of a start code as an encoder writes it.
CodeLength(long) == IF long THEN 4 ELSE 3

\* What a slice of the data is.
LEMMA SliceOfData ==
  ASSUME NEW data \in Seq(Int), NEW from \in Nat \ {0}, NEW to \in Nat, to <= Len(data)
  PROVE  /\ SubSeq(data, from, to) \in Seq(Int)
         /\ Len(SubSeq(data, from, to)) = IF from <= to THEN to - from + 1 ELSE 0
         /\ \A i \in 1 .. to - from + 1 : SubSeq(data, from, to)[i] = data[from + i - 1]
<1>1. from \in Int /\ to \in Int /\ \A i \in from .. to : data[i] \in Int
  OBVIOUS
<1>2. QED
  BY <1>1, SubSeqProperties

\* A start code is where its bytes are.
LEMMA ShortCodeAt ==
  ASSUME NEW data \in Seq(Int), NEW i \in Nat \ {0}
  PROVE  At(data, i, <<0, 0, 1>>) <=>
           i + 3 <= Len(data) /\ data[i] = 0 /\ data[i + 1] = 0 /\ data[i + 2] = 1
<1> DEFINE s == SubSeq(data, i, i + 3 - 1)
<1>1. CASE i + 3 <= Len(data)
  <2>1. s \in Seq(Int) /\ Len(s) = 3 /\ s[1] = data[i] /\ s[2] = data[i + 1] /\ s[3] = data[i + 2]
    <3>1. PICK to \in Nat : to = i + 3 - 1
      OBVIOUS
    <3>2. i <= to /\ to <= Len(data) /\ to - i + 1 = 3
      BY <1>1, <3>1
    <3>3. /\ SubSeq(data, i, to) \in Seq(Int)
          /\ Len(SubSeq(data, i, to)) = IF i <= to THEN to - i + 1 ELSE 0
          /\ \A k \in 1 .. to - i + 1 : SubSeq(data, i, to)[k] = data[i + k - 1]
      BY <3>2, SliceOfData
    <3>4. s = SubSeq(data, i, to)
      BY <3>1
    <3>5. i + 1 - 1 = i /\ i + 2 - 1 = i + 1 /\ i + 3 - 1 = i + 2
      OBVIOUS
    <3> HIDE DEF s
    <3>6. QED
      BY <3>2, <3>3, <3>4, <3>5
  <2> HIDE DEF s
  <2>2. s = <<0, 0, 1>> <=> s[1] = 0 /\ s[2] = 0 /\ s[3] = 1
    BY <2>1
  <2>3. QED
    BY <1>1, <2>1, <2>2 DEF At, s
<1>2. CASE ~(i + 3 <= Len(data))
  BY <1>2 DEF At
<1>3. QED
  BY <1>1, <1>2

LEMMA LongCodeAt ==
  ASSUME NEW data \in Seq(Int), NEW i \in Nat \ {0}
  PROVE  At(data, i, <<0, 0, 0, 1>>) <=>
           i + 4 <= Len(data) /\ data[i] = 0 /\ data[i + 1] = 0 /\ data[i + 2] = 0 /\ data[i + 3] = 1
<1> DEFINE s == SubSeq(data, i, i + 4 - 1)
<1>1. CASE i + 4 <= Len(data)
  <2>1. s \in Seq(Int) /\ Len(s) = 4 /\ s[1] = data[i] /\ s[2] = data[i + 1] /\ s[3] = data[i + 2]
        /\ s[4] = data[i + 3]
    <3>1. PICK to \in Nat : to = i + 4 - 1
      OBVIOUS
    <3>2. i <= to /\ to <= Len(data) /\ to - i + 1 = 4
      BY <1>1, <3>1
    <3>3. /\ SubSeq(data, i, to) \in Seq(Int)
          /\ Len(SubSeq(data, i, to)) = IF i <= to THEN to - i + 1 ELSE 0
          /\ \A k \in 1 .. to - i + 1 : SubSeq(data, i, to)[k] = data[i + k - 1]
      BY <3>2, SliceOfData
    <3>4. s = SubSeq(data, i, to)
      BY <3>1
    <3>5. i + 1 - 1 = i /\ i + 2 - 1 = i + 1 /\ i + 3 - 1 = i + 2 /\ i + 4 - 1 = i + 3
      OBVIOUS
    <3> HIDE DEF s
    <3>6. QED
      BY <3>2, <3>3, <3>4, <3>5
  <2> HIDE DEF s
  <2>2. ASSUME s[1] = 0, s[2] = 0, s[3] = 0, s[4] = 1 PROVE s = <<0, 0, 0, 1>>
    <3>1. <<0, 0, 0, 1>> \in Seq(Int) /\ Len(<<0, 0, 0, 1>>) = 4
      OBVIOUS
    <3>2. \A k \in 1 .. 4 : s[k] = <<0, 0, 0, 1>>[k]
      BY <2>2
    <3>3. QED
      BY <2>1, <3>1, <3>2, SeqEqual
  <2>3. s = <<0, 0, 0, 1>> => s[1] = 0 /\ s[2] = 0 /\ s[3] = 0 /\ s[4] = 1
    OBVIOUS
  <2>4. QED
    BY <1>1, <2>1, <2>2, <2>3 DEF At, s
<1>2. CASE ~(i + 4 <= Len(data))
  BY <1>2 DEF At
<1>3. QED
  BY <1>1, <1>2

\* The data from from to to is a start code and a unit.
IsPiece(data, from, to, long, unit) ==
  /\ data \in Seq(Int) /\ from \in Nat \ {0} /\ to \in Nat /\ to <= Len(data)
  /\ long \in BOOLEAN /\ unit \in Seq(Int) /\ ProperUnit(unit)
  /\ SubSeq(data, from, to) = LongCode(long) \o unit

\* What lies in the data from from on: a start code, then unit.
LiesAt(data, from, long, unit) ==
  /\ \A j \in 1 .. Len(unit) : data[from + CodeLength(long) + j - 1] = unit[j]
  /\ data[from] = 0 /\ data[from + 1] = 0
  /\ long => data[from + 2] = 0 /\ data[from + 3] = 1
  /\ ~long => data[from + 2] = 1

\* Where a unit and the start code before it are in the data.
LEMMA PieceInData ==
  ASSUME NEW data, NEW from, NEW to, NEW long, NEW unit, IsPiece(data, from, to, long, unit)
  PROVE  /\ to + 1 = from + CodeLength(long) + Len(unit)
         /\ Len(unit) \in Nat \ {0}
         /\ LiesAt(data, from, long, unit)
<1>a. /\ data \in Seq(Int) /\ from \in Nat \ {0} /\ to \in Nat /\ to <= Len(data)
      /\ long \in BOOLEAN /\ unit \in Seq(Int) /\ ProperUnit(unit)
      /\ SubSeq(data, from, to) = LongCode(long) \o unit
  BY DEF IsPiece
<1> USE <1>a
<1> DEFINE code == LongCode(long)
           piece == code \o unit
           length == CodeLength(long)
<1>1. Len(unit) \in Nat \ {0}
  <2>1. unit # << >>
    BY DEF ProperUnit
  <2>2. QED
    BY <2>1
<1>2. code \in Seq(Int) /\ Len(code) = length /\ length \in {3, 4}
  BY DEF LongCode, CodeLength
<1>3. code[1] = 0 /\ code[2] = 0 /\ (long => code[3] = 0 /\ code[4] = 1) /\ (~long => code[3] = 1)
  BY DEF LongCode
<1> HIDE DEF code
<1> HIDE DEF length
<1>4. /\ piece \in Seq(Int) /\ Len(piece) = length + Len(unit)
      /\ \A j \in 1 .. length : piece[j] = code[j]
      /\ \A j \in 1 .. Len(unit) : piece[length + j] = unit[j]
  <2>1. piece \in Seq(Int) /\ Len(piece) = Len(code) + Len(unit)
    BY <1>2
  <2>2. \A j \in 1 .. Len(code) + Len(unit) :
          piece[j] = IF j <= Len(code) THEN code[j] ELSE unit[j - Len(code)]
    BY <1>2, ConcatProperties
  <2>3. \A j \in 1 .. length : piece[j] = code[j]
    BY <1>1, <1>2, <2>2
  <2>4. ASSUME NEW j \in 1 .. Len(unit) PROVE piece[length + j] = unit[j]
    <3>1. length + j \in 1 .. Len(code) + Len(unit) /\ ~(length + j <= Len(code)) /\ (length + j) - Len(code) = j
      BY <1>1, <1>2
    <3>2. QED
      BY <2>2, <3>1
  <2>5. QED
    BY <1>2, <2>1, <2>3, <2>4
<1> HIDE DEF piece
<1>5. SubSeq(data, from, to) = piece
  BY DEF piece, code
<1>6. Len(piece) = IF from <= to THEN to - from + 1 ELSE 0
  BY <1>5, SliceOfData
<1>7. to + 1 = from + length + Len(unit) /\ from <= to
  <2>1. length \in Nat \ {0} /\ Len(unit) \in Nat \ {0} /\ Len(piece) = length + Len(unit)
    BY <1>1, <1>2, <1>4
  <2> DEFINE m == Len(unit)
             n == Len(piece)
  <2>2. length \in Nat \ {0} /\ m \in Nat \ {0} /\ n = length + m /\ n = IF from <= to THEN to - from + 1 ELSE 0
    BY <1>6, <2>1
  <2> HIDE DEF m, n
  <2>3. to + 1 = from + length + m /\ from <= to
    BY <2>2
  <2>4. QED
    BY <2>3 DEF m
<1>8. \A j \in 1 .. length + Len(unit) : data[from + j - 1] = piece[j]
  <2>2. \A j \in 1 .. to - from + 1 : SubSeq(data, from, to)[j] = data[from + j - 1]
    BY SliceOfData
  <2>3. to - from + 1 = length + Len(unit)
    BY <1>1, <1>2, <1>7
  <2>4. QED
    BY <1>5, <2>2, <2>3
<1>9. ASSUME NEW j \in 1 .. Len(unit) PROVE data[from + length + j - 1] = unit[j]
  <2>1. length + j \in 1 .. length + Len(unit) /\ from + (length + j) - 1 = from + length + j - 1
    BY <1>1, <1>2
  <2>2. QED
    BY <1>4, <1>8, <2>1
<1>10. \A j \in 1 .. length : data[from + j - 1] = code[j]
  <2>1. \A j \in 1 .. length : j \in 1 .. length + Len(unit)
    BY <1>1, <1>2
  <2>2. QED
    BY <1>4, <1>8, <2>1
<1>11. data[from] = code[1] /\ data[from + 1] = code[2] /\ data[from + 2] = code[3]
  <2>1. 1 \in 1 .. length /\ 2 \in 1 .. length /\ 3 \in 1 .. length
    BY <1>2
  <2>2. data[from + 1 - 1] = code[1] /\ data[from + 2 - 1] = code[2] /\ data[from + 3 - 1] = code[3]
    BY <1>10, <2>1, Zenon
  <2>3. from + 1 - 1 = from /\ from + 2 - 1 = from + 1 /\ from + 3 - 1 = from + 2
    OBVIOUS
  <2>4. QED
    BY <2>2, <2>3
<1>12. long => data[from + 3] = code[4]
  BY <1>2, <1>10 DEF length, CodeLength
<1>13. QED
  BY <1>1, <1>3, <1>7, <1>9, <1>11, <1>12 DEF length, LiesAt

\* The start codes in a unit with its start code: that code, the end of a long one, and
\* none anywhere else, not even one that the next unit's code would complete.
LEMMA CodesOfPiece ==
  ASSUME NEW data, NEW from, NEW to, NEW long, NEW unit, IsPiece(data, from, to, long, unit)
  PROVE  /\ StartCode(data, from) = CodeLength(long)
         /\ long => StartCode(data, from + 1) = 3
         /\ \A i \in from + 1 .. to : (long /\ i = from + 1) \/ StartCode(data, i) = 0
         /\ from + CodeLength(long) <= to
         /\ SubSeq(data, from + CodeLength(long), to) = unit
<1>0. /\ to + 1 = from + CodeLength(long) + Len(unit)
      /\ Len(unit) \in Nat \ {0}
      /\ LiesAt(data, from, long, unit)
  BY PieceInData, Zenon
<1>a. /\ data \in Seq(Int) /\ from \in Nat \ {0} /\ to \in Nat /\ to <= Len(data)
      /\ long \in BOOLEAN /\ unit \in Seq(Int) /\ ProperUnit(unit)
      /\ SubSeq(data, from, to) = LongCode(long) \o unit
  BY DEF IsPiece
<1> USE <1>a
<1> DEFINE length == CodeLength(long)
           m == Len(unit)
<1>1. /\ to + 1 = from + length + m /\ m \in Nat \ {0}
      /\ \A j \in 1 .. m : data[from + length + j - 1] = unit[j]
      /\ data[from] = 0 /\ data[from + 1] = 0
      /\ long => data[from + 2] = 0 /\ data[from + 3] = 1
      /\ ~long => data[from + 2] = 1
  BY <1>0 DEF LiesAt
<1>2. length = (IF long THEN 4 ELSE 3) /\ length \in Nat
  BY DEF CodeLength
<1>3. unit[m] # 0 /\ \A j \in 1 .. m - 2 : ~(unit[j] = 0 /\ unit[j + 1] = 0 /\ unit[j + 2] <= 1)
  BY DEF ProperUnit
<1>4. \A j \in 1 .. m : unit[j] \in Int
  OBVIOUS
<1> HIDE DEF m, length
<1>5. StartCode(data, from) = length
  <2>1. CASE long
    <3>1. ~At(data, from, <<0, 0, 1>>)
      <4>1. data[from + 2] # 1
        BY <1>1, <2>1
      <4>2. QED
        BY <4>1, ShortCodeAt, Zenon
    <3>2. from + 4 <= Len(data)
      BY <1>1, <1>2, <2>1
    <3>3. At(data, from, <<0, 0, 0, 1>>)
      BY <1>1, <2>1, <3>2, LongCodeAt, Zenon
    <3>4. QED
      BY <1>2, <2>1, <3>1, <3>3 DEF StartCode
  <2>2. CASE ~long
    <3>1. from + 3 <= Len(data)
      BY <1>1, <1>2, <2>2
    <3>2. At(data, from, <<0, 0, 1>>)
      BY <1>1, <2>2, <3>1, ShortCodeAt, Zenon
    <3>3. ~At(data, from, <<0, 0, 0, 1>>)
      <4>1. data[from + 2] # 0
        BY <1>1, <2>2
      <4>2. QED
        BY <4>1, LongCodeAt, Zenon
    <3>4. QED
      BY <1>2, <2>2, <3>2, <3>3 DEF StartCode
  <2>3. QED
    BY <2>1, <2>2
<1>6. ASSUME long PROVE StartCode(data, from + 1) = 3
  <2>1. /\ from + 1 \in Nat \ {0} /\ (from + 1) + 3 <= Len(data)
        /\ (from + 1) + 1 = from + 2 /\ (from + 1) + 2 = from + 3
    BY <1>1, <1>2, <1>6
  <2>2. data[from + 1] = 0 /\ data[(from + 1) + 1] = 0 /\ data[(from + 1) + 2] = 1
    BY <1>1, <1>6, <2>1
  <2>3. At(data, from + 1, <<0, 0, 1>>)
    BY <2>1, <2>2, ShortCodeAt, Zenon
  <2>4. ~At(data, from + 1, <<0, 0, 0, 1>>)
    <3>1. data[(from + 1) + 2] # 0
      BY <2>2
    <3>2. QED
      BY <2>1, <3>1, LongCodeAt, Zenon
  <2>5. QED
    BY <2>3, <2>4 DEF StartCode
<1>7. ASSUME NEW i \in Nat \ {0}, data[i] # 0 \/ data[i + 1] # 0 \/ ~(data[i + 2] \in {0, 1})
      PROVE  StartCode(data, i) = 0
  <2>2. ~(data[i] = 0 /\ data[i + 1] = 0 /\ (data[i + 2] = 0 \/ data[i + 2] = 1))
    BY <1>7
  <2>3. ~At(data, i, <<0, 0, 1>>)
    BY <2>2, ShortCodeAt, Zenon
  <2>4. ~At(data, i, <<0, 0, 0, 1>>)
    BY <2>2, LongCodeAt, Zenon
  <2>5. QED
    BY <2>3, <2>4 DEF StartCode
<1>8. ASSUME NEW i \in from + 1 .. to, ~(long /\ i = from + 1), i < from + length
      PROVE  StartCode(data, i) = 0
  <2>1. CASE long
    <3>1. i \in Nat \ {0} /\ (i + 1 = from + 3 \/ i = from + 3)
      BY <1>2, <1>8, <2>1
    <3>2. data[i] # 0 \/ data[i + 1] # 0
      BY <1>1, <2>1, <3>1
    <3>3. QED
      BY <1>7, <3>1, <3>2
  <2>2. CASE ~long
    <3>1. i \in Nat \ {0} /\ (i + 1 = from + 2 \/ i = from + 2)
      BY <1>2, <1>8, <2>2
    <3>2. data[i] # 0 \/ data[i + 1] # 0
      BY <1>1, <2>2, <3>1
    <3>3. QED
      BY <1>7, <3>1, <3>2
  <2>3. QED
    BY <2>1, <2>2
<1>9. ASSUME NEW i \in from + 1 .. to, ~(i < from + length) PROVE StartCode(data, i) = 0
  <2> DEFINE j == i - (from + length) + 1
  <2>1. j \in 1 .. m /\ from + length + j - 1 = i /\ i \in Nat \ {0}
    <3>1. m \in Nat /\ length \in Nat /\ to + 1 = from + length + m
      BY <1>1, <1>2
    <3>2. QED
      BY <1>9, <3>1
  <2>2. /\ j + 1 <= m => from + length + (j + 1) - 1 = i + 1
        /\ j + 2 <= m => from + length + (j + 2) - 1 = i + 2
    <3>1. from \in Int /\ length \in Int /\ i \in Int
      BY <1>2
    <3>2. QED
      BY <3>1
  <2> HIDE DEF j
  <2>3. data[i] = unit[j]
    BY <1>1, <2>1
  <2>4. CASE j = m
    BY <1>3, <1>7, <2>1, <2>3, <2>4
  <2>5. CASE j + 1 = m
    <3>1. m \in 1 .. m /\ from + length + m - 1 = i + 1
      BY <1>1, <2>2, <2>5
    <3>2. data[i + 1] = unit[m]
      BY <1>1, <3>1
    <3>3. QED
      BY <1>3, <1>7, <2>1, <3>2
  <2>6. CASE j + 2 <= m
    <3>1. j \in 1 .. m - 2 /\ j + 1 \in 1 .. m /\ j + 2 \in 1 .. m
      BY <1>1, <2>1, <2>6
    <3>2. data[i + 1] = unit[j + 1] /\ data[i + 2] = unit[j + 2]
      <4>1. data[from + length + (j + 1) - 1] = unit[j + 1] /\ data[from + length + (j + 2) - 1] = unit[j + 2]
        BY <1>1, <3>1, Zenon
      <4>2. from + length + (j + 1) - 1 = i + 1 /\ from + length + (j + 2) - 1 = i + 2
        BY <1>1, <1>2, <2>1, <3>1
      <4>3. QED
        BY <4>1, <4>2
    <3>3. ~(unit[j] = 0 /\ unit[j + 1] = 0 /\ unit[j + 2] <= 1)
      BY <1>3, <3>1
    <3>4. unit[j] # 0 \/ unit[j + 1] # 0 \/ ~(unit[j + 2] \in {0, 1})
      BY <3>3
    <3>5. QED
      BY <1>7, <2>1, <2>3, <3>2, <3>4
  <2>7. QED
    BY <1>1, <2>1, <2>4, <2>5, <2>6
<1>10. from + length <= to /\ from + length \in Nat \ {0}
  BY <1>1, <1>2
<1>11. SubSeq(data, from + length, to) = unit
  <2> DEFINE slice == SubSeq(data, from + length, to)
  <2>1. /\ slice \in Seq(Int) /\ Len(slice) = to - (from + length) + 1
        /\ \A j \in 1 .. to - (from + length) + 1 : slice[j] = data[from + length + j - 1]
    BY <1>10, SliceOfData
  <2> HIDE DEF slice
  <2>2. Len(slice) = m /\ \A j \in 1 .. m : slice[j] = unit[j]
    <3>1. to - (from + length) + 1 = m
      BY <1>1, <1>2
    <3>2. QED
      BY <1>1, <2>1, <3>1
  <2>3. slice = unit
    BY <2>1, <2>2, SeqEqual DEF m
  <2>4. QED
    BY <2>3 DEF slice
<1>12. QED
  BY <1>5, <1>6, <1>8, <1>9, <1>10, <1>11 DEF length

\* The data is what an encoder made of units, one behind the other from at[1] on: each
\* piece is a start code and a unit, no two of them overlap, and nothing is between them.
LaidOut(data, at, long, units) ==
  /\ data \in Seq(Int) /\ units \in Seq(Seq(Int))
  /\ at \in Seq(Int) /\ Len(at) = Len(units) + 1
  /\ \A k \in 1 .. Len(units) : IsPiece(data, at[k], at[k + 1] - 1, long[k], units[k])
  /\ \A j, k \in 1 .. Len(units) : j < k => at[j + 1] <= at[k]
  /\ \A i \in 1 .. Len(data) : \E k \in 1 .. Len(units) : at[k] <= i /\ i <= at[k + 1] - 1

\* strip_start_code leaves the unit.
LEMMA StrippedPiece ==
  ASSUME NEW long \in BOOLEAN, NEW unit \in Seq(Int), ProperUnit(unit)
  PROVE  Stripped(LongCode(long) \o unit) = unit
<1> DEFINE nal == LongCode(long) \o unit
<1>1. nal \in Seq(Int) /\ 1 \in Nat \ {0} /\ Len(nal) \in Nat /\ Len(nal) <= Len(nal)
  BY DEF LongCode
<1>2. SubSeq(nal, 1, Len(nal)) = nal
  BY <1>1
<1>3. IsPiece(nal, 1, Len(nal), long, unit)
  BY <1>1, <1>2 DEF IsPiece
<1> HIDE DEF nal
<1>4. /\ 1 + CodeLength(long) <= Len(nal)
      /\ SubSeq(nal, 1 + CodeLength(long), Len(nal)) = unit
  BY <1>3, CodesOfPiece, Zenon
<1>5. LiesAt(nal, 1, long, unit)
  BY <1>3, PieceInData, Zenon
<1>6. ASSUME NEW code, code \in {<<0, 0, 0, 1>>, <<0, 0, 1>>}, BeginsWith(nal, code) PROVE nal[3] = code[3]
  <2>1. Len(code) \in {3, 4} /\ Len(code) <= Len(nal) /\ SubSeq(nal, 1, Len(code)) = code
    BY <1>6 DEF BeginsWith
  <2>2. \A i \in 1 .. Len(code) - 1 + 1 : SubSeq(nal, 1, Len(code))[i] = nal[1 + i - 1]
    BY <1>1, <2>1, SliceOfData
  <2>3. 3 \in 1 .. Len(code) - 1 + 1 /\ 1 + 3 - 1 = 3
    BY <2>1
  <2>4. QED
    BY <2>1, <2>2, <2>3
<1>7. <<0, 0, 0, 1>>[3] = 0 /\ <<0, 0, 1>>[3] = 1
  OBVIOUS
<1>8. CASE long
  <2>1. 1 + 4 <= Len(nal) /\ nal[1] = 0 /\ nal[1 + 1] = 0 /\ nal[1 + 2] = 0 /\ nal[1 + 3] = 1
    BY <1>4, <1>5, <1>8 DEF LiesAt, CodeLength
  <2>2. At(nal, 1, <<0, 0, 0, 1>>)
    BY <1>1, <2>1, LongCodeAt, Zenon
  <2>3. BeginsWith(nal, <<0, 0, 0, 1>>)
    BY <1>1, <2>1, <2>2 DEF At, BeginsWith
  <2>4. SubSeq(nal, 5, Len(nal)) = unit
    BY <1>4, <1>8 DEF CodeLength
  <2>5. ~BeginsWith(nal, <<0, 0, 1>>)
    BY <1>6, <1>7, <2>1
  <2>6. QED
    BY <2>3, <2>4, <2>5 DEF Stripped, nal
<1>9. CASE ~long
  <2>1. 1 + 3 <= Len(nal) /\ nal[1] = 0 /\ nal[1 + 1] = 0 /\ nal[1 + 2] = 1
    BY <1>4, <1>5, <1>9 DEF LiesAt, CodeLength
  <2>2. At(nal, 1, <<0, 0, 1>>)
    BY <1>1, <2>1, ShortCodeAt, Zenon
  <2>3. BeginsWith(nal, <<0, 0, 1>>)
    BY <1>1, <2>1, <2>2 DEF At, BeginsWith
  <2>4. ~BeginsWith(nal, <<0, 0, 0, 1>>)
    BY <1>6, <1>7, <2>1
  <2>5. SubSeq(nal, 4, Len(nal)) = unit
    BY <1>4, <1>9 DEF CodeLength
  <2>6. QED
    BY <2>3, <2>4, <2>5 DEF Stripped, nal
<1>10. QED
  BY <1>8, <1>9

\* Whatever the units are, how many there are and which start codes they have, the codes
\* AnnexBToAVCC comes upon are the encoder's, and what it takes from each to the next
\* is the unit, which is also what strip_start_code leaves of it (pack.go:14-61;
\* enc_x264.c:28-41).
THEOREM CodesAreTheEncoders ==
  ASSUME NEW data, NEW at, NEW long, NEW units, LaidOut(data, at, long, units)
  PROVE  /\ CodePositions(data) = { at[k] : k \in 1 .. Len(units) }
         /\ \A k \in 1 .. Len(units) :
              /\ SubSeq(data, at[k] + StartCode(data, at[k]), at[k + 1] - 1) = units[k]
              /\ Stripped(LongCode(long[k]) \o units[k]) = units[k]
<1> DEFINE N == Len(units)
<1>1. /\ data \in Seq(Int) /\ units \in Seq(Seq(Int))
      /\ at \in Seq(Int) /\ Len(at) = N + 1
      /\ \A k \in 1 .. N : IsPiece(data, at[k], at[k + 1] - 1, long[k], units[k])
      /\ \A j, k \in 1 .. N : j < k => at[j + 1] <= at[k]
      /\ \A i \in 1 .. Len(data) : \E k \in 1 .. N : at[k] <= i /\ i <= at[k + 1] - 1
  BY DEF LaidOut
<1>2. N \in Nat /\ Len(data) \in Nat
  BY <1>1
<1> HIDE DEF N
<1>3. ASSUME NEW k \in 1 .. N
      PROVE  /\ at[k] \in Nat \ {0} /\ at[k + 1] - 1 \in Nat /\ at[k + 1] - 1 <= Len(data)
             /\ long[k] \in BOOLEAN /\ units[k] \in Seq(Int) /\ ProperUnit(units[k])
             /\ at[k + 1] \in Int
  <2>1. k + 1 \in 1 .. Len(at)
    BY <1>1, <1>2
  <2>2. at[k + 1] \in Int
    BY <1>1, <2>1
  <2>3. QED
    BY <1>1, <2>2 DEF IsPiece
<1>4. ASSUME NEW k \in 1 .. N
      PROVE  /\ StartCode(data, at[k]) = CodeLength(long[k])
             /\ long[k] => StartCode(data, at[k] + 1) = 3
             /\ \A i \in at[k] + 1 .. at[k + 1] - 1 : (long[k] /\ i = at[k] + 1) \/ StartCode(data, i) = 0
             /\ at[k] + CodeLength(long[k]) <= at[k + 1] - 1
             /\ SubSeq(data, at[k] + CodeLength(long[k]), at[k + 1] - 1) = units[k]
  BY <1>1, CodesOfPiece, Zenon
<1>5. \A k \in 1 .. N : CodeLength(long[k]) \in {3, 4} /\ (long[k] => CodeLength(long[k]) = 4)
  BY DEF CodeLength
<1>6. ASSUME NEW k \in 1 .. N PROVE at[k] \in CodePositions(data)
  <2>1. at[k] \in 1 .. Len(data) /\ StartCode(data, at[k]) > 0
    <3>1. CodeLength(long[k]) \in Nat /\ CodeLength(long[k]) > 0
      BY <1>5
    <3>2. /\ at[k] \in Nat \ {0} /\ at[k + 1] - 1 \in Nat /\ at[k + 1] - 1 <= Len(data)
          /\ at[k] + CodeLength(long[k]) <= at[k + 1] - 1 /\ StartCode(data, at[k]) = CodeLength(long[k])
      BY <1>3, <1>4
    <3>3. at[k] <= Len(data)
      BY <1>2, <3>1, <3>2
    <3>4. QED
      BY <1>2, <3>1, <3>2, <3>3
  <2>2. ASSUME at[k] > 1 PROVE StartCode(data, at[k] - 1) # 4
    <3>1. at[k] - 1 \in 1 .. Len(data)
      BY <1>2, <2>1, <2>2
    <3>2. PICK j \in 1 .. N : at[j] <= at[k] - 1 /\ at[k] - 1 <= at[j + 1] - 1
      BY <1>1, <3>1
    <3>3. /\ at[j] \in Nat \ {0} /\ at[j + 1] - 1 \in Nat /\ at[k] \in Nat \ {0}
          /\ at[k + 1] \in Int /\ at[j + 1] \in Int
          /\ CodeLength(long[j]) \in {3, 4} /\ CodeLength(long[k]) \in {3, 4}
      BY <1>3, <1>5
    <3>4. at[j] + CodeLength(long[j]) <= at[j + 1] - 1 /\ at[k] + CodeLength(long[k]) <= at[k + 1] - 1
      BY <1>4
    <3>5. j \in Int /\ k \in Int /\ j # k
      BY <3>2, <3>3
    <3>6. CASE k < j
      <4>1. at[k + 1] <= at[j]
        BY <1>1, <3>6
      <4>2. QED
        BY <3>2, <3>3, <3>4, <4>1
    <3>7. CASE j < k
      <4>1. at[j + 1] <= at[k]
        BY <1>1, <3>7
      <4>2. at[k] - 1 \in at[j] + 1 .. at[j + 1] - 1
        BY <3>2, <3>3, <3>4, <4>1
      <4>3. (long[j] /\ at[k] - 1 = at[j] + 1) \/ StartCode(data, at[k] - 1) = 0
        BY <1>4, <4>2
      <4>4. QED
        BY <1>4, <4>3
    <3>8. QED
      BY <3>5, <3>6, <3>7
  <2>3. QED
    BY <1>1, <2>1, <2>2 DEF CodePositions
<1>7. ASSUME NEW i \in CodePositions(data) PROVE \E k \in 1 .. N : i = at[k]
  <2>1. i \in 1 .. Len(data) /\ StartCode(data, i) > 0 /\ (i > 1 => StartCode(data, i - 1) # 4)
    BY <1>1 DEF CodePositions
  <2>2. PICK k \in 1 .. N : at[k] <= i /\ i <= at[k + 1] - 1
    BY <1>1, <2>1
  <2>3. at[k] \in Nat \ {0} /\ at[k + 1] \in Int /\ i \in Nat \ {0}
    <3>1. i \in Nat \ {0}
      BY <1>2, <2>1
    <3>2. at[k] \in Nat \ {0} /\ at[k + 1] \in Int
      BY <1>3
    <3>3. QED
      BY <3>1, <3>2
  <2>4. CASE i # at[k]
    <3>1. i \in at[k] + 1 .. at[k + 1] - 1
      BY <2>2, <2>3, <2>4
    <3>2. long[k] /\ i = at[k] + 1
      <4>1. StartCode(data, i) # 0
        BY <2>1
      <4>2. QED
        BY <1>4, <3>1, <4>1
    <3>3. StartCode(data, at[k]) = 4
      BY <1>4, <1>5, <3>2
    <3>4. i > 1 /\ i - 1 = at[k]
      BY <2>3, <3>2
    <3>5. QED
      BY <2>1, <3>3, <3>4
  <2>5. QED
    BY <2>4
<1>8. CodePositions(data) = { at[k] : k \in 1 .. N }
  BY <1>6, <1>7
<1>9. ASSUME NEW k \in 1 .. N
      PROVE  SubSeq(data, at[k] + StartCode(data, at[k]), at[k + 1] - 1) = units[k]
  BY <1>4
<1>10. ASSUME NEW k \in 1 .. N PROVE Stripped(LongCode(long[k]) \o units[k]) = units[k]
  BY <1>3, StrippedPiece
<1>11. QED
  BY <1>8, <1>9, <1>10 DEF N

\* A set of numbers is listed in order in one way only.
LEMMA OneOrder ==
  ASSUME NEW N \in Nat, NEW s \in [1 .. N -> Nat], NEW t \in [1 .. N -> Nat],
         \A j, k \in 1 .. N : j < k => s[j] < s[k] /\ t[j] < t[k],
         \A k \in 1 .. N : (\E j \in 1 .. N : s[k] = t[j]) /\ (\E j \in 1 .. N : t[k] = s[j])
  PROVE  \A k \in 1 .. N : s[k] = t[k]
<1> DEFINE Apart == { k \in 1 .. N : s[k] # t[k] }
<1>1. SUFFICES ASSUME Apart # {} PROVE FALSE
  OBVIOUS
<1>2. PICK k \in Apart : \A j \in Apart : k <= j
  <2>1. Apart \subseteq Nat
    OBVIOUS
  <2> HIDE DEF Apart
  <2>2. QED
    BY <1>1, <2>1, LeastNumber
<1>3. k \in 1 .. N /\ s[k] # t[k] /\ \A j \in 1 .. N : j < k => s[j] = t[j]
  BY <1>2
<1>4. CASE s[k] < t[k]
  <2>1. PICK j \in 1 .. N : s[k] = t[j]
    BY <1>3
  <2>2. CASE j < k
    BY <1>3, <2>1, <2>2
  <2>3. CASE j = k
    BY <1>3, <2>1, <2>3
  <2>4. CASE k < j
    <3>1. t[k] < t[j] /\ t[k] \in Nat /\ t[j] \in Nat
      BY <1>3, <2>4
    <3>2. t[j] < t[k]
      BY <1>4, <2>1
    <3>3. QED
      BY <3>1, <3>2
  <2>5. QED
    BY <1>3, <2>2, <2>3, <2>4
<1>5. CASE t[k] < s[k]
  <2>1. PICK j \in 1 .. N : t[k] = s[j]
    BY <1>3
  <2>2. CASE j < k
    BY <1>3, <2>1, <2>2
  <2>3. CASE j = k
    BY <1>3, <2>1, <2>3
  <2>4. CASE k < j
    <3>1. s[k] < s[j] /\ s[k] \in Nat /\ s[j] \in Nat
      BY <1>3, <2>4
    <3>2. s[j] < s[k]
      BY <1>5, <2>1
    <3>3. QED
      BY <3>1, <3>2
  <2>5. QED
    BY <1>3, <2>2, <2>3, <2>4
<1>6. s[k] \in Nat /\ t[k] \in Nat
  BY <1>3
<1>7. QED
  BY <1>3, <1>4, <1>5, <1>6

\* What is listed in order lists its set as Codes does.
LEMMA ListedInOrder ==
  ASSUME NEW N \in Nat, NEW at,
         \A k \in 1 .. N : at[k] \in Nat,
         \A j, k \in 1 .. N : j < k => at[j] < at[k],
         NEW data, CodePositions(data) = { at[k] : k \in 1 .. N }
  PROVE  /\ Codes(data) \in [1 .. N -> CodePositions(data)]
         /\ \A k \in 1 .. N : Codes(data)[k] = at[k]
<1> DEFINE P == { at[k] : k \in 1 .. N }
           first == [k \in 1 .. N |-> at[k]]
           Ordered(s) == \A j, k \in DOMAIN s : j < k => s[j] < s[k]
<1>1. first \in [1 .. N -> P] /\ \A k \in 1 .. N : first[k] = at[k]
  OBVIOUS
<1>2. ASSUME NEW j \in 1 .. N, NEW k \in 1 .. N, first[j] = first[k] PROVE j = k
  <2>1. at[j] = at[k] /\ at[j] \in Nat /\ j \in Int /\ k \in Int
    BY <1>2
  <2>2. ~(j < k) /\ ~(k < j)
    BY <2>1
  <2>3. QED
    BY <2>1, <2>2
<1>3. first \in Bijection(1 .. N, P)
  <2>1. \A p \in P : \E k \in 1 .. N : first[k] = p
    OBVIOUS
  <2> HIDE DEF first, P
  <2>2. QED
    BY <1>1, <1>2, <2>1 DEF Bijection, Injection, Surjection, IsInjective
<1>4. IsFiniteSet(P) /\ Cardinality(P) = N
  <2>1. IsFiniteSet(1 .. N) /\ Cardinality(1 .. N) = N
    <3>1. 1 \in Int /\ N \in Int /\ (IF 1 > N THEN 0 ELSE N - 1 + 1) = N
      OBVIOUS
    <3>2. QED
      BY <3>1, FS_Interval
  <2>2. ExistsBijection(1 .. N, P)
    BY <1>3 DEF ExistsBijection
  <2> HIDE DEF P
  <2>3. QED
    BY <2>1, <2>2, FS_Bijection
<1>5. first \in [1 .. N -> P] /\ Ordered(first)
  BY <1>1
<1>6. Codes(data) = CHOOSE s \in [1 .. N -> P] : Ordered(s)
  <2>1. CodePositions(data) = P
    OBVIOUS
  <2> HIDE DEF P
  <2>2. QED
    BY <1>4, <2>1 DEF Codes
<1> DEFINE s == Codes(data)
<1> HIDE DEF first, P
<1>7. s \in [1 .. N -> P] /\ Ordered(s)
  <2> HIDE DEF Ordered
  <2>1. QED
    BY <1>5, <1>6
<1> HIDE DEF s
<1>8. \A j, k \in 1 .. N : j < k => s[j] < s[k]
  BY <1>7
<1>9. \A k \in 1 .. N : s[k] \in Nat /\ \E j \in 1 .. N : s[k] = at[j]
  BY <1>7 DEF P
<1>10. \A k \in 1 .. N : \E j \in 1 .. N : at[k] = s[j]
  <2>1. s \in Injection(1 .. N, P)
    <3>1. ASSUME NEW j \in 1 .. N, NEW k \in 1 .. N, s[j] = s[k] PROVE j = k
      <4>1. ~(j < k) /\ ~(k < j) /\ j \in Int /\ k \in Int
        BY <1>8, <1>9, <3>1
      <4>2. QED
        BY <4>1
    <3>2. QED
      BY <1>7, <3>1 DEF Injection, IsInjective
  <2>2. Cardinality(1 .. N) = N
    <3>1. 1 \in Int /\ N \in Int /\ (IF 1 > N THEN 0 ELSE N - 1 + 1) = N
      OBVIOUS
    <3>2. QED
      BY <3>1, FS_Interval
  <2>3. s \in Surjection(1 .. N, P)
    BY <1>4, <2>1, <2>2, FS_Injection
  <2>4. \A p \in P : \E j \in 1 .. N : s[j] = p
    BY <2>3 DEF Surjection
  <2>5. QED
    BY <2>4 DEF P
<1>11. \A k \in 1 .. N : s[k] = at[k]
  <2>1. s \in [1 .. N -> Nat] /\ first \in [1 .. N -> Nat]
    BY <1>1, <1>7, <1>9 DEF P
  <2>2. \A j, k \in 1 .. N : j < k => s[j] < s[k] /\ first[j] < first[k]
    BY <1>1, <1>8
  <2>3. \A k \in 1 .. N : (\E j \in 1 .. N : s[k] = first[j]) /\ (\E j \in 1 .. N : first[k] = s[j])
    BY <1>1, <1>9, <1>10
  <2>4. \A k \in 1 .. N : s[k] = first[k]
    BY <2>1, <2>2, <2>3, OneOrder
  <2>5. QED
    BY <1>1, <2>4
<1>12. QED
  BY <1>7, <1>11 DEF s, P

\* Units that lie one behind the other are what AnnexBToAVCC makes its packet of.
LEMMA PacketOfLaidOut ==
  ASSUME NEW data, NEW at, NEW long, NEW units, LaidOut(data, at, long, units)
  PROVE  AnnexBToAVCC(data) = Prefixed(units)
<1> DEFINE N == Len(units)
<1>1. /\ data \in Seq(Int) /\ units \in Seq(Seq(Int))
      /\ at \in Seq(Int) /\ Len(at) = N + 1
      /\ \A k \in 1 .. N : IsPiece(data, at[k], at[k + 1] - 1, long[k], units[k])
      /\ \A j, k \in 1 .. N : j < k => at[j + 1] <= at[k]
      /\ \A i \in 1 .. Len(data) : \E k \in 1 .. N : at[k] <= i /\ i <= at[k + 1] - 1
  BY DEF LaidOut
<1>2. N \in Nat /\ Len(data) \in Nat
  BY <1>1
<1>3. /\ CodePositions(data) = { at[k] : k \in 1 .. N }
      /\ \A k \in 1 .. N : SubSeq(data, at[k] + StartCode(data, at[k]), at[k + 1] - 1) = units[k]
  BY CodesAreTheEncoders
<1>a. units = [k \in 1 .. N |-> units[k]]
  BY <1>1
<1> HIDE DEF N
<1>4. ASSUME NEW k \in 1 .. N
      PROVE  /\ at[k] \in Nat \ {0} /\ at[k + 1] - 1 <= Len(data)
             /\ at[k] < at[k + 1] /\ at[k + 1] \in Int
  <2>1. k + 1 \in 1 .. Len(at)
    BY <1>1, <1>2
  <2>2. at[k + 1] \in Int
    BY <1>1, <2>1
  <2>3. at[k] \in Nat \ {0} /\ at[k + 1] - 1 \in Nat /\ at[k + 1] - 1 <= Len(data)
    BY <1>1 DEF IsPiece
  <2>4. at[k] + CodeLength(long[k]) <= at[k + 1] - 1
    BY <1>1, CodesOfPiece, Zenon
  <2>5. CodeLength(long[k]) \in {3, 4}
    BY DEF CodeLength
  <2> DEFINE c == CodeLength(long[k])
             p == at[k]
             q == at[k + 1]
  <2>6. p \in Nat \ {0} /\ q \in Int /\ c \in {3, 4} /\ p + c <= q - 1
    BY <2>2, <2>3, <2>4, <2>5
  <2> HIDE DEF c, p, q
  <2>7. p < q
    BY <2>6
  <2>8. QED
    BY <2>2, <2>3, <2>7 DEF p, q
<1>5. ASSUME NEW j \in 1 .. N, NEW k \in 1 .. N, j < k PROVE at[j] < at[k]
  <2>1. at[j + 1] <= at[k]
    BY <1>1, <1>5
  <2>2. at[j] < at[j + 1] /\ at[j] \in Int /\ at[j + 1] \in Int /\ at[k] \in Int
    BY <1>4
  <2>3. QED
    BY <2>1, <2>2
<1>6. Codes(data) \in [1 .. N -> CodePositions(data)] /\ \A k \in 1 .. N : Codes(data)[k] = at[k]
  <2>1. \A k \in 1 .. N : at[k] \in Nat
    BY <1>4
  <2>2. \A j, k \in 1 .. N : j < k => at[j] < at[k]
    BY <1>5
  <2>3. CodePositions(data) = { at[k] : k \in 1 .. N } /\ N \in Nat
    BY <1>2, <1>3
  <2>4. QED
    BY <2>1, <2>2, <2>3, ListedInOrder, Zenon
<1> DEFINE codes == Codes(data)
           slices == [k \in DOMAIN codes |->
                        SubSeq(data, codes[k] + StartCode(data, codes[k]),
                               IF k = Len(codes) THEN Len(data) ELSE codes[k + 1] - 1)]
<1>7. DOMAIN codes = 1 .. N /\ Len(codes) = N
  <2>1. codes \in [1 .. N -> CodePositions(data)]
    BY <1>6
  <2> HIDE DEF codes
  <2>2. DOMAIN codes = 1 .. N
    BY <2>1
  <2>3. codes \in Seq(CodePositions(data))
    BY <1>2, <2>1
  <2>4. QED
    BY <1>2, <2>2, <2>3
<1> HIDE DEF codes
<1>8. ASSUME NEW k \in 1 .. N PROVE slices[k] = units[k]
  <2>1. (IF k = Len(codes) THEN Len(data) ELSE codes[k + 1] - 1) = at[k + 1] - 1
    <3>1. CASE k = N
      <4>1. Len(data) \in 1 .. Len(data)
        <5>1. at[k] \in Nat \ {0} /\ at[k + 1] - 1 <= Len(data) /\ at[k] < at[k + 1] /\ at[k + 1] \in Int
          BY <1>4
        <5>2. QED
          BY <1>2, <5>1
      <4>2. PICK j \in 1 .. N : at[j] <= Len(data) /\ Len(data) <= at[j + 1] - 1
        BY <1>1, <4>1
      <4>3. j = k
        <5>1. ASSUME j < k PROVE FALSE
          <6>1. at[j + 1] <= at[k] /\ at[k] < at[k + 1] /\ at[k + 1] - 1 <= Len(data)
            BY <1>1, <1>4, <5>1
          <6>2. at[j + 1] \in Int /\ at[k] \in Int /\ at[k + 1] \in Int
            BY <1>4
          <6>3. QED
            BY <1>2, <4>2, <6>1, <6>2
        <5>2. QED
          BY <1>2, <3>1, <5>1
      <4>4. at[k + 1] \in Int /\ at[k + 1] - 1 <= Len(data)
        BY <1>4
      <4>5. Len(data) = at[k + 1] - 1
        BY <1>2, <4>2, <4>3, <4>4
      <4>6. QED
        BY <1>7, <3>1, <4>5
    <3>2. CASE k # N
      <4>1. k + 1 \in 1 .. N
        BY <1>2, <3>2
      <4>2. codes[k + 1] = at[k + 1]
        BY <1>6, <4>1 DEF codes
      <4>3. QED
        BY <1>7, <3>2, <4>2
    <3>3. QED
      BY <3>1, <3>2
  <2>2. codes[k] = at[k]
    BY <1>6 DEF codes
  <2>3. slices[k] = SubSeq(data, codes[k] + StartCode(data, codes[k]),
                           IF k = Len(codes) THEN Len(data) ELSE codes[k + 1] - 1)
    BY <1>7
  <2>4. slices[k] = SubSeq(data, at[k] + StartCode(data, at[k]), at[k + 1] - 1)
    BY <2>1, <2>2, <2>3, Zenon
  <2>5. QED
    BY <1>3, <2>4
<1>9. slices = units
  <2>1. slices = [k \in 1 .. N |-> slices[k]]
    BY <1>7
  <2> HIDE DEF slices
  <2>2. QED
    BY <1>8, <1>a, <2>1
<1>10. AnnexBToAVCC(data) = Prefixed(slices)
  BY DEF AnnexBToAVCC, codes
<1>11. QED
  BY <1>9, <1>10

\* Offsets none of which is before the last one are in order.
LEMMA OffsetsGrow ==
  ASSUME NEW N \in Nat, NEW ends, ends[0] \in Nat,
         \A k \in 1 .. N : ends[k - 1] \in Nat /\ ends[k] \in Nat /\ ends[k - 1] <= ends[k]
  PROVE  \A j, k \in 0 .. N : j <= k => ends[j] <= ends[k]
<1>1. \A k \in 0 .. N : ends[k] \in Nat
  <2>1. \A k \in 0 .. N : k = 0 \/ k \in 1 .. N
    OBVIOUS
  <2>2. QED
    BY <2>1
<1>2. SUFFICES ASSUME NEW j \in 0 .. N PROVE \A k \in 0 .. N : j <= k => ends[j] <= ends[k]
  OBVIOUS
<1> DEFINE Before == { k \in 0 .. N : j <= k /\ ~(ends[j] <= ends[k]) }
<1>3. SUFFICES ASSUME Before # {} PROVE FALSE
  OBVIOUS
<1>4. PICK k \in Before : \A i \in Before : k <= i
  <2>1. Before \subseteq Nat
    OBVIOUS
  <2> HIDE DEF Before
  <2>2. QED
    BY <1>3, <2>1, LeastNumber
<1>5. k \in 0 .. N /\ j <= k /\ ~(ends[j] <= ends[k])
  OBVIOUS
<1>6. k # j
  BY <1>1, <1>5
<1>7. PICK i \in 0 .. N : i = k - 1 /\ j <= i /\ k \in 1 .. N
  BY <1>5, <1>6
<1>8. ends[j] <= ends[i]
  <2>1. i \notin Before
    BY <1>4, <1>5, <1>7
  <2>2. QED
    BY <1>7, <2>1
<1>9. ends[i] <= ends[k]
  BY <1>7
<1>10. QED
  BY <1>1, <1>5, <1>7, <1>8, <1>9

\* What an encoder makes of units: each after a start code, one behind the other.
Nals(long, units) == [k \in DOMAIN units |-> LongCode(long[k]) \o units[k]]

LEMMA EncodedIsLaidOut ==
  ASSUME NEW units \in Seq(Seq(Int)), \A k \in DOMAIN units : ProperUnit(units[k]),
         NEW long, \A k \in DOMAIN units : long[k] \in BOOLEAN
  PROVE  \E at : LaidOut(FlattenSeq(Nals(long, units)), at, long, units)
<1> DEFINE N == Len(units)
           nals == Nals(long, units)
           data == FlattenSeq(nals)
<1>1. N \in Nat /\ DOMAIN units = 1 .. N
  OBVIOUS
<1>2. \A k \in 1 .. N : /\ units[k] \in Seq(Int) /\ ProperUnit(units[k])
                        /\ long[k] \in BOOLEAN /\ nals[k] = LongCode(long[k]) \o units[k]
  <2>1. ASSUME NEW k \in 1 .. N PROVE k \in DOMAIN units /\ units[k] \in Seq(Int)
    BY <1>1
  <2>2. ASSUME NEW k \in 1 .. N PROVE ProperUnit(units[k]) /\ long[k] \in BOOLEAN
    BY <2>1, Zenon
  <2>3. ASSUME NEW k \in 1 .. N PROVE nals[k] = LongCode(long[k]) \o units[k]
    BY <2>1, Zenon DEF Nals
  <2>4. QED
    BY <2>1, <2>2, <2>3, Zenon
<1>3. nals = [k \in 1 .. N |-> nals[k]]
  BY DEF Nals
<1>a. N = 0 => nals = << >>
  BY <1>3
<1> HIDE DEF N, nals
<1>4. ASSUME NEW k \in 1 .. N PROVE nals[k] \in Seq(Int) /\ Len(nals[k]) \in Nat
  <2>1. LongCode(long[k]) \in Seq(Int)
    BY DEF LongCode
  <2>2. units[k] \in Seq(Int) /\ nals[k] = LongCode(long[k]) \o units[k]
    BY <1>2
  <2> DEFINE code == LongCode(long[k])
  <2>a. code \in Seq(Int)
    BY <2>1
  <2> HIDE DEF code
  <2>3. code \o units[k] \in Seq(Int) /\ Len(code \o units[k]) \in Nat
    BY <2>2, <2>a
  <2>4. QED
    BY <2>2, <2>3 DEF code
<1>5. nals \in Seq(Seq(Int)) /\ Len(nals) = N
  <2>1. nals \in [1 .. N -> Seq(Int)]
    BY <1>3, <1>4
  <2>2. QED
    BY <1>1, <2>1
<1>6. CASE N = 0
  <2>1. data = << >>
    <3>1. nals = << >>
      BY <1>6, <1>a
    <3>2. QED
      BY <3>1 DEF FlattenSeq
  <2>2. LaidOut(<< >>, <<1>>, long, units)
    <3>1. << >> \in Seq(Int) /\ Len(<< >>) = 0 /\ <<1>> \in Seq(Int) /\ Len(<<1>>) = 0 + 1
      OBVIOUS
    <3>2. Len(units) = 0
      BY <1>6 DEF N
    <3>3. QED
      BY <3>1, <3>2 DEF LaidOut
  <2>3. LaidOut(data, <<1>>, long, units)
    BY <2>1, <2>2
  <2> HIDE DEF data
  <2>4. QED
    BY <2>3, Zenon DEF data, nals
<1>7. CASE N # 0
  <2>1. /\ data \in Seq(Int)
        /\ \E ends : /\ ends[0] = 0 /\ ends[N] = Len(data)
                     /\ \A k \in 1 .. N : InPlace(data, ends, nals[k], k)
    BY <1>1, <1>5, <1>7, FlattenedInPlace
  <2> HIDE DEF data
  <2>2. PICK ends : /\ ends[0] = 0 /\ ends[N] = Len(data)
                    /\ \A k \in 1 .. N : InPlace(data, ends, nals[k], k)
    BY <2>1
  <2>3. ASSUME NEW k \in 1 .. N
        PROVE  /\ ends[k - 1] \in Nat /\ ends[k] \in Nat
               /\ ends[k] = ends[k - 1] + Len(nals[k]) /\ ends[k] <= Len(data)
               /\ ends[k - 1] <= ends[k]
    <3> DEFINE l == Len(nals[k])
               p == ends[k - 1]
               q == ends[k]
    <3>1. p \in Nat /\ q \in Nat /\ q = p + l /\ q <= Len(data) /\ l \in Nat
      BY <1>4, <2>2 DEF InPlace
    <3> HIDE DEF l, p, q
    <3>2. p <= q
      BY <3>1
    <3>3. QED
      BY <3>1, <3>2 DEF l, p, q
  <2>4. \A j, k \in 0 .. N : j <= k => ends[j] <= ends[k]
    <3>1. ends[0] \in Nat
      BY <2>2
    <3>2. QED
      BY <1>1, <2>3, <3>1, OffsetsGrow
  <2>5. \A k \in 0 .. N : ends[k] \in Nat
    <3>1. \A k \in 0 .. N : k = 0 \/ k \in 1 .. N
      BY <1>1
    <3>2. QED
      BY <2>2, <2>3, <3>1
  <2> DEFINE at == [k \in 1 .. N + 1 |-> ends[k - 1] + 1]
  <2>6. \A k \in 1 .. N : at[k] = ends[k - 1] + 1 /\ at[k + 1] = ends[k] + 1 /\ at[k + 1] - 1 = ends[k]
    <3>1. ASSUME NEW k \in 1 .. N
          PROVE  at[k] = ends[k - 1] + 1 /\ at[k + 1] = ends[k] + 1 /\ at[k + 1] - 1 = ends[k]
      <4>1. k \in 1 .. N + 1 /\ k + 1 \in 1 .. N + 1 /\ k + 1 - 1 = k
        BY <1>1
      <4>2. at[k] = ends[k - 1] + 1 /\ at[k + 1] = ends[k + 1 - 1] + 1
        BY <4>1
      <4>3. ends[k] \in Nat
        BY <2>3
      <4>4. QED
        BY <4>1, <4>2, <4>3
    <3>2. QED
      BY <3>1
  <2>7. at \in Seq(Int) /\ Len(at) = N + 1
    <3>1. \A k \in 1 .. N + 1 : k - 1 \in 0 .. N
      BY <1>1
    <3>2. at \in [1 .. N + 1 -> Int]
      BY <2>5, <3>1
    <3>3. N + 1 \in Nat
      BY <1>1
    <3> HIDE DEF at
    <3>4. QED
      BY <3>2, <3>3
  <2> HIDE DEF at
  <2>8. ASSUME NEW k \in 1 .. N PROVE IsPiece(data, at[k], at[k + 1] - 1, long[k], units[k])
    <3> DEFINE p == ends[k - 1]
               q == ends[k]
               nal == nals[k]
               l == Len(nal)
    <3>1. p \in Nat /\ q \in Nat /\ q = p + l /\ q <= Len(data) /\ l \in Nat /\ nal \in Seq(Int)
      BY <1>4, <2>3
    <3>2. \A j \in 1 .. l : data[p + j] = nal[j]
      BY <2>2 DEF InPlace
    <3>3. Len(nal) = l
      OBVIOUS
    <3> HIDE DEF p, q, l, nal
    <3>4. PICK from \in Nat \ {0} : from = p + 1
      <4>1. p \in Nat
        BY <3>1
      <4>2. QED
        BY <4>1
    <3> DEFINE slice == SubSeq(data, from, q)
    <3>5. slice \in Seq(Int) /\ Len(slice) = (IF from <= q THEN q - from + 1 ELSE 0)
          /\ \A i \in 1 .. q - from + 1 : slice[i] = data[from + i - 1]
      BY <2>1, <3>1, SliceOfData
    <3>6. q - from + 1 = l /\ (from <= q <=> l # 0)
      <4>1. p \in Nat /\ l \in Nat /\ q = p + l
        BY <3>1
      <4>2. QED
        BY <3>4, <4>1
    <3>7. \A j \in 1 .. l : from + j - 1 = p + j
      <4>1. p \in Nat /\ l \in Nat
        BY <3>1
      <4>2. QED
        BY <3>4, <4>1
    <3> HIDE DEF slice
    <3>8. Len(slice) = l /\ \A j \in 1 .. l : slice[j] = nal[j]
      BY <3>1, <3>2, <3>5, <3>6, <3>7
    <3>9. slice = nal
      BY <3>1, <3>3, <3>5, <3>8, SeqEqual
    <3>10. at[k] = from /\ at[k + 1] - 1 = q
      BY <2>6, <3>4 DEF p, q
    <3>11. nal = LongCode(long[k]) \o units[k]
      BY <1>2 DEF nal
    <3>12. IsPiece(data, from, q, long[k], units[k])
      BY <1>2, <2>1, <3>1, <3>4, <3>9, <3>11 DEF IsPiece, slice
    <3>13. QED
      BY <3>10, <3>12
  <2>9. ASSUME NEW j \in 1 .. N, NEW k \in 1 .. N, j < k PROVE at[j + 1] <= at[k]
    <3>1. j \in 0 .. N /\ k - 1 \in 0 .. N /\ j <= k - 1
      BY <1>1, <2>9
    <3>2. ends[j] <= ends[k - 1] /\ ends[j] \in Nat /\ ends[k - 1] \in Nat
      BY <2>4, <2>5, <3>1
    <3>3. QED
      BY <2>6, <3>2
  <2>10. ASSUME NEW i \in 1 .. Len(data)
         PROVE  \E k \in 1 .. N : at[k] <= i /\ i <= at[k + 1] - 1
    <3> DEFINE Reached == { k \in 1 .. N : i <= ends[k] }
    <3>0. Len(data) \in Nat
      BY <2>1
    <3>1. N \in Reached
      BY <1>1, <1>7, <2>2, <3>0
    <3>2. PICK k \in Reached : \A j \in Reached : k <= j
      <4>1. Reached \subseteq Nat /\ Reached # {}
        BY <3>1
      <4> HIDE DEF Reached
      <4>2. QED
        BY <4>1, LeastNumber
    <3>3. k \in 1 .. N /\ i <= ends[k]
      OBVIOUS
    <3>4. ends[k - 1] < i
      <4>1. CASE k = 1
        <5>1. ends[k - 1] = 0
          BY <2>2, <4>1
        <5>2. QED
          BY <5>1
      <4>2. CASE k # 1
        <5>1. PICK j \in 1 .. N : j = k - 1 /\ j < k
          BY <1>1, <3>3, <4>2
        <5>2. j \notin Reached
          BY <3>2, <3>3, <5>1
        <5>3. ~(i <= ends[j]) /\ ends[j] \in Nat
          BY <2>3, <5>2
        <5>4. QED
          BY <3>0, <5>1, <5>3
      <4>3. QED
        BY <4>1, <4>2
    <3>5. at[k] <= i /\ i <= at[k + 1] - 1
      <4>1. at[k] = ends[k - 1] + 1 /\ at[k + 1] - 1 = ends[k] /\ ends[k - 1] \in Nat
        BY <2>3, <2>6, <3>3
      <4>2. QED
        BY <3>0, <3>3, <3>4, <4>1
    <3>6. QED
      BY <3>3, <3>5
  <2>11. LaidOut(data, at, long, units)
    BY <2>1, <2>7, <2>8, <2>9, <2>10 DEF LaidOut, N
  <2>12. QED
    BY <2>11, Zenon DEF data, nals
<1>8. QED
  BY <1>6, <1>7

\* Whatever the units are, how many there are and which start codes they have: taken
\* apart, put after their lengths and walked over they are the same units, the other way
\* to the page makes the same packet, and it is marked as a keyframe if and only if one
\* of its units begins with such a byte (pack.go:9-77; enc_x264.c:28-41, 86-125,
\* 195-216; preview-stream.ts:8-59).
THEOREM StreamComesApart ==
  ASSUME NEW units \in Seq(Seq(Int)), \A k \in DOMAIN units : ProperUnit(units[k]),
         NEW long, \A k \in DOMAIN units : long[k] \in BOOLEAN
  PROVE  LET nals == Nals(long, units)
             avcc == AnnexBToAVCC(FlattenSeq(nals))
         IN /\ Parsed(avcc) = units
            /\ AppendAvcc(nals) = avcc
            /\ NalIsKeyframe(nals) \/ HasDescription(avcc) => AvccIsKeyframe(avcc)
            /\ AvccIsKeyframe(avcc) <=> \E k \in DOMAIN units : units[k][1] % 32 \in {5, 7, 8}
<1> DEFINE nals == Nals(long, units)
           data == FlattenSeq(nals)
           avcc == AnnexBToAVCC(data)
<1>1. \A k \in DOMAIN units : units[k] # << >>
  BY DEF ProperUnit
<1>2. PICK at : LaidOut(data, at, long, units)
  BY EncodedIsLaidOut, Zenon
<1> HIDE DEF nals, data
<1>3. avcc = Prefixed(units)
  BY <1>2, PacketOfLaidOut, Zenon
<1> HIDE DEF avcc
<1>4. Parsed(avcc) = units
  BY <1>1, <1>3, ParsedUndoesPrefixed
<1>5. DOMAIN nals = DOMAIN units /\ \A k \in DOMAIN units : Stripped(nals[k]) = units[k]
  <2>1. DOMAIN nals = DOMAIN units
    BY DEF nals, Nals
  <2>2. ASSUME NEW k \in DOMAIN units PROVE Stripped(nals[k]) = units[k]
    <3>1. units[k] \in Seq(Int)
      OBVIOUS
    <3>2. long[k] \in BOOLEAN /\ ProperUnit(units[k])
      OBVIOUS
    <3>3. nals[k] = LongCode(long[k]) \o units[k]
      BY Zenon DEF nals, Nals
    <3>4. Stripped(LongCode(long[k]) \o units[k]) = units[k]
      BY <3>1, <3>2, StrippedPiece, Zenon
    <3>5. QED
      BY <3>3, <3>4, Zenon
  <2>3. QED
    BY <2>1, <2>2
<1>6. AppendAvcc(nals) = avcc
  <2>1. units = [k \in DOMAIN units |-> units[k]]
    OBVIOUS
  <2>2. [k \in DOMAIN nals |-> Stripped(nals[k])] = units
    BY <1>5, <2>1
  <2>3. QED
    BY <1>3, <2>2 DEF AppendAvcc
<1>7. Kinds(avcc) = { units[k][1] % 32 : k \in DOMAIN units }
  BY <1>4 DEF Kinds, ToSet
<1>8. AvccIsKeyframe(avcc) <=> \E k \in DOMAIN units : units[k][1] % 32 \in {5, 7, 8}
  BY <1>7 DEF AvccIsKeyframe
<1>9. NalIsKeyframe(nals) => \E k \in DOMAIN units : units[k][1] % 32 \in {5, 7}
  BY <1>5 DEF NalIsKeyframe
<1>10. HasDescription(avcc) => AvccIsKeyframe(avcc)
  BY DEF HasDescription, AvccIsKeyframe
<1>11. NalIsKeyframe(nals) => AvccIsKeyframe(avcc)
  BY <1>8, <1>9
<1>12. QED
  BY <1>4, <1>6, <1>8, <1>10, <1>11 DEF avcc, data, nals

\* The units of a set of bytes, any number of them long, come apart.
LEMMA TwoUnitsComeApart ==
  ASSUME NEW bytes, bytes \subseteq Int, NEW length \in Nat
  PROVE  UnitsComeApart(bytes, length)
<1>1. ASSUME NEW u \in SeqOf(bytes, length) PROVE u \in Seq(Int)
  <2>1. PICK m \in 0 .. length : u \in [1 .. m -> bytes]
    BY DEF SeqOf
  <2>2. m \in Nat /\ u = [i \in 1 .. m |-> u[i]] /\ \A i \in 1 .. m : u[i] \in Int
    <3>1. \A i \in 1 .. m : u[i] \in bytes
      BY <2>1
    <3>2. \A i \in 1 .. m : u[i] \in Int
      BY <3>1
    <3>3. QED
      BY <2>1, <3>2
  <2>3. QED
    BY <2>2
<1>2. SUFFICES ASSUME NEW u \in { w \in SeqOf(bytes, length) : ProperUnit(w) },
                      NEW v \in { w \in SeqOf(bytes, length) : ProperUnit(w) },
                      NEW longU \in BOOLEAN, NEW longV \in BOOLEAN
               PROVE  LET nals == <<LongCode(longU) \o u, LongCode(longV) \o v>>
                          avcc == AnnexBToAVCC(nals[1] \o nals[2])
                      IN /\ Parsed(avcc) = <<u, v>>
                         /\ AppendAvcc(nals) = avcc
                         /\ NalIsKeyframe(nals) \/ HasDescription(avcc) => AvccIsKeyframe(avcc)
                         /\ AvccIsKeyframe(avcc) => {u[1] % 32, v[1] % 32} \cap {5, 7, 8} # {}
  BY Zenon DEF UnitsComeApart
<1> DEFINE units == <<u, v>>
           codes == <<longU, longV>>
           nals == <<LongCode(longU) \o u, LongCode(longV) \o v>>
<1>3. u \in Seq(Int) /\ v \in Seq(Int) /\ ProperUnit(u) /\ ProperUnit(v)
  BY <1>1, <1>2
<1>4. units \in Seq(Seq(Int)) /\ DOMAIN units = {1, 2} /\ units[1] = u /\ units[2] = v
  BY <1>3
<1>5. codes[1] = longU /\ codes[2] = longV
  OBVIOUS
<1>6. Nals(codes, units) = nals
  <2> DEFINE a == LongCode(longU) \o u
             b == LongCode(longV) \o v
  <2>1. LongCode(codes[1]) \o units[1] = a /\ LongCode(codes[2]) \o units[2] = b
    BY <1>4, <1>5, Zenon
  <2>2. Nals(codes, units) = [k \in {1, 2} |-> LongCode(codes[k]) \o units[k]]
    BY <1>4, Zenon DEF Nals
  <2>3. Nals(codes, units)[1] = a /\ Nals(codes, units)[2] = b
    BY <2>1, <2>2, Zenon
  <2>4. Nals(codes, units) = [k \in {1, 2} |-> Nals(codes, units)[k]]
    BY <2>2, Zenon
  <2> DEFINE made == Nals(codes, units)
  <2> HIDE DEF a, b, made
  <2>5. made = <<a, b>>
    <3>1. made[1] = a /\ made[2] = b /\ made = [k \in {1, 2} |-> made[k]]
      BY <2>3, <2>4 DEF made
    <3>2. {1, 2} = 1 .. 2
      OBVIOUS
    <3>3. QED
      BY <3>1, <3>2
  <2>6. QED
    BY <2>5 DEF made, a, b
<1>7. FlattenSeq(nals) = nals[1] \o nals[2]
  <2> DEFINE a == LongCode(longU) \o u
             b == LongCode(longV) \o v
             two == <<a, b>>
  <2> HIDE DEF a, b
  <2>1. Len(two) = 2 /\ two[1] = a /\ two[2] = b /\ Len(two) \in Nat \ {0}
    OBVIOUS
  <2> HIDE DEF two
  <2>2. PICK f : /\ \A i \in 1 .. Len(two) : f[i] = IF i = 1 THEN two[i] ELSE f[i - 1] \o two[i]
                 /\ FlattenSeq(two) = f[Len(two)]
    BY <2>1, FlattenedUpTo
  <2>3. 1 \in 1 .. Len(two) /\ 2 \in 1 .. Len(two) /\ 2 # 1 /\ 2 - 1 = 1
    BY <2>1
  <2>4. f[1] = two[1]
    BY <2>2, <2>3
  <2>5. f[2] = f[2 - 1] \o two[2]
    BY <2>2, <2>3
  <2>6. FlattenSeq(two) = two[1] \o two[2]
    BY <2>1, <2>2, <2>3, <2>4, <2>5
  <2>7. QED
    BY <2>6 DEF two, a, b
<1> HIDE DEF nals
<1> DEFINE avcc == AnnexBToAVCC(nals[1] \o nals[2])
<1>8. /\ Parsed(avcc) = units
      /\ AppendAvcc(nals) = avcc
      /\ NalIsKeyframe(nals) \/ HasDescription(avcc) => AvccIsKeyframe(avcc)
      /\ AvccIsKeyframe(avcc) <=> \E k \in DOMAIN units : units[k][1] % 32 \in {5, 7, 8}
  <2>1. \A k \in DOMAIN units : ProperUnit(units[k]) /\ codes[k] \in BOOLEAN
    BY <1>3, <1>4, <1>5
  <2> HIDE DEF units, codes, avcc
  <2>2. LET made == Nals(codes, units)
            packet == AnnexBToAVCC(FlattenSeq(made))
        IN /\ Parsed(packet) = units
           /\ AppendAvcc(made) = packet
           /\ NalIsKeyframe(made) \/ HasDescription(packet) => AvccIsKeyframe(packet)
           /\ AvccIsKeyframe(packet) <=> \E k \in DOMAIN units : units[k][1] % 32 \in {5, 7, 8}
    BY <1>4, <2>1, StreamComesApart, Zenon
  <2>3. AnnexBToAVCC(FlattenSeq(Nals(codes, units))) = avcc /\ Nals(codes, units) = nals
    BY <1>6, <1>7, Zenon DEF avcc
  <2>4. QED
    BY <2>2, <2>3, Zenon
<1> HIDE DEF avcc
<1>9. AvccIsKeyframe(avcc) => {u[1] % 32, v[1] % 32} \cap {5, 7, 8} # {}
  BY <1>4, <1>8
<1>10. QED
  BY <1>8, <1>9, Zenon DEF avcc, nals, units

\* What the run checks of short units, for every state: UnitsComeApart holds of any
\* bytes and any length (pack.go:9-77; enc_x264.c:28-125; preview-stream.ts:8-59).
THEOREM ShortUnitsDoComeApart == DaemonSpec => []ShortUnitsComeApart
<1>1. ShortUnitsComeApart
  <2>1. UnitsComeApart({0, 1, 8}, 3)
    <3>1. {0, 1, 8} \subseteq Int /\ 3 \in Nat
      OBVIOUS
    <3>2. QED
      BY <3>1, TwoUnitsComeApart, Zenon
  <2>2. UnitsComeApart({5, 7, 8}, 1)
    <3>1. {5, 7, 8} \subseteq Int /\ 1 \in Nat
      OBVIOUS
    <3>2. QED
      BY <3>1, TwoUnitsComeApart, Zenon
  <2>3. QED
    BY <2>1, <2>2 DEF ShortUnitsComeApart
<1>2. QED
  BY <1>1, PTL
=============================================================================
