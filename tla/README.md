# Verification of spidercam

TLA+ models of [spidercam](../src/README.md), a daemon that mixes the audio and
video of a host and of participants who join from a browser, chooses the main
talker and feeds virtual devices. The models cover the parts of the program
where concurrency, ordering, failure and time decide whether it is correct. TLC
checks them on small instances; TLAPS proves most of the safety results for every
value of the constants. Paths below are relative to `src/`.

## 1. The system

| Component | State it keeps | Operations | Talks to |
|---|---|---|---|
| Talker selector `internal/selector` | main audio and video id, margin hold, minimum hold, pending video, crossfade, switch log | `Select`, every 20 ms | called by the audio engine |
| Audio engine and bridge `internal/audio` | streams with their pipelines, metrics, selection, its own copy of the configuration | `tick` every 10 ms, `publishRoom` every 20 ms, `SetStreamProcessing` | selector, mixer, room, hubs, output |
| Signal processing `internal/audio/processor`, `reference` | levels, noise floor, calibration gain, voice detectors, gate; rings and samples of the loop delay | `Process`, `ProcessFrame`, `Feed`, `Estimate` | audio engine |
| Capture bundle `internal/capture` | selection, native handle, camera, closed flag | `Open`, `Reopen`, `Close`, `ReadMic`, `ReadMonitor`, `ReadCamera` | device requests, audio goroutine, compositor |
| Device selection `internal/signaling/capture_*.go` | (the room's `Capture`) | `ApplyCaptureSelection`, `EnsureDefaultCapture` | room, bundle |
| Capture ring and thread `internal/capture/native` | ring positions and slots; loop, streams, ready flag | `sp_ring_write`, `sp_ring_read`; open, run, close | PipeWire thread, audio goroutine |
| Room `internal/room` | configuration, `RoomState`, connected participants | `Join`, `Leave`, `ViewFor`, `UpdateState`, `UpdateConfig`, setters | everybody |
| Participant hub `internal/signaling/participant.go` | clients, last and pending broadcast | upgrade, join, leave, offer, ice, drop, `ScheduleBroadcast` | room, webrtc hub, audio goroutine |
| WebRTC hub `internal/webrtc` | peers | `HandleOffer`, `HandleICE`, `RemovePeer` | participant hub |
| Host hub and REST `internal/signaling/host*.go` | sockets | pushes of the state, device, processing and configuration requests | room, engine, device selection |
| Scenario engine `internal/scenario` | ticker | `tickAudioDriven`, `emitState` | room, host hub |
| Preview `internal/preview`, `preview_hub.go`, page's `preview-stream.ts` | frame counters, encoder, chunk channel, sockets | compositor's loop, publishing loop, `HandleUpgrade` | camera, output, host page |
| Virtual output `internal/output` | device's file, sink, sample queue, health | opening, `WritePCM`, `WriteVideo`, `Close` | audio goroutine, compositor, PulseAudio |
| Participant page `web/participant` | phase, reconnect timer, socket, peer connection, tracks | connect, disconnect, retry, socket and media events | participant hub |
| Host page `web/host` | session store | rendering, settings | host hub, preview hub |
| Daemon `internal/daemon` | wiring | startup, shutdown | all |

What is hard to get right, and what correctness means there:

- *Selector.* Three timers, a log and a crossfade are advanced by a chain of early
  returns. The route must be the one the log explains, must not flap, and must
  follow a lead that persists.
- *Signal processing.* Calibration raises the levels that the floor and the detector
  then see, and the floor stands still while the detector is on. Gains must stay in
  their limits, and a detector must outlast the voice by its hangover. Short reads move the
  two rings of the loop delay against each other; old samples must not be published.
- *Engine, room and host hub.* Two locks, taken one after the other by requests and
  one inside the other by publication; two goroutines push snapshots to the same
  sockets. Nothing may deadlock, and everybody must come to see the same state.
- *Capture.* Requests, two readers and shutdown share devices through two
  mutexes, and opening a device may fail at any of several places. Nothing may
  leak, no camera may be closed under a reader, the selection must be what is
  captured, and every request must be answered.
- *Participants.* Every connection has a goroutine; clients, participants and
  peers sit in three tables with three locks, and a throttled broadcast with
  late timers competes for one of them. No peer may leak, no change may be lost,
  pushes stay limited.
- *Preview.* A bounded channel where deltas are dropped and keyframes block, cuts that
  overtake chunks, init messages that come late, and three goroutines that write to one socket
  without a lock. A page must get back to a clean picture unless something ended its decoder,
  its socket or the daemon.
- *Output.* Opening takes twelve steps in three layers, against a deadline; the driver
  chooses sizes; health is kept in four places. Nothing may be left over, no sample lost,
  it must be known which sizes overrun a buffer, and a failure must come to be shown.
- *Ring.* Two threads without a lock. The stream of samples must come out as it
  went in.
- *Participant page.* One thread, but every `await` lets the world change, and
  nothing cancels an attempt. The timer, the phase, the socket and the peer
  connection must agree.

`PROJECT.json` lists all hazards with their lines and the properties that cover
them.

## 2. Modules

| Module | Models | Correspondence |
|---|---|---|
| `Selector` | `selector.Select` | one action per branch; time as ages of the timestamps |
| `SignalPath` | reference processor, pipeline | one action per tick; levels as whole numbers, an average moves to some value between the old and the new one |
| `DelayTracker` | `delay.go` and its publication | one action per tick: feed or not, analyse when due, publish when due; rings as sequences of numbered chunks, delay samples as the set of their ages |
| `CaptureBundle` | `Bundle`, `v4l2Camera` | one action per stretch between points where others can interfere; handles are names, so a leaked one stays visible |
| `CaptureControl` | device requests, and `CaptureBundle` (EXTENDS) | each caller goes through read, ids, labels, re-read, reopen, answer |
| `HostConfig` | `HostConfig`, its defaults, patches and validation | a patch is a record of the fields it names |
| `Room` | configuration, membership, metrics, processing flags, hold | operators for the room's methods, under its lock (EXTENDS `HostConfig`) |
| `AudioEngine` | audio goroutine and bridge (EXTENDS `Room`) | the tick and the publication are cut where another goroutine can take a lock |
| `HostHub` | host sockets, REST, scenario ticker (EXTENDS `AudioEngine`) | a request is two steps, as it takes two locks; a push is a snapshot and a write per socket |
| `RateLimit` | abstract: two sends per window | no code; the promise of the throttle |
| `BroadcastThrottle` | `ScheduleBroadcast` and its timer | implements `RateLimit` (ages of the last broadcast map to themselves) |
| `ParticipantHub` | connections, room membership, peers, broadcast (EXTENDS `BroadcastThrottle`) | one step variable per connection's goroutine; taking a view and writing it are two steps |
| `Preview` | compositor, `Stream`, `PreviewHub`, the page's decoder | one step variable per goroutine; a write begins and ends; a chunk is whether it is a keyframe and whether it can be decoded |
| `NalUnits` | `pack.go`, `enc_x264.c`, the page's parser | operators on byte sequences, checked over bounded inputs and proved for all |
| `Frames` | `scale.go`, conversion and padding in `v4l2.go` | operators: sizes and offsets |
| `VirtualOutput` | opening, writing, health, sample queue, closing (EXTENDS `Frames`) | one action per step of the opening and per way it fails; implements `Fifo` |
| `Fifo` | abstract: a bounded queue | no code; the promise of the ring and of the sample queue |
| `SpscRing` | `sp_ring.c` | one action per copied sample; implements `Fifo` (the queue is what lies between the positions) |
| `ParticipantSession` | store, signaling adapter and peer adapter of the page | one action per task of the event loop; every call of `connectSession` is a session that lingers until its promises settle |

`MC_*` modules hold the values of the constants for TLC, `*_proofs` the theorems.
`MC_Audio` and `MC_Daemon` put models that share no state side by side: a variable
`part` says which one a behaviour is about, and the others keep their initial state.
An operator whose name continues another's (`Clamped_NoMax` beside `Clamped`) is a
plausible mistake in the code that the one beside it models. No specification
uses it; it is there to show that the properties notice it.

What the models abstract. Scores and levels are small numbers. Of a device, a view, a
snapshot or a message only its identity or what a property tells apart is kept. Texts, samples'
values, pictures, back-off delays and tracks are left out. Sequentially consistent
steps stand for Go's mutexes and for the ring's acquire/release pairs.
`ice-candidate` messages and messages that do not parse change no state of the hub
and are left out. What `ReadMic` does with the ring is in `SpscRing`; in
`CaptureBundle` the read only has a begin and an end. In `HostHub` the host is the only
stream that is attached, as in `daemon.Run`; who joins and leaves is an input there and
`ParticipantHub`'s subject.

## 3. Runs

All run with `tlc -config <cfg> <module>` in this directory.

| Run | Configuration | What it shows |
|---|---|---|
| `audio` | `MC_Audio.cfg` | *Selector*: `EventChain` (the log explains the route), `CrossfadeOfLastSwitch`, `SelectionAgrees`, `NoMarginFlap`, and the liveness properties `HoldEnds` and `VideoFollowsTalker`. *Signal path*: `HangoverKept`, the gain's limits. *Loop delay*: `RingsRealign`, `KnownIsRecent`. *Ring*: `NoSharedSlot`, and that it implements `Fifo` (`IsFifo`) |
| `selector_stale_hold` | `MC_Selector_StaleHold.cfg` | finding 1 |
| `capture` | `MC_CaptureControl.cfg` | `HandlesOwned`, `FrameFromOpenCamera`, `SelectionInEffect`, `RoomShowsSelection`, `BusyCameraKept` |
| `capture_live` | `MC_CaptureControl_Live.cfg` | `RequestsAnswered` |
| `capture_lost_patch` | `MC_CaptureControl_LostPatch.cfg` | finding 2 |
| `hub` | `MC_ParticipantHub.cfg` | `PeersOwned`, `PushedWhenQuiet`, `TimerAfterBurst` and the liveness property `ViewsConverge` |
| `hub_ghost` | `MC_ParticipantHub_Ghost.cfg` | finding 3 |
| `ring_wrap` | `MC_SpscRing_Wrap.cfg` | finding 4 |
| `session` | `MC_ParticipantSession.cfg` | `TimerMatchesPhase`, `AnswerCanCome`, `ConnectingEnds` |
| `session_lost` | `MC_ParticipantSession_Lost.cfg` | finding 5 |
| `daemon` | `MC_Daemon.cfg` | *Host, room, engine*: `MetricsHaveOwner`, `FlagsAgree`, `RequestsEnd`, `HostConverges`. *Preview*: `PreviewRecovers`, `ShortUnitsComeApart`. *Output*: `OutputOwned`, `FramesFit`, `FailureShown`, and that its queue implements `Fifo` (`PlaysWhatWasWritten`). *Throttle*: that it implements `RateLimit` (`AtMostTwoPerWindow`) |
| `config_ignored` | `MC_HostHub_ConfigIgnored.cfg` | finding 6 |

### Bounds

- *Selector.* Three streams (the host and two participants) are the least for which
  a challenger changes while a hold runs. The scores 1 to 3 lie below the threshold,
  lead by the margin, and dominate. Calls come one tick apart; the holds are one or
  two ticks, so that each is seen before, at and after its end, and two events fill
  the log. There is no bound on the length of a behaviour.
- *Signal path.* Three levels that lie around both pairs of thresholds, a gain that reaches both
  its limits, a hangover of two ticks. Levels are bounded because the gain is.
- *Loop delay.* Rings of two whole frames of two chunks, so that a short frame of one chunk is split
  and pushed out. Frames are numbered modulo 3 (`Feeds`): no two whole frames in a ring
  have the same number. Samples come every two ticks, publications every three.
- *Ring.* Four slots and runs of up to four samples: full, empty and split copies all
  happen. `MaxSamples` bounds a behaviour at 16 samples, and TLC stops there, which is
  one reason why deadlock is not checked in `audio`. Positions stay below their range, as
  in the first 2^32 samples; `ring_wrap` makes them wrap, with a range that, as in
  the code, is not a multiple of the capacity.
- *Capture.* Two callers are enough for a lost update; a third only repeats one of
  them. One native handle name suffices because `Reopen` frees before it opens; the
  camera needs the old one, the new one and the one a reader still holds. Listings
  contain all devices, or lack the first microphone and the first camera, as when a
  device is unplugged or busy. The room starts with all ids or none (the value
  `daemon.Run` finds).
- *Hub.* Two clients give every race between two goroutines, and between one of them
  and the broadcast. Ids are drawn anew for every connection, so a client is
  connected once. The throttle's window is one tick. That is too short for a third send to be
  told from a new window, so the rate limit itself is checked in `daemon`, with a window of
  three ticks, and proved for every window.
- *Host, room, engine.* A page, a REST caller and a participant: a request of each of the
  first two can overlap, and each can race a tick, a publication and both pushers. Two
  changes (`MaxChanges`) make one overtake the other. One patch is refused. The hold takes two scenario ticks.
- *Preview.* One socket, a channel of one chunk beside the one that is being published, a keyframe
  every third encoded frame and one change of the active video: the channel is full of deltas while
  a keyframe waits, a cut falls between any two steps, and the socket connects at any time, so
  that every two of the three goroutines come to write to it at once. Sockets influence each other
  only through a crash.
- *Units.* Units of up to three bytes out of 0, 1 and 8, and of one byte of each kind of
  keyframe unit, with short and long start codes in every combination.
- *Output.* Answers of the driver that are longer and shorter than the converted picture, one of no use,
  one of an odd width, pictures that are enlarged and reduced. Six samples in writes of two, reads of up to three.
- *Session.* Three sessions are alive at a time: one shown, one lingering, and the next
  one. A session's name is used again once nothing refers to it.

Deadlock is checked in all runs but `audio`, `daemon` and `ring_wrap`: there samples are
bounded, the output stops for good when it failed or was closed, and the behaviours of
`part = "units"` have no steps.

### Fairness

- *Selector.* The ticker calls `Select` for ever (WF). `HoldEnds` and
  `VideoFollowsTalker` speak of scores that keep favouring the same stream; no
  fairness is assumed of scores.
- *Capture.* Strong fairness of each request, because it waits for `Bundle.mu`, which
  others take again and again, and Go's mutex hands itself to a goroutine that has
  waited for a millisecond. Weak fairness of the end of a read: the ring never blocks and
  `WaitForFrame(1)` gives up after a second. Requests themselves need never come.
- *Hub.* Weak fairness of each goroutine, of timers, of the audio goroutine and of socket
  writes. The last is an assumption about the clients: the code sets no write deadline.
  Nobody is promised the mutex.
- *Host, room, engine.* Weak fairness of the audio goroutine, strong fairness of the scenario ticker
  and of the second half of a request, which wait for locks that the audio goroutine takes
  again and again (Go's mutex, as above). `HostConverges` speaks of the time after the last change, which
  the bound makes sure of. Writes to sockets end, as for the hub.
- *Preview.* While the daemon lives, weak fairness of compositor, publishing goroutine and upgrades:
  writes to sockets end. Strong fairness of a chunk that is encoded and sent: the encoder may fail any
  number of times, but not for ever.
- *Output.* Weak fairness of publication only: nothing else is needed for `FailureShown`, which
  holds only if there is an audio goroutine (see section 7).
- *Session.* Weak fairness of what settles by itself while the host is there and the user
  answers the browser's prompts, and of timers. The host need never answer an offer:
  `ConnectingEnds` rests on the timeout.

## 4. Findings

1. **Hold across silence** (`selector.go:35`). Silence leaves `marginHoldStart` running, so
   a switch by margin may act on a lead that has just begun; the project's plan
   (`.cursor/plans/spidercam_next_iteration_implementation.md:88`) asks that the
   condition holds for `audioHoldMs`.
2. **Lost device patch** (`capture_selection.go:13`). Two patches of different fields at the
   same time: the second write restores the first one's field. `docs/API.md:74` says
   omitted fields keep their selection.
3. **Ghost participants** (`participant.go:54`). A lost socket never leaves the room.
4. **Ring wrap** (`sp_ring.c:35`). 2^32 is 256 modulo 3840, so after 2^32 samples (24.8 hours
   at 48 kHz) the slots jump.
5. **Connected without a socket** (`participant-store.ts:232`). A session that waits for its
   answer when the socket is lost ends in "connected", and a pending reconnect gives up.
6. **Configuration ignored** (`engine.go:62`). The engine keeps the configuration it was made with;
   nothing calls `ApplyConfig`, so what the host configures never reaches selector, detectors or
   calibration. `docs/API.md:126` says it applies immediately.

Observations that need no run of their own:

- `docs/API.md:256` promises at most ten pushes a second to participants; the callback of an expired
  timer does not look at the time again (`participant.go:86`), so two pushes can follow each
  other at once. That this never makes three is `AtMostTwoPerWindow`.
- A participant who joins gets metrics, which the next publication of the engine removes
  (`bridge.go:114`), because only the host's stream is attached. `MetricsHaveOwner` and
  `HostConverges` say what remains true.
- The noise floor stands still while the detector is on, and calibration raises the
  background; a steady background above the frozen floor keeps the detector on. `HangoverKept`
  is therefore stated in the levels the detector is given.
- The driver may answer YUYV with an odd width: `setFormat` refuses zeros only (`v4l2.go:196`).
  `rgbaToYUYV` then takes the last pixel of a row for a pair and writes two bytes past the frame in the
  last row (`v4l2.go:332-343`). The first such conversion is that of priming (`PrimePanics`); nothing
  recovers the panic, so the daemon ends where it would have gone on without an output.
  `FramesFit` says of which answers this is true.
- `PreviewHub` writes to a socket from the publishing goroutine, the compositor and the goroutine that
  accepts it, without the lock that `ws.go` has for the other sockets (`preview_hub.go:108-114`). Writes begin
  and end in the model; of two that overlap either may panic, which ends the daemon unless it is the HTTP
  handler's, or their messages are mixed up (`BeginWrite`). In the run each pair of them does overlap.
- The page logs an error of its decoder and keeps it (`preview-stream.ts:82-84`). A decoder that an error
  closed decodes nothing any more, whatever keyframes come. So `PreviewRecovers` promises a
  clean picture to pages whose decoder lives and whose socket was never written to by two at once.
- `docs/DECISIONS.md:30` tells of a fallback to the driver's current format if setting one fails;
  `trySetFormat` and `setFormat` have none (`v4l2.go:177-223`).
- The estimate of the loop delay asks for three samples strictly within 500 ms and analyses every 250 ms,
  so with the default configuration it is hardly ever known (`config.go`, `delay.go:98-138`).

## 5. Proofs

Checked by `tlapm` in the eight `*_proofs` modules. They assume only what the
`ASSUME`s of the modules say of the constants: scores, thresholds, times and ids are
numbers, the log holds at least one event, the window is positive, a camera object
that is allocated is not one of those in use, a listed set has a first entry. No set is assumed
finite.

- **Selector** (`Selector_proofs`). `IInv` is the conjunction of the type invariant, the four
  safety properties and `TimersAgree` (the minimum hold agrees with the distance to the last event). They
  are inductive only together: a crossfade's step leaves its range unless the fade
  belongs to the last switch, the log ends at the routed stream only because a
  switch always changes it, and a margin switch is rested because of the timer its
  guard reads. `FinishKeeps`, `LoggedKeepsChain`, `KeepPreserves` and
  `SwitchPreserves` carry the argument, and `DecidePreserves` has a case for each branch.
  `OnlySilenceBreaksHold` is the converse of finding 1: without silence the hold the code runs is the lead there
  was (`HoldIsLead`), and a switch by margin keeps the plan's rule.
- **Signal path** (`Audio_proofs`). While a detector is on, the ticks without a voice and
  the ticks left to it add up to the hangover: that is inductive for any levels, since nothing
  in it depends on how levels feed back. The gain stays in its limits because an average of two
  values in a range lies in the range. The rings realign because their newest
  chunks agree, as many of them as were fed since the last short frame
  (`AppendRingNewest`); when that is a whole ring, the rings are equal. `EstimatesAreRecent`: an estimate is
  published only of samples that were filtered by age in the same step, however many old ones lie
  unpruned, and until the next publication none of them goes stale (`DelayAssumption`).
- **Ring** (`SpscRing_proofs`). `RingInv` says that each queued sample lies in the slot its number gives, that a
  write in progress is in free slots and a read in progress in queued ones. `ThreadsShareNoSlot` follows from two
  numbers less than a capacity apart never being in one slot, `RingImplementsFifo` from the queue being
  what lies between the positions. All of it is proved under `SlotsFollow` only: that the next position is in
  the next slot, which holds when positions have not wrapped, or wrap at a multiple of the capacity. The
  code's 2^32 is none, and finding 4 is what happens then; `ReadsAreRuns` is the converse, that nothing
  but the wrap can break the stream. `RingTypesHold` needs no such hypothesis.
- **Throttle** (`ParticipantHub_proofs`, first section). `ThrottleInv` adds to the types that a timer running
  after two early broadcasts was set later. `ThrottleImplementsLimit` follows: initial states map to
  initial states, and every step is a tick, a send or a stutter of `RateLimit`.
- **Hub** (`ParticipantHub_proofs`). `HubRunsThrottle` projects the hub's behaviours to the throttle's,
  which lifts both results. `HubInv` adds that a client is in the table exactly while its
  goroutine is between `Connect` and `Unregister`, and that only the mutex holder sends;
  `PeersOwned` rests on the first. `PushedWhenQuiet` needs what is true before the hub is
  quiet (`ViewInv`): a view that is shown, about to be written or being pushed is up to
  date, or overtaken, or a broadcast is still owed, by a timer or by a handler on its way to ask for one.
  `OnlyLostSocketsLeaveGhosts` is the converse of finding 3: if no socket is lost while its client is
  joined, whoever is listed is connected.
- **Capture** (`CaptureControl_proofs`). `IInv` joins the six properties with `LockDiscipline`
  (who is inside Reopen holds the mutex, of an open bundle), with what is captured while a
  Reopen is under way (the native capture is already the new one, the camera still the old one),
  and with what the room shows at every step of the one request that is served
  (`StepShown`). `FrameFromOpenCamera` rests on the camera's own mutex and on a new camera
  object being none that is in use. `LoneRequestsKeepOmitted` is the converse of finding 2: a request that no
  other overlaps keeps every field it omits, as long as the device is listed (`OmittedResolved`: what
  the request has resolved for it is what the room still shows).
- **Host, room, engine** (`Daemon_proofs`). Metrics have an owner because what the engine computes is of
  attached streams (`OwnerInv`). For `FlagsAgree`, while a request is between its halves the room is ahead of the pipeline,
  and without overlaps no other request is about the same stream (`FlagsInv`). `ConfigStaysLegal` is an invariant
  of every patch, whatever it names. `RoomNeverWaitsForEngine` is the lock order: while
  the room's lock is kept across a step, the engine's is free, so the publication, which takes it inside
  the room's, never waits for it.
- **Preview and units** (`Daemon_proofs`). `PreviewTypeCorrect` holds the channel at its capacity; a keyframe
  that waits for room has to be in the invariant. `CodesAreTheEncoders` states what TLC checks of
  short units for data of any length: if the data is an encoder's pieces one behind the other
  (`LaidOut`), the parser comes upon those start codes only, and takes out those units. The crux is `CodesOfPiece`: no
  code begins inside a unit, not even one that the next unit's code completes, because a unit does
  not end in a zero; the end of a long code looks like a short one and is skipped.
  The rest of the way is recursive over the data, so it needs induction. The library's induction theorems
  take an operator and cannot be instantiated, but that a set of numbers that is not empty has a least
  one (`LeastNumber`) is a first-order fact, from the well-founded subsets of a finite set; and the least
  byte or unit at which a recursion is not what it should be is a contradiction. `FlattenedInPlace` gives
  the place of each unit in a packet, `ParsedFromTheEnd` walks the lengths from the last unit to the
  first, and `ParsedUndoesPrefixed` joins them. `EncodedIsLaidOut` shows that the encoder's output is
  `LaidOut`, and `StreamComesApart` is the whole way from the encoder's units to the page's, for any number of
  units, with both packers and the keyframe marks. The invariant of the run, `ShortUnitsComeApart`, is an
  instance (`ShortUnitsDoComeApart`).
- **Output** (`VirtualOutput_proofs`). What is held is a function of the opening's step (`HeldAt`), which makes every
  error path a case; a format is usable from the step that sets it. `ScalingStaysInSource`,
  `YuyvStaysInFrame` (even widths) and `OddWidthOverruns` are facts of integer arithmetic for pictures of
  any size; the last two make `OverrunsExactlyOdd`. `FramesAlwaysFit` applies them to the life of the
  output, with nothing assumed of the driver's answers: what is past its priming has a format that fits, and
  a daemon that panicked had one of an odd width and wrote nothing. `OutputImplementsFifo` is the refinement of the abstract queue.
  `FailuresLast` is the safety half of `FailureShown`: a failure is for good, so one publication is enough.
- **Side by side.** `AudioTypeCorrect` and `DaemonTypeCorrect` put the type invariants of the models in `MC_Audio` and
  `MC_Daemon` together: a step is a step of one of them and leaves the others' variables alone
  (`OnePartMoves`), so the conjunction of their inductive invariants is inductive.
- **Session** (`ParticipantSession_proofs`). `Inv` adds that an armed timer implies an earlier
  connection (otherwise `beginReconnect` could show "idle" with a timer armed), and that an offer is only
  made for the open peer connection (otherwise the wait would start on a dead one).
  `ConnectingNeverIdles` is the safety half of `ConnectingEnds`: while the page connects, some session is
  `Pending`. What may end a session while others linger either sets it on its next step or changes what is shown.
  `OnlyStrandedSessionsHideLoss` is the converse of finding 5: if no step that costs the page its
  socket leaves a session past its welcome (`LossStrandsNobody`), a page that shows it is connected has one.
  `SocketInv` says why: there is one socket at a time, nobody is past its welcome without one, and a peer
  connection with a remote description is that of a page which is connected or about to be.

Only model-checked is all liveness (out of the prover's reach, as is ENABLED): `HoldEnds`,
`VideoFollowsTalker`, `RequestsAnswered`, `ViewsConverge`, `RequestsEnd`, `HostConverges`,
`PreviewRecovers`, `FailureShown`, `ConnectingEnds`. Of four of them a safety half is proved, which
says that what they wait for is still to come or that nothing undoes it: `CoalescingLosesNothing` of
`ViewsConverge`, `RoomNeverWaitsForEngine` of `RequestsEnd`, `FailuresLast` of `FailureShown`,
`ConnectingNeverIdles` of `ConnectingEnds`. Every invariant of the runs is proved.

No module uses a RECURSIVE operator.

## 6. Where to go on

The models were written in this order: selector; capture; participant hub; ring; participant
page; room, engine and host hub; output; signal processing; preview. What would add most
to them:

1. The hub and the host hub over one room, with the audio goroutine calling both: each model now has
   the other's effect on the room as an input.
2. The mixer's crossfade and ducking gains. The pipeline applies the ducking gain that the engine
   gives it to the frame (`engine.go:121-133`, `pipeline.go:165`) and the mixer applies it to the mix
   (`mixer.go:51-56`): a model of the sums would state what they should add up to.
3. `ParticipantSession` with `ParticipantHub`: what the page shows against what the hub holds.

## 7. Not modelled

- *PipeWire capture thread.* Open, run, quit and join of `sp_capture.c` are a handshake with
  libpipewire's loop, which is not in the repository; whether a quit that comes before the loop runs is
  lost is that library's business.
- *Signal processing proper.* Sums of samples, FFT, correlation, filters: floating point. `aec` and
  `enhance` are pass-throughs in this build.
- *Jitter buffers.* On real devices the tick that pushes a frame pulls it (`engine.go:94-127`), so that a
  buffer holds one at most; only `-mock` fills them from another goroutine.
- *The demonstration* (`-mock`): the scenario that is not driven by audio, and the mock server.
- *Encoders, device enumeration, WebRTC media*: libraries and the kernel.
- *Pages.* Rendering, settings, the host page's store; tracks and device switches of the participant page.
- *Code that nothing calls*: `RouteTo`, `SetMixerState`, `ParseMixerState`, `OnActiveVideoChange`
  listeners, `ReplaceMetrics`, `ReplaceSelection`, `AttachReference`, `ApplyConfig`,
  `ResetLoopDelaySamples`, `applyDelayTrim`, the preview's `MockStream`.
- *What the repository promises nothing about*, although the models show or name it: `ReadMic` may use a
  handle that Reopen has freed (`bundle.go:179`); writes to sockets have no deadline
  (`participant.go:177`); the sample queue has no limit (`pulse.go:42`); an output that opens late is
  never closed (`run.go:90`); without a capture no audio goroutine runs, so that the output's health is not
  updated, and a REST request for stream processing meets a nil engine (`run.go:157`).
