------------------------------ MODULE Selector ------------------------------
(***************************************************************************)
(* The talker selector of the spidercam daemon (internal/selector).        *)
(*                                                                         *)
(* Every second tick of the audio engine (engine.go:142) calls Select with *)
(* the metrics of the streams that delivered a frame in that tick.  Select *)
(* decides which stream is heard (mainAudio) and which is shown            *)
(* (mainVideo), with hysteresis: a louder challenger takes over at once    *)
(* when it dominates the incumbent (emergency), otherwise only after it    *)
(* led by SwitchMargin for AudioHold and no switch happened for MinHold.   *)
(*                                                                         *)
(* Time is counted in selector ticks (tickMs = 20); one call of Select is  *)
(* one step, d ticks after the previous one.  The code keeps time stamps   *)
(* and compares their distance to now with a duration; the model keeps the *)
(* distances, saturated at the duration they are compared with.            *)
(*                                                                         *)
(* Every stream of the engine is AudioActive (pipeline.go:196) and the     *)
(* playback reference is never one of its streams, so filterCandidates     *)
(* keeps every metric Select is given.                                     *)
(***************************************************************************)
EXTENDS Integers, Sequences

CONSTANTS
  Streams,          \* ids of the engine's streams, ordered as the ids are
  DefaultAudioID,   \* cfg.DefaultAudioID: a stream, or NoStream for ""
  DefaultVideoID,   \* cfg.DefaultVideoID
  Scores,           \* values of ScoreSmooth
  SilenceThreshold, \* cfg.SilenceScoreThreshold
  SwitchMargin,     \* cfg.SwitchMargin
  EmergencyRatio,   \* cfg.EmergencyScoreRatio
  AudioHold,        \* cfg.AudioHoldMs, in ticks
  MinHold,          \* cfg.MinHoldAfterSwitchMs, in ticks
  VideoHold,        \* cfg.VideoHoldMs, in ticks
  CrossfadeTicks,   \* cfg.CrossfadeMs / tickMs, rounded up
  MaxEvents,        \* switch events kept for the timeline (50 in the code)
  Delays            \* ticks that may pass between two calls of Select

ASSUME SelectorAssumption ==
  /\ Streams \subseteq Nat
  /\ DefaultAudioID \in Streams \cup {-1}
  /\ DefaultVideoID \in Streams \cup {-1}
  /\ Scores \subseteq Nat
  /\ SilenceThreshold \in Nat
  /\ SwitchMargin \in Nat
  /\ EmergencyRatio \in Nat
  /\ AudioHold \in Nat
  /\ MinHold \in Nat
  /\ VideoHold \in Nat
  /\ CrossfadeTicks \in Nat
  /\ MaxEvents \in Nat \ {0}
  /\ Delays \subseteq Nat

NoStream == -1
MaybeStream == Streams \cup {NoStream}

\* A crossfade record; t counts the steps of tickMs/CrossfadeMs taken so far.
NoFade == [from |-> NoStream, to |-> NoStream, t |-> 0]
Fades == [from : Streams, to : Streams, t : 0 .. CrossfadeTicks] \cup {NoFade}

\* At is kept as what it is compared for: rested says that more than MinHold
\* passed since the switch before.  led (history) says that at every call of
\* the last AudioHold ticks some challenger led by the margin.
SwitchEvent == [from : Streams, to : Streams,
                reason : {"emergency", "score_margin"},
                rested : BOOLEAN, led : BOOLEAN]

\* What one tick's metrics can be: a score for each stream that had a frame.
MetricSets == UNION { [S -> Scores] : S \in SUBSET Streams }

VARIABLES
  mainAudio,     \* State.MainAudioID
  mainVideo,     \* State.MainVideoID
  pendingVideo,  \* State.pendingVideoID
  videoAge,      \* ticks since State.lastVideoSwitch, 0 when nothing is pending
  marginAge,     \* ticks since State.marginHoldStart, -1 when it is zero
  minHoldLeft,   \* ticks until State.minHoldUntil, -1 once now is after it
  crossfade,     \* State.crossfade
  switchEvents,  \* State.switchEvents
  sel,           \* the SelectionState the last call returned
  sinceSwitch,   \* history: ticks since the last switch, at most MinHold + 1
  leadAge        \* history: ticks for which every call found the margin met

vars == <<mainAudio, mainVideo, pendingVideo, videoAge, marginAge,
          minHoldLeft, crossfade, switchEvents, sel, sinceSwitch, leadAge>>

SelectionStates ==
  [activeVideo : MaybeStream, activeAudio : MaybeStream,
   mainTalker : MaybeStream,
   mixerState : {"SILENCE", "LOCKED", "HOLD", "SWITCH"},
   reason : {"none", "silence", "locked", "emergency", "score_margin", "hold", "margin"},
   holdRemaining : 0 .. AudioHold, crossfade : Fades]

\* NewState, and the selection NewEngine publishes before the first call.
Init ==
  /\ mainAudio = DefaultAudioID
  /\ mainVideo = DefaultVideoID
  /\ pendingVideo = NoStream
  /\ videoAge = 0
  /\ marginAge = -1
  /\ minHoldLeft = -1
  /\ crossfade = NoFade
  /\ switchEvents = << >>
  /\ sel = [activeVideo |-> DefaultVideoID, activeAudio |-> DefaultAudioID,
            mainTalker |-> DefaultAudioID, mixerState |-> "SILENCE",
            reason |-> "none", holdRemaining |-> 0, crossfade |-> NoFade]
  /\ sinceSwitch = MinHold + 1
  /\ leadAge = -1

-----------------------------------------------------------------------------
(* Time: the timers d ticks after the previous call.                       *)

AtMost(bound, n) == IF n > bound THEN bound ELSE n

HoldRunning(age, d) == IF age = -1 THEN -1 ELSE AtMost(AudioHold, age + d)
MarginAfter_Restarts(d) == -1
MarginAfter(d) == HoldRunning(marginAge, d)

MinHoldAfter(d) == IF minHoldLeft < d THEN -1 ELSE minHoldLeft - d

VideoAgeAfter_Restarts(d) == 0
VideoAgeAfter(d) ==
  IF pendingVideo = NoStream THEN 0 ELSE AtMost(VideoHold, videoAge + d)

-----------------------------------------------------------------------------
(* The ranking of the streams.                                             *)

Active(m) == { s \in DOMAIN m : m[s] >= SilenceThreshold }

\* c is active[0]: the best score, the smaller id among equals.
Challenger(m, c) ==
  /\ c \in Active(m)
  /\ \A s \in Active(m) : m[c] > m[s] \/ (m[c] = m[s] /\ c <= s)

\* The metrics with an active stream, each with its challenger.
Ranked == { r \in MetricSets \X Streams : Challenger(r[1], r[2]) }

\* A stream that is not among the metrics is represented by the challenger.
IncumbentScore(m, c) == IF mainAudio \in DOMAIN m THEN m[mainAudio] ELSE m[c]

Dominates(m, c) == m[c] >= EmergencyRatio * IncumbentScore(m, c)
LeadsByMargin(m, c) == m[c] > IncumbentScore(m, c) + SwitchMargin

-----------------------------------------------------------------------------
(* What every call with an active stream does after the audio decision.    *)

UpdateVideo(c, d) ==
  \/ /\ c = mainVideo
     /\ pendingVideo' = NoStream
     /\ videoAge' = 0
     /\ UNCHANGED mainVideo
  \/ /\ c \notin {mainVideo, pendingVideo}
     /\ pendingVideo' = c
     /\ videoAge' = 0
     /\ UNCHANGED mainVideo
  \/ /\ c # mainVideo /\ c = pendingVideo
     /\ VideoAgeAfter(d) < VideoHold
     /\ videoAge' = VideoAgeAfter(d)
     /\ UNCHANGED <<mainVideo, pendingVideo>>
  \/ /\ c # mainVideo /\ c = pendingVideo
     /\ VideoAgeAfter(d) >= VideoHold
     /\ mainVideo' = c
     /\ pendingVideo' = NoStream
     /\ videoAge' = 0

Stepped(f) == IF f = NoFade THEN NoFade ELSE [f EXCEPT !.t = @ + 1]

\* The step that completes a crossfade is returned with T = 1 and forgotten.
AdvanceCrossfade_OneLate(f) == IF f.t + 1 > CrossfadeTicks THEN NoFade ELSE Stepped(f)
AdvanceCrossfade(f) == IF f.t + 1 >= CrossfadeTicks THEN NoFade ELSE Stepped(f)

\* The end of a call: f is the crossfade the audio decision left.
Finish(c, d, mixer, reason, f) ==
  /\ UpdateVideo(c, d)
  /\ crossfade' = AdvanceCrossfade(f)
  /\ sel' = [activeVideo |-> mainVideo', activeAudio |-> mainAudio',
             mainTalker |-> c, mixerState |-> mixer, reason |-> reason,
             holdRemaining |-> IF mixer = "HOLD" /\ marginAge' # -1
                               THEN AudioHold - marginAge' ELSE 0,
             crossfade |-> Stepped(f)]

-----------------------------------------------------------------------------
(* The audio decision: one action for each branch of Select.               *)

\* The timers of a call that does not switch.
KeepAudio(d) ==
  /\ minHoldLeft' = MinHoldAfter(d)
  /\ sinceSwitch' = AtMost(MinHold + 1, sinceSwitch + d)
  /\ UNCHANGED switchEvents

Logged_KeepsOldest(e) ==
  IF Len(switchEvents) < MaxEvents THEN Append(switchEvents, e) ELSE switchEvents
Logged(e) ==
  Append(IF Len(switchEvents) < MaxEvents THEN switchEvents ELSE Tail(switchEvents), e)

MinHoldRestart_Forgotten == -1
MinHoldRestart == MinHold

\* switchAudio, which is called with a challenger that is not the main stream.
SwitchAudio(c, d, reason, led) ==
  /\ mainAudio' = c
  /\ switchEvents' = Logged([from |-> mainAudio, to |-> c, reason |-> reason,
                             rested |-> sinceSwitch + d > MinHold, led |-> led])
  /\ minHoldLeft' = MinHoldRestart
  /\ marginAge' = -1
  /\ sinceSwitch' = 0
  /\ leadAge' = -1

FadeTo(c) == IF CrossfadeTicks = 0 THEN NoFade
             ELSE [from |-> mainAudio, to |-> c, t |-> 0]

\* No stream reaches the threshold: Select returns at once.
Silence_KeepsFade(d) ==
  /\ \E m \in MetricSets : Active(m) = {}
  /\ sel' = [activeVideo |-> mainVideo, activeAudio |-> DefaultAudioID,
             mainTalker |-> DefaultAudioID, mixerState |-> "SILENCE",
             reason |-> "silence", holdRemaining |-> 0, crossfade |-> crossfade]
  /\ marginAge' = MarginAfter(d) /\ videoAge' = VideoAgeAfter(d)
  /\ leadAge' = -1
  /\ KeepAudio(d)
  /\ UNCHANGED <<mainAudio, mainVideo, pendingVideo, crossfade>>

Silence(d) ==
  /\ \E m \in MetricSets : Active(m) = {}
  /\ crossfade' = NoFade
  /\ sel' = [activeVideo |-> mainVideo, activeAudio |-> DefaultAudioID,
             mainTalker |-> DefaultAudioID, mixerState |-> "SILENCE",
             reason |-> "silence", holdRemaining |-> 0, crossfade |-> NoFade]
  /\ marginAge' = MarginAfter(d)
  /\ videoAge' = VideoAgeAfter(d)
  /\ leadAge' = -1
  /\ KeepAudio(d)
  /\ UNCHANGED <<mainAudio, mainVideo, pendingVideo>>

\* The challenger is the main stream, or becomes it when there is none.
Locked(m, c, d) ==
  /\ mainAudio \in {c, NoStream}
  /\ mainAudio' = c
  /\ marginAge' = -1
  /\ leadAge' = -1
  /\ KeepAudio(d)
  /\ Finish(c, d, "LOCKED", "locked", crossfade)

Contested(c) == mainAudio \notin {c, NoStream}

\* The challenger dominates the incumbent: neither hold applies.
Emergency(m, c, d) ==
  /\ Contested(c)
  /\ Dominates(m, c)
  /\ SwitchAudio(c, d, "emergency", FALSE)
  /\ Finish(c, d, "SWITCH", "emergency", FadeTo(c))

\* The margin is met: the age of the lead, which may start with this call.
Started(age) == IF age = -1 THEN 0 ELSE age
MarginHeld(d) == Started(MarginAfter(d))
MarginLed(d) == Started(HoldRunning(leadAge, d))
MaySwitch(d) == MarginHeld(d) = AudioHold /\ MinHoldAfter(d) = -1

MarginSwitch(m, c, d) ==
  /\ Contested(c)
  /\ ~Dominates(m, c)
  /\ LeadsByMargin(m, c)
  /\ MaySwitch(d)
  /\ SwitchAudio(c, d, "score_margin", MarginLed(d) = AudioHold)
  /\ Finish(c, d, "SWITCH", "score_margin", FadeTo(c))

MarginHold(m, c, d) ==
  /\ Contested(c)
  /\ ~Dominates(m, c)
  /\ LeadsByMargin(m, c)
  /\ ~MaySwitch(d)
  /\ marginAge' = MarginHeld(d)
  /\ leadAge' = MarginLed(d)
  /\ KeepAudio(d)
  /\ UNCHANGED mainAudio
  /\ Finish(c, d, "HOLD", "hold", crossfade)

BelowMargin(m, c, d) ==
  /\ Contested(c)
  /\ ~Dominates(m, c)
  /\ ~LeadsByMargin(m, c)
  /\ marginAge' = -1
  /\ leadAge' = -1
  /\ KeepAudio(d)
  /\ UNCHANGED mainAudio
  /\ Finish(c, d, "HOLD", "margin", crossfade)

Decide(m, c, d) ==
  \/ Locked(m, c, d)
  \/ Emergency(m, c, d)
  \/ MarginSwitch(m, c, d)
  \/ MarginHold(m, c, d)
  \/ BelowMargin(m, c, d)

\* One call of Select.
Next ==
  \E d \in Delays :
    \/ Silence(d)
    \/ \E r \in Ranked : Decide(r[1], r[2], d)

\* The engine's ticker calls Select for as long as the daemon runs.
Spec == Init /\ [][Next]_vars /\ WF_vars(Next)

-----------------------------------------------------------------------------
(* Properties.                                                             *)

\* Every variable, and the SelectionState handed to the room and the mixer,
\* has its type; in particular no timer or crossfade step leaves its range.
TypeOK ==
  /\ mainAudio \in MaybeStream
  /\ mainVideo \in MaybeStream
  /\ pendingVideo \in MaybeStream
  /\ videoAge \in 0 .. VideoHold
  /\ marginAge \in -1 .. AudioHold
  /\ minHoldLeft \in -1 .. MinHold
  /\ crossfade \in Fades
  /\ switchEvents \in Seq(SwitchEvent)
  /\ Len(switchEvents) <= MaxEvents
  /\ sel \in SelectionStates
  /\ sinceSwitch \in 0 .. MinHold + 1
  /\ leadAge \in -1 .. AudioHold

LastEvent == switchEvents[Len(switchEvents)]

\* The timeline the host sees explains the route: each switch starts where the
\* one before ended, goes to another stream, and the last one ended at the
\* stream that is heard now, also after old events were dropped.
EventChain ==
  /\ \A i \in 1 .. Len(switchEvents) - 1 : switchEvents[i].to = switchEvents[i + 1].from
  /\ \A i \in 1 .. Len(switchEvents) : switchEvents[i].from # switchEvents[i].to
  /\ switchEvents # << >> => LastEvent.to = mainAudio

\* A running crossfade is the one of the last switch: it fades from the stream
\* that was heard before to the stream that is heard now, and it never stays
\* behind after its last step (the mixer would blend the old stream in for ever).
CrossfadeOfLastSwitch ==
  crossfade # NoFade =>
    /\ switchEvents # << >>
    /\ crossfade.from = LastEvent.from
    /\ crossfade.to = mainAudio
    /\ crossfade.t \in 1 .. CrossfadeTicks - 1

\* The history clock and the code's own timer measure the same distance.
TimersAgree == minHoldLeft + sinceSwitch = MinHold

\* What the room and the mixer are told agrees with the selector's own state,
\* on every return path: silence routes the default stream and fades nothing,
\* any other state routes the main stream and fades only towards it; the
\* challenger is reported as held back exactly when it is not heard.
SelectionAgrees ==
  IF sel.mixerState = "SILENCE"
  THEN /\ sel.activeAudio = DefaultAudioID
       /\ sel.crossfade = NoFade
       /\ crossfade = NoFade
  ELSE /\ sel.activeAudio = mainAudio
       /\ sel.crossfade # NoFade => sel.crossfade.to = mainAudio
       /\ sel.mixerState = "HOLD" <=> sel.mainTalker # mainAudio

\* After a switch, only an emergency switches again before MinHold has passed:
\* a stream that leads by the margin has to wait, silence or not.
NoMarginFlap ==
  \A i \in 1 .. Len(switchEvents) :
    switchEvents[i].reason = "score_margin" => switchEvents[i].rested

\* A switch by margin follows AudioHold of uninterrupted lead (rule 2 of the
\* plan's hysteresis, "Condition holds for T_hold").
MarginHeldThroughout ==
  \A i \in 1 .. Len(switchEvents) :
    switchEvents[i].reason = "score_margin" => switchEvents[i].led

\* A challenger that keeps leading by the margin is not held back for ever.
HoldEnds == sel.reason = "hold" ~> sel.reason # "hold"

\* A stream that stays the loudest is eventually shown, whoever is heard.
VideoFollowsTalker ==
  \A s \in Streams :
    ~ <>[](sel.mixerState # "SILENCE" /\ sel.mainTalker = s /\ mainVideo # s)
=============================================================================
