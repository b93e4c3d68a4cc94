-------------------------- MODULE Selector_proofs ---------------------------
(***************************************************************************)
(* Safety of the selector for every set of streams, every set of scores,   *)
(* every threshold and every hold time.                                    *)
(*                                                                         *)
(* The inductive invariant is the conjunction of the five properties with  *)
(* TimersAgree.  They need each other: a step of the crossfade leaves its  *)
(* range unless the fade is one of CrossfadeOfLastSwitch, the last event   *)
(* ends at mainAudio only because switchAudio is called with another       *)
(* stream, and a switch by margin is rested because minHoldLeft, which its *)
(* guard reads, agrees with the distance to the event before.              *)
(***************************************************************************)
EXTENDS Selector, TLAPS, SequenceTheorems

IInv ==
  /\ TypeOK
  /\ EventChain
  /\ CrossfadeOfLastSwitch
  /\ SelectionAgrees
  /\ TimersAgree
  /\ NoMarginFlap

\* A fade the audio decision may hand to Finish: steps are left to take.
Open(f) == f \in Fades /\ (f # NoFade => f.t < CrossfadeTicks)

-----------------------------------------------------------------------------
(* What the end of a call guarantees, whatever the audio decision was.     *)

\* The crossfade that survives a step is the one handed over, one step on.
LEMMA FadeSteps ==
  ASSUME NEW f, Open(f)
  PROVE  /\ Stepped(f) \in Fades
         /\ Stepped(f) # NoFade => f # NoFade /\ Stepped(f).to = f.to
         /\ AdvanceCrossfade(f) \in Fades
         /\ AdvanceCrossfade(f) # NoFade =>
              /\ f # NoFade
              /\ AdvanceCrossfade(f).from = f.from
              /\ AdvanceCrossfade(f).to = f.to
              /\ AdvanceCrossfade(f).t \in 1 .. CrossfadeTicks - 1
<1>1. CASE f = NoFade
  <2>1. Stepped(f) = NoFade
    BY <1>1 DEF Stepped
  <2>2. AdvanceCrossfade(f) = NoFade
    BY <1>1, <2>1 DEF AdvanceCrossfade
  <2>. QED BY <2>1, <2>2 DEF Fades
<1>2. CASE f # NoFade
  <2>1. f \in [from : Streams, to : Streams, t : 0 .. CrossfadeTicks] /\ f.t < CrossfadeTicks
    BY <1>2 DEF Open, Fades
  <2>2. Stepped(f) = [from |-> f.from, to |-> f.to, t |-> f.t + 1]
    BY <1>2, <2>1 DEF Stepped
  <2>3. Stepped(f) \in Fades
    BY <2>1, <2>2, SelectorAssumption DEF SelectorAssumption, Fades
  <2>. QED
    BY <1>2, <2>1, <2>2, <2>3, SelectorAssumption DEF SelectorAssumption, AdvanceCrossfade, Fades
<1>. QED BY <1>1, <1>2

\* What is left of a hold is between nothing and all of it (selector.go:103-111).
LEMMA RestOfHold ==
  ASSUME NEW hold \in Nat, NEW age \in -1 .. hold, age # -1
  PROVE  hold - age \in 0 .. hold
OBVIOUS

\* Finish keeps the types of what it assigns and reports the stream it routes.
LEMMA FinishKeeps ==
  ASSUME TypeOK, NEW c \in Streams, NEW d \in Delays,
         NEW mixer \in {"LOCKED", "HOLD", "SWITCH"},
         NEW reason \in {"locked", "emergency", "score_margin", "hold", "margin"},
         NEW f, Open(f),
         mainAudio' \in MaybeStream, marginAge' \in -1 .. AudioHold,
         Finish(c, d, mixer, reason, f)
  PROVE  /\ mainVideo' \in MaybeStream
         /\ pendingVideo' \in MaybeStream
         /\ videoAge' \in 0 .. VideoHold
         /\ crossfade' \in Fades
         /\ sel' \in SelectionStates
         /\ crossfade' # NoFade =>
              /\ f # NoFade
              /\ crossfade'.from = f.from
              /\ crossfade'.to = f.to
              /\ crossfade'.t \in 1 .. CrossfadeTicks - 1
         /\ sel'.mixerState = mixer
         /\ sel'.activeAudio = mainAudio'
         /\ sel'.mainTalker = c
         /\ sel'.crossfade # NoFade => f # NoFade /\ sel'.crossfade.to = f.to
<1>. USE SelectorAssumption DEF SelectorAssumption, MaybeStream, NoStream
<1>1. /\ mainVideo' \in MaybeStream
      /\ pendingVideo' \in MaybeStream
      /\ videoAge' \in 0 .. VideoHold
  BY DEF Finish, UpdateVideo, VideoAgeAfter, AtMost, TypeOK
<1>2. crossfade' = AdvanceCrossfade(f)
  BY DEF Finish
<1>3. (IF mixer = "HOLD" /\ marginAge' # -1 THEN AudioHold - marginAge' ELSE 0)
         \in 0 .. AudioHold
  <2>1. CASE mixer = "HOLD" /\ marginAge' # -1
    <3>1. AudioHold - marginAge' \in 0 .. AudioHold
      BY <2>1, RestOfHold
    <3>. QED BY <2>1, <3>1
  <2>2. CASE ~(mixer = "HOLD" /\ marginAge' # -1)
    <3>1. 0 \in 0 .. AudioHold
      OBVIOUS
    <3>. QED BY <2>2, <3>1
  <2>. QED BY <2>1, <2>2
<1>4. sel' = [activeVideo |-> mainVideo', activeAudio |-> mainAudio',
              mainTalker |-> c, mixerState |-> mixer, reason |-> reason,
              holdRemaining |-> IF mixer = "HOLD" /\ marginAge' # -1
                                THEN AudioHold - marginAge' ELSE 0,
              crossfade |-> Stepped(f)]
  BY DEF Finish
<1>5. sel' \in SelectionStates
  BY <1>1, <1>3, <1>4, FadeSteps DEF SelectionStates
<1>. QED BY <1>1, <1>2, <1>4, <1>5, FadeSteps

-----------------------------------------------------------------------------
(* The event log.                                                          *)

\* The log after a switch is a chain again, however long it was.
LEMMA LoggedKeepsChain ==
  ASSUME TypeOK, EventChain, NoMarginFlap,
         NEW e \in SwitchEvent, e.from = mainAudio, e.from # e.to,
         e.reason = "score_margin" => e.rested
  PROVE  /\ Logged(e) \in Seq(SwitchEvent)
         /\ Logged(e) # << >>
         /\ Len(Logged(e)) \in 1 .. MaxEvents
         /\ Logged(e)[Len(Logged(e))] = e
         /\ \A i \in 1 .. Len(Logged(e)) - 1 : Logged(e)[i].to = Logged(e)[i + 1].from
         /\ \A i \in 1 .. Len(Logged(e)) : Logged(e)[i].from # Logged(e)[i].to
         /\ \A i \in 1 .. Len(Logged(e)) :
              Logged(e)[i].reason = "score_margin" => Logged(e)[i].rested
<1>. DEFINE kept == IF Len(switchEvents) < MaxEvents THEN switchEvents
                                                     ELSE Tail(switchEvents)
<1>. USE SelectorAssumption DEF SelectorAssumption
<1>1. /\ kept \in Seq(SwitchEvent)
      /\ Len(kept) < MaxEvents
      /\ \A i \in 1 .. Len(kept) - 1 : kept[i].to = kept[i + 1].from
      /\ \A i \in 1 .. Len(kept) : kept[i].from # kept[i].to
      /\ \A i \in 1 .. Len(kept) : kept[i].reason = "score_margin" => kept[i].rested
      /\ kept # << >> => kept[Len(kept)].to = mainAudio
  <2>1. CASE Len(switchEvents) < MaxEvents
    BY <2>1 DEF TypeOK, EventChain, NoMarginFlap, LastEvent
  <2>2. CASE ~(Len(switchEvents) < MaxEvents)
    <3>1. /\ switchEvents \in Seq(SwitchEvent)
          /\ switchEvents # << >>
          /\ Len(switchEvents) = MaxEvents
      BY <2>2 DEF TypeOK
    <3>2. /\ kept \in Seq(SwitchEvent)
          /\ Len(kept) = MaxEvents - 1
          /\ \A i \in 1 .. Len(kept) : kept[i] = switchEvents[i + 1]
      BY <2>2, <3>1
    <3>. QED BY <3>1, <3>2 DEF EventChain, NoMarginFlap, LastEvent
  <2>. QED BY <2>1, <2>2
<1>2. Logged(e) = Append(kept, e)
  BY DEF Logged
<1>. HIDE DEF kept
<1>3. /\ Logged(e) \in Seq(SwitchEvent)
      /\ Len(Logged(e)) = Len(kept) + 1
      /\ Logged(e)[Len(kept) + 1] = e
      /\ \A i \in 1 .. Len(kept) : Logged(e)[i] = kept[i]
  BY <1>1, <1>2
<1>4. \A i \in 1 .. Len(Logged(e)) - 1 : Logged(e)[i].to = Logged(e)[i + 1].from
  <2>. SUFFICES ASSUME NEW i \in 1 .. Len(kept)
                PROVE  Logged(e)[i].to = Logged(e)[i + 1].from
    BY <1>1, <1>3
  <2>1. CASE i = Len(kept)
    BY <2>1, <1>1, <1>3
  <2>2. CASE i # Len(kept)
    BY <2>2, <1>1, <1>3
  <2>. QED BY <2>1, <2>2
<1>5. \A i \in 1 .. Len(Logged(e)) : Logged(e)[i].from # Logged(e)[i].to
  BY <1>1, <1>3
<1>6. \A i \in 1 .. Len(Logged(e)) :
        Logged(e)[i].reason = "score_margin" => Logged(e)[i].rested
  <2>. SUFFICES ASSUME NEW i \in 1 .. Len(kept) + 1, Logged(e)[i].reason = "score_margin"
                PROVE  Logged(e)[i].rested
    BY <1>3
  <2>1. CASE i = Len(kept) + 1
    <3>1. Logged(e)[i] = e
      BY <2>1, <1>3
    <3>. QED BY <3>1
  <2>2. CASE i # Len(kept) + 1
    <3>1. i \in 1 .. Len(kept) /\ Logged(e)[i] = kept[i]
      BY <2>2, <1>1, <1>3
    <3>. QED BY <3>1, <1>1
  <2>. QED BY <2>1, <2>2
<1>7. Len(Logged(e)) \in 1 .. MaxEvents /\ Logged(e) # << >>
  BY <1>1, <1>3
<1>. QED BY <1>1, <1>3, <1>4, <1>5, <1>6, <1>7

-----------------------------------------------------------------------------
(* The five actions that decide on a challenger.                           *)

\* The timers keep agreeing while they run.
LEMMA TimersRun ==
  ASSUME TypeOK, TimersAgree, NEW d \in Delays, KeepAudio(d)
  PROVE  /\ minHoldLeft' \in -1 .. MinHold
         /\ sinceSwitch' \in 0 .. MinHold + 1
         /\ TimersAgree'
         /\ switchEvents' = switchEvents
  BY SelectorAssumption DEF SelectorAssumption, TypeOK, TimersAgree, KeepAudio, MinHoldAfter, AtMost

\* The margin timers stay within the hold they are compared with.
LEMMA TimersTyped ==
  ASSUME TypeOK, NEW d \in Delays
  PROVE  /\ MarginAfter(d) \in -1 .. AudioHold
         /\ MarginHeld(d) \in 0 .. AudioHold
         /\ MarginLed(d) \in 0 .. AudioHold
  BY SelectorAssumption
     DEF SelectorAssumption, TypeOK, MarginAfter, MarginHeld, MarginLed, HoldRunning, Started, AtMost

\* A call that keeps the audio route keeps the invariant.
LEMMA KeepPreserves ==
  ASSUME IInv, NEW c \in Streams, NEW d \in Delays,
         NEW mixer \in {"LOCKED", "HOLD"},
         NEW reason \in {"locked", "hold", "margin"},
         KeepAudio(d), Finish(c, d, mixer, reason, crossfade),
         mainAudio' = mainAudio \/ (mainAudio = NoStream /\ mainAudio' = c),
         mixer = "HOLD" <=> c # mainAudio',
         marginAge' \in -1 .. AudioHold, leadAge' \in -1 .. AudioHold
  PROVE  IInv'
<1>. USE SelectorAssumption DEF SelectorAssumption
<1>1. Open(crossfade)
  BY DEF IInv, TypeOK, CrossfadeOfLastSwitch, Open
<1>2. mainAudio' \in MaybeStream
  BY DEF IInv, TypeOK, MaybeStream
<1>3. mainAudio = NoStream => switchEvents = << >>
  <2>. SUFFICES ASSUME mainAudio = NoStream, switchEvents # << >>
                PROVE  FALSE
    OBVIOUS
  <2>1. LastEvent \in SwitchEvent
    BY DEF IInv, TypeOK, LastEvent
  <2>2. LastEvent.to \in Streams
    BY <2>1 DEF SwitchEvent
  <2>. QED BY <2>2 DEF IInv, EventChain, NoStream
<1>4. /\ minHoldLeft' \in -1 .. MinHold
      /\ sinceSwitch' \in 0 .. MinHold + 1
      /\ TimersAgree'
      /\ switchEvents' = switchEvents
  BY TimersRun DEF IInv
<1>5. /\ mainVideo' \in MaybeStream
      /\ pendingVideo' \in MaybeStream
      /\ videoAge' \in 0 .. VideoHold
      /\ crossfade' \in Fades
      /\ sel' \in SelectionStates
      /\ crossfade' # NoFade =>
           /\ crossfade # NoFade
           /\ crossfade'.from = crossfade.from
           /\ crossfade'.to = crossfade.to
           /\ crossfade'.t \in 1 .. CrossfadeTicks - 1
      /\ sel'.mixerState = mixer
      /\ sel'.activeAudio = mainAudio'
      /\ sel'.mainTalker = c
      /\ sel'.crossfade # NoFade => crossfade # NoFade /\ sel'.crossfade.to = crossfade.to
  <2>1. TypeOK
    BY DEF IInv
  <2>. HIDE DEF Finish
  <2>. QED BY <1>1, <1>2, <2>1, FinishKeeps
<1>6. TypeOK'
  BY <1>2, <1>4, <1>5 DEF IInv, TypeOK
<1>7. crossfade # NoFade => switchEvents # << >> /\ mainAudio' = mainAudio
  BY <1>3 DEF IInv, CrossfadeOfLastSwitch
<1>8. EventChain'
  BY <1>3, <1>4 DEF IInv, EventChain, LastEvent
<1>9. CrossfadeOfLastSwitch'
  BY <1>4, <1>5, <1>7 DEF IInv, CrossfadeOfLastSwitch, LastEvent
<1>10. SelectionAgrees'
  BY <1>5, <1>7 DEF IInv, CrossfadeOfLastSwitch, SelectionAgrees
<1>11. NoMarginFlap'
  BY <1>4 DEF IInv, NoMarginFlap
<1>. QED BY <1>4, <1>6, <1>8, <1>9, <1>10, <1>11 DEF IInv

\* A call that switches keeps the invariant, provided a switch by margin waited.
LEMMA SwitchPreserves ==
  ASSUME IInv, NEW c \in Streams, NEW d \in Delays,
         NEW reason \in {"emergency", "score_margin"}, NEW led \in BOOLEAN,
         Contested(c),
         reason = "score_margin" => MinHoldAfter(d) = -1,
         SwitchAudio(c, d, reason, led), Finish(c, d, "SWITCH", reason, FadeTo(c))
  PROVE  IInv'
<1>. USE SelectorAssumption DEF SelectorAssumption
<1>. DEFINE e == [from |-> mainAudio, to |-> c, reason |-> reason,
                  rested |-> sinceSwitch + d > MinHold, led |-> led]
<1>1. mainAudio \in Streams /\ mainAudio # c
  BY DEF IInv, TypeOK, MaybeStream, Contested
<1>2. reason = "score_margin" => sinceSwitch + d > MinHold
  <2>1. minHoldLeft \in Int /\ sinceSwitch \in Int /\ MinHold \in Int /\ d \in Nat
    BY DEF IInv, TypeOK
  <2>2. minHoldLeft + sinceSwitch = MinHold
    BY DEF IInv, TimersAgree
  <2>3. MinHoldAfter(d) = -1 => minHoldLeft < d
    BY <2>1 DEF MinHoldAfter
  <2>. QED BY <2>1, <2>2, <2>3
<1>3. e \in SwitchEvent /\ e.from = mainAudio /\ e.to = c
      /\ (e.reason = "score_margin" => e.rested)
  <2>. DEFINE rest == sinceSwitch + d > MinHold
  <2>1. rest \in BOOLEAN
    OBVIOUS
  <2>2. reason = "score_margin" => rest
    BY <1>2
  <2>3. e = [from |-> mainAudio, to |-> c, reason |-> reason,
             rested |-> rest, led |-> led]
    OBVIOUS
  <2>. HIDE DEF rest, e
  <2>. QED BY <1>1, <2>1, <2>2, <2>3 DEF SwitchEvent
<1>4. /\ mainAudio' = c
      /\ switchEvents' = Logged(e)
      /\ minHoldLeft' = MinHold /\ sinceSwitch' = 0
      /\ marginAge' = -1 /\ leadAge' = -1
  BY DEF SwitchAudio, MinHoldRestart
<1>. HIDE DEF e
<1>5. /\ switchEvents' \in Seq(SwitchEvent)
      /\ switchEvents' # << >>
      /\ Len(switchEvents') \in 1 .. MaxEvents
      /\ LastEvent' = e
      /\ \A i \in 1 .. Len(switchEvents') - 1 :
           switchEvents'[i].to = switchEvents'[i + 1].from
      /\ \A i \in 1 .. Len(switchEvents') : switchEvents'[i].from # switchEvents'[i].to
      /\ NoMarginFlap'
  <2>1. TypeOK /\ EventChain /\ NoMarginFlap
    BY DEF IInv
  <2>2. e.from # e.to
    BY <1>1, <1>3
  <2>. QED BY <1>3, <1>4, <2>1, <2>2, LoggedKeepsChain DEF LastEvent, NoMarginFlap
<1>6. /\ Open(FadeTo(c))
      /\ FadeTo(c) # NoFade => FadeTo(c).from = mainAudio /\ FadeTo(c).to = c
  BY <1>1 DEF Open, FadeTo, Fades
<1>7. /\ mainVideo' \in MaybeStream
      /\ pendingVideo' \in MaybeStream
      /\ videoAge' \in 0 .. VideoHold
      /\ crossfade' \in Fades
      /\ sel' \in SelectionStates
      /\ crossfade' # NoFade =>
           /\ FadeTo(c) # NoFade
           /\ crossfade'.from = FadeTo(c).from
           /\ crossfade'.to = FadeTo(c).to
           /\ crossfade'.t \in 1 .. CrossfadeTicks - 1
      /\ sel'.mixerState = "SWITCH"
      /\ sel'.activeAudio = mainAudio'
      /\ sel'.mainTalker = c
      /\ sel'.crossfade # NoFade => FadeTo(c) # NoFade /\ sel'.crossfade.to = FadeTo(c).to
  <2>1. TypeOK
    BY DEF IInv
  <2>2. mainAudio' \in MaybeStream /\ marginAge' \in -1 .. AudioHold
    BY <1>4 DEF MaybeStream
  <2>. HIDE DEF Finish
  <2>. QED BY <1>6, <2>1, <2>2, FinishKeeps
<1>8. TypeOK'
  BY <1>4, <1>5, <1>7 DEF TypeOK, MaybeStream
<1>9. EventChain'
  BY <1>3, <1>4, <1>5 DEF EventChain
<1>10. CrossfadeOfLastSwitch'
  BY <1>3, <1>4, <1>5, <1>6, <1>7 DEF CrossfadeOfLastSwitch
<1>11. SelectionAgrees'
  BY <1>4, <1>6, <1>7 DEF SelectionAgrees
<1>12. TimersAgree'
  BY <1>4 DEF TimersAgree
<1>. QED BY <1>5, <1>8, <1>9, <1>10, <1>11, <1>12 DEF IInv

-----------------------------------------------------------------------------

\* The selections published without a challenger.
LEMMA IdleSelection ==
  ASSUME NEW video \in MaybeStream, NEW reason \in {"none", "silence"}
  PROVE  [activeVideo |-> video, activeAudio |-> DefaultAudioID,
          mainTalker |-> DefaultAudioID, mixerState |-> "SILENCE",
          reason |-> reason, holdRemaining |-> 0, crossfade |-> NoFade]
            \in SelectionStates
<1>1. DefaultAudioID \in MaybeStream
  BY SelectorAssumption DEF SelectorAssumption, MaybeStream, NoStream
<1>2. 0 \in 0 .. AudioHold
  BY SelectorAssumption DEF SelectorAssumption
<1>3. NoFade \in Fades
  BY DEF Fades
<1>. QED BY <1>1, <1>2, <1>3 DEF SelectionStates

\* A new State (selector.go:23-28) satisfies the invariant.
LEMMA InitInv == Init => IInv
<1>. SUFFICES ASSUME Init PROVE IInv
  OBVIOUS
<1>. USE SelectorAssumption DEF SelectorAssumption, NoStream
<1>0. switchEvents = << >> /\ Len(switchEvents) = 0 /\ switchEvents \in Seq(SwitchEvent)
  BY EmptySeq DEF Init
<1>1. TypeOK
  <2>1. DefaultAudioID \in MaybeStream /\ DefaultVideoID \in MaybeStream
    BY DEF MaybeStream
  <2>2. sel \in SelectionStates
    BY <2>1, IdleSelection DEF Init
  <2>3. /\ videoAge \in 0 .. VideoHold
        /\ marginAge \in -1 .. AudioHold
        /\ minHoldLeft \in -1 .. MinHold
        /\ sinceSwitch \in 0 .. MinHold + 1
        /\ leadAge \in -1 .. AudioHold
        /\ Len(switchEvents) <= MaxEvents
    BY <1>0 DEF Init
  <2>4. crossfade \in Fades /\ pendingVideo \in MaybeStream
    BY DEF Init, Fades, MaybeStream
  <2>. QED BY <1>0, <2>1, <2>2, <2>3, <2>4 DEF Init, TypeOK
<1>2. EventChain /\ CrossfadeOfLastSwitch /\ TimersAgree /\ NoMarginFlap
  <2>1. EventChain
    BY <1>0 DEF EventChain
  <2>2. NoMarginFlap
    BY <1>0 DEF NoMarginFlap
  <2>3. CrossfadeOfLastSwitch
    BY DEF Init, CrossfadeOfLastSwitch
  <2>4. TimersAgree
    BY DEF Init, TimersAgree
  <2>. QED BY <2>1, <2>2, <2>3, <2>4
<1>3. SelectionAgrees
  BY DEF Init, SelectionAgrees
<1>. QED BY <1>1, <1>2, <1>3 DEF IInv

\* The return for silence (selector.go:34-48) keeps the invariant.
LEMMA SilencePreserves ==
  ASSUME IInv, NEW d \in Delays, Silence(d)
  PROVE  IInv'
<1>. USE SelectorAssumption DEF SelectorAssumption
<1>1. /\ minHoldLeft' \in -1 .. MinHold
      /\ sinceSwitch' \in 0 .. MinHold + 1
      /\ TimersAgree'
      /\ switchEvents' = switchEvents
  BY TimersRun DEF IInv, Silence
<1>2. /\ sel' = [activeVideo |-> mainVideo, activeAudio |-> DefaultAudioID,
                 mainTalker |-> DefaultAudioID, mixerState |-> "SILENCE",
                 reason |-> "silence", holdRemaining |-> 0, crossfade |-> NoFade]
      /\ crossfade' = NoFade
      /\ UNCHANGED <<mainAudio, mainVideo, pendingVideo>>
      /\ leadAge' = -1
  BY DEF Silence
<1>3. marginAge' \in -1 .. AudioHold /\ videoAge' \in 0 .. VideoHold
  BY TimersTyped DEF IInv, TypeOK, Silence, VideoAgeAfter, AtMost
<1>4. TypeOK'
  <2>1. sel' \in SelectionStates
    BY <1>2, IdleSelection DEF IInv, TypeOK
  <2>. QED BY <1>1, <1>2, <1>3, <2>1 DEF IInv, TypeOK, Fades
<1>5. EventChain' /\ NoMarginFlap'
  BY <1>1, <1>2 DEF IInv, EventChain, NoMarginFlap, LastEvent
<1>6. CrossfadeOfLastSwitch' /\ SelectionAgrees'
  BY <1>2 DEF CrossfadeOfLastSwitch, SelectionAgrees
<1>. QED BY <1>1, <1>4, <1>5, <1>6 DEF IInv

\* So does every branch of the audio decision (selector.go:50-130).
LEMMA DecidePreserves ==
  ASSUME IInv, NEW m, NEW c \in Streams, NEW d \in Delays, Decide(m, c, d)
  PROVE  IInv'
<1>. USE SelectorAssumption DEF SelectorAssumption
<1>0. /\ TypeOK
      /\ MarginHeld(d) \in -1 .. AudioHold
      /\ MarginLed(d) \in -1 .. AudioHold
  BY TimersTyped DEF IInv
<1>1. CASE Locked(m, c, d)
  <2>1. mainAudio' = mainAudio \/ (mainAudio = NoStream /\ mainAudio' = c)
    BY <1>1 DEF Locked
  <2>2. KeepAudio(d) /\ Finish(c, d, "LOCKED", "locked", crossfade)
    BY <1>1 DEF Locked
  <2>3. marginAge' = -1 /\ leadAge' = -1 /\ mainAudio' = c
    BY <1>1 DEF Locked
  <2>. QED BY <2>1, <2>2, <2>3, KeepPreserves
<1>2. CASE Emergency(m, c, d)
  BY <1>2, SwitchPreserves DEF Emergency
<1>3. CASE MarginSwitch(m, c, d)
  BY <1>3, SwitchPreserves DEF MarginSwitch, MaySwitch
<1>4. CASE MarginHold(m, c, d)
  <2>1. mainAudio' = mainAudio /\ c # mainAudio'
    BY <1>4 DEF MarginHold, Contested
  <2>2. KeepAudio(d) /\ Finish(c, d, "HOLD", "hold", crossfade)
    BY <1>4 DEF MarginHold
  <2>3. marginAge' \in -1 .. AudioHold /\ leadAge' \in -1 .. AudioHold
    BY <1>0, <1>4 DEF MarginHold
  <2>. QED BY <2>1, <2>2, <2>3, KeepPreserves
<1>5. CASE BelowMargin(m, c, d)
  <2>1. mainAudio' = mainAudio /\ c # mainAudio'
    BY <1>5 DEF BelowMargin, Contested
  <2>2. KeepAudio(d) /\ Finish(c, d, "HOLD", "margin", crossfade)
    BY <1>5 DEF BelowMargin
  <2>3. marginAge' = -1 /\ leadAge' = -1
    BY <1>5 DEF BelowMargin
  <2>. QED BY <2>1, <2>2, <2>3, KeepPreserves
<1>. QED BY <1>1, <1>2, <1>3, <1>4, <1>5 DEF Decide

\* Every step keeps the invariant.
LEMMA InvStep == IInv /\ [Next]_vars => IInv'
<1>. SUFFICES ASSUME IInv, [Next]_vars PROVE IInv'
  OBVIOUS
<1>1. CASE Next
  <2>1. PICK d \in Delays : Silence(d) \/ \E r \in Ranked : Decide(r[1], r[2], d)
    BY <1>1 DEF Next
  <2>2. CASE Silence(d)
    BY <2>2, SilencePreserves
  <2>3. CASE \E r \in Ranked : Decide(r[1], r[2], d)
    <3>1. PICK r \in Ranked : Decide(r[1], r[2], d)
      BY <2>3
    <3>2. r[2] \in Streams
      BY DEF Ranked
    <3>. QED BY <3>1, <3>2, DecidePreserves
  <2>. QED BY <2>1, <2>2, <2>3
<1>2. CASE UNCHANGED vars
  BY <1>2 DEF vars, IInv, TypeOK, EventChain, LastEvent, CrossfadeOfLastSwitch,
              SelectionAgrees, TimersAgree, NoMarginFlap
<1>. QED BY <1>1, <1>2

\* The invariant holds of every behaviour.
THEOREM Invariance == Spec => []IInv
BY InitInv, InvStep, PTL DEF Spec

\* Timers, crossfade steps and selections stay in range for any configuration.
THEOREM TypeCorrect == Spec => []TypeOK
<1>1. IInv => TypeOK
  BY DEF IInv
<1>. QED BY <1>1, Invariance, PTL

\* The timeline always explains the current route, for any length of the log.
THEOREM TimelineExplainsRoute == Spec => []EventChain
<1>1. IInv => EventChain
  BY DEF IInv
<1>. QED BY <1>1, Invariance, PTL

\* No crossfade outlives its last step or contradicts the last switch.
THEOREM CrossfadeIsLastSwitch == Spec => []CrossfadeOfLastSwitch
<1>1. IInv => CrossfadeOfLastSwitch
  BY DEF IInv
<1>. QED BY <1>1, Invariance, PTL

\* The published selection agrees with the selector's state on every path.
THEOREM PublishedSelectionAgrees == Spec => []SelectionAgrees
<1>1. IInv => SelectionAgrees
  BY DEF IInv
<1>. QED BY <1>1, Invariance, PTL

\* MinHold separates a switch by margin from the switch before, for any hold.
THEOREM MarginSwitchesRest == Spec => []NoMarginFlap
<1>1. IInv => NoMarginFlap
  BY DEF IInv
<1>. QED BY <1>1, Invariance, PTL

-----------------------------------------------------------------------------
(* What the plan says of a switch by margin, as long as somebody is heard. *)

\* The hold that the code runs is the lead that there really was.
HoldIsLead == marginAge = leadAge

\* A log whose newest event had its lead, if it is a switch by margin, is one of such events.
LEMMA LoggedKeepsLeads ==
  ASSUME TypeOK, MarginHeldThroughout,
         NEW e \in SwitchEvent, e.reason = "score_margin" => e.led
  PROVE  \A i \in 1 .. Len(Logged(e)) : Logged(e)[i].reason = "score_margin" => Logged(e)[i].led
<1> DEFINE kept == IF Len(switchEvents) < MaxEvents THEN switchEvents ELSE Tail(switchEvents)
<1> USE SelectorAssumption DEF SelectorAssumption
<1>1. /\ kept \in Seq(SwitchEvent)
      /\ \A i \in 1 .. Len(kept) : kept[i].reason = "score_margin" => kept[i].led
  <2>1. CASE Len(switchEvents) < MaxEvents
    BY <2>1 DEF TypeOK, MarginHeldThroughout
  <2>2. CASE ~(Len(switchEvents) < MaxEvents)
    <3>1. switchEvents \in Seq(SwitchEvent) /\ switchEvents # << >>
      BY <2>2 DEF TypeOK
    <3>2. /\ kept \in Seq(SwitchEvent) /\ Len(kept) = Len(switchEvents) - 1
          /\ \A i \in 1 .. Len(kept) : kept[i] = switchEvents[i + 1]
      BY <2>2, <3>1
    <3>3. QED
      BY <3>1, <3>2 DEF MarginHeldThroughout
  <2>3. QED
    BY <2>1, <2>2
<1>2. Logged(e) = Append(kept, e)
  BY DEF Logged
<1> HIDE DEF kept
<1>3. /\ Len(Logged(e)) = Len(kept) + 1 /\ Logged(e)[Len(kept) + 1] = e
      /\ \A i \in 1 .. Len(kept) : Logged(e)[i] = kept[i]
  BY <1>1, <1>2
<1>4. ASSUME NEW i \in 1 .. Len(kept) + 1, Logged(e)[i].reason = "score_margin" PROVE Logged(e)[i].led
  <2>1. CASE i = Len(kept) + 1
    <3>1. Logged(e)[i] = e
      BY <1>3, <2>1
    <3>2. QED
      BY <1>4, <3>1
  <2>2. CASE i # Len(kept) + 1
    <3>1. i \in 1 .. Len(kept) /\ Logged(e)[i] = kept[i]
      BY <1>1, <1>3, <2>2
    <3>2. QED
      BY <1>1, <1>4, <3>1
  <2>3. QED
    BY <2>1, <2>2
<1>5. QED
  BY <1>3, <1>4

\* A switch keeps what its event promises.
LEMMA SwitchKeepsLeads ==
  ASSUME IInv, MarginHeldThroughout, NEW c \in Streams, NEW d \in Delays, Contested(c),
         NEW reason \in {"emergency", "score_margin"}, NEW led \in BOOLEAN,
         reason = "score_margin" => led, SwitchAudio(c, d, reason, led)
  PROVE  HoldIsLead' /\ MarginHeldThroughout'
<1> DEFINE e == [from |-> mainAudio, to |-> c, reason |-> reason,
                 rested |-> sinceSwitch + d > MinHold, led |-> led]
<1>1. mainAudio \in Streams
  BY DEF Contested, IInv, TypeOK, MaybeStream
<1>2. e \in SwitchEvent /\ (e.reason = "score_margin" => e.led)
  BY <1>1 DEF SwitchEvent
<1>3. switchEvents' = Logged(e) /\ HoldIsLead'
  BY DEF SwitchAudio, HoldIsLead
<1> HIDE DEF e
<1>4. QED
  BY <1>2, <1>3, LoggedKeepsLeads DEF IInv, MarginHeldThroughout

LEMMA CallKeepsLeads ==
  ASSUME IInv, HoldIsLead, MarginHeldThroughout, Next, sel'.reason # "silence"
  PROVE  HoldIsLead' /\ MarginHeldThroughout'
<1>1. PICK d \in Delays : Silence(d) \/ \E r \in Ranked : Decide(r[1], r[2], d)
  BY DEF Next
<1>2. ~Silence(d)
  BY DEF Silence
<1>3. PICK r \in Ranked : Decide(r[1], r[2], d)
  BY <1>1, <1>2
<1>4. r[2] \in Streams
  BY DEF Ranked
<1>5. CASE Locked(r[1], r[2], d) \/ BelowMargin(r[1], r[2], d)
  BY <1>5 DEF Locked, BelowMargin, KeepAudio, HoldIsLead, MarginHeldThroughout
<1>6. CASE MarginHold(r[1], r[2], d)
  BY <1>6 DEF MarginHold, KeepAudio, MarginHeld, MarginLed, MarginAfter, HoldIsLead, MarginHeldThroughout
<1>7. CASE Emergency(r[1], r[2], d)
  <2>1. Contested(r[2]) /\ SwitchAudio(r[2], d, "emergency", FALSE)
    BY <1>7 DEF Emergency
  <2>2. QED
    BY <1>4, <2>1, SwitchKeepsLeads
<1>8. CASE MarginSwitch(r[1], r[2], d)
  <2>1. Contested(r[2]) /\ SwitchAudio(r[2], d, "score_margin", MarginLed(d) = AudioHold)
    BY <1>8 DEF MarginSwitch
  <2>2. MarginLed(d) = AudioHold
    BY <1>8 DEF MarginSwitch, MaySwitch, MarginHeld, MarginLed, MarginAfter, HoldIsLead
  <2>3. (MarginLed(d) = AudioHold) \in BOOLEAN
    OBVIOUS
  <2>4. QED
    BY <1>4, <2>1, <2>2, <2>3, SwitchKeepsLeads
<1>9. QED
  BY <1>3, <1>5, <1>6, <1>7, <1>8 DEF Decide

\* A switch by margin follows a lead that held for all of AudioHold, as the plan's rule 2
\* has it, as long as somebody is heard: the early return on silence is the only way in
\* which a hold can outlive its lead (selector.go:35, 77-97).
THEOREM OnlySilenceBreaksHold ==
  Spec /\ [][sel'.reason # "silence"]_vars => []MarginHeldThroughout
<1>1. Init => HoldIsLead /\ MarginHeldThroughout
  BY DEF Init, HoldIsLead, MarginHeldThroughout
<1>2. IInv /\ HoldIsLead /\ MarginHeldThroughout /\ [Next]_vars /\ [sel'.reason # "silence"]_vars
        => HoldIsLead' /\ MarginHeldThroughout'
  <2>1. CASE UNCHANGED vars
    BY <2>1 DEF vars, HoldIsLead, MarginHeldThroughout
  <2>2. CASE ~UNCHANGED vars
    BY <2>2, CallKeepsLeads
  <2>3. QED
    BY <2>1, <2>2
<1>3. QED
  BY <1>1, <1>2, Invariance, PTL DEF Spec
=============================================================================
