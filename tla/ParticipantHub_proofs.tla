------------------------ MODULE ParticipantHub_proofs ------------------------
(***************************************************************************)
(* The hub keeps the promise of its throttle and the ownership of its      *)
(* WebRTC peers for every number of connections and every window.          *)
(*                                                                         *)
(* The throttle implements RateLimit: that a broadcast can be early at all *)
(* is due to a timer that expired and lost the race for the mutex; its     *)
(* invariant says that this timer was set before the first of the two.     *)
(*                                                                         *)
(* HubInv strengthens PeersOwned by what it rests on: a client is in the   *)
(* hub's table exactly while its goroutine is between Connect and          *)
(* Unregister, and only the holder of the mutex has sockets to write to.   *)
(***************************************************************************)
EXTENDS ParticipantHub, TLAPS

-----------------------------------------------------------------------------
(* The throttle by itself.                                                  *)

ThrottleInv == ThrottleTypeOK /\ TimerAfterBurst

\* The invariant holds before anything was broadcast.
LEMMA ThrottleInvInit == ThrottleInit => ThrottleInv
<1> SUFFICES ASSUME ThrottleInit PROVE ThrottleInv
  OBVIOUS
<1>1. age \in 0 .. Window /\ timer \in 0 .. Window \cup {NoTimer}
  BY WindowAssumption DEF WindowAssumption, ThrottleInit, NoTimer
<1>2. busy \in BOOLEAN /\ short \in BOOLEAN
  BY DEF ThrottleInit
<1>3. TimerAfterBurst
  BY DEF ThrottleInit, TimerAfterBurst
<1>4. QED
  BY <1>1, <1>2, <1>3 DEF ThrottleInv, ThrottleTypeOK

\* Time, calls of ScheduleBroadcast, callbacks and ends of broadcasts keep it.
LEMMA ThrottleInvStep ==
  ThrottleInv /\ [ThrottleNext]_throttleVars => ThrottleInv'
<1> SUFFICES ASSUME ThrottleInv, [ThrottleNext]_throttleVars
             PROVE  ThrottleInv'
  OBVIOUS
<1> USE WindowAssumption DEF WindowAssumption, ThrottleInv, ThrottleTypeOK,
        TimerAfterBurst, NoTimer
<1>1. CASE Tick
  BY <1>1 DEF Tick
<1>2. CASE ScheduleNow
  BY <1>2 DEF ScheduleNow, Broadcast
<1>3. CASE ScheduleLater
  BY <1>3 DEF ScheduleLater, Wait
<1>4. CASE ScheduleCoalesced
  BY <1>4 DEF ScheduleCoalesced, throttleVars
<1>5. CASE TimerFires
  BY <1>5 DEF TimerFires, Broadcast
<1>6. CASE BroadcastEnd
  BY <1>6 DEF BroadcastEnd
<1>7. CASE UNCHANGED throttleVars
  BY <1>7 DEF throttleVars
<1>8. QED
  BY <1>1, <1>2, <1>3, <1>4, <1>5, <1>6, <1>7 DEF ThrottleNext, ScheduleBroadcast

\* A step of the throttle is a tick, a send or nothing to the rate limit.
LEMMA ThrottleStepLimited ==
  ThrottleInv /\ [ThrottleNext]_throttleVars => [Limit!Next]_(Limit!vars)
<1> SUFFICES ASSUME ThrottleInv, [ThrottleNext]_throttleVars
             PROVE  [Limit!Next]_(Limit!vars)
  OBVIOUS
<1> USE WindowAssumption DEF WindowAssumption, ThrottleInv, ThrottleTypeOK,
        TimerAfterBurst, NoTimer, Limit!Next, Limit!vars, Limit!Tick, Limit!Send
<1>1. CASE Tick
  BY <1>1 DEF Tick
<1>2. CASE ScheduleNow
  BY <1>2 DEF ScheduleNow, Broadcast
<1>3. CASE ScheduleLater
  BY <1>3 DEF ScheduleLater
<1>4. CASE ScheduleCoalesced
  BY <1>4 DEF ScheduleCoalesced, throttleVars
<1>5. CASE TimerFires
  \* the timer expired, so after a burst a whole window has passed since
  BY <1>5 DEF TimerFires, Broadcast
<1>6. CASE BroadcastEnd
  BY <1>6 DEF BroadcastEnd
<1>7. CASE UNCHANGED throttleVars
  BY <1>7 DEF throttleVars
<1>8. QED
  BY <1>1, <1>2, <1>3, <1>4, <1>5, <1>6, <1>7 DEF ThrottleNext, ScheduleBroadcast

\* A timer that runs after a burst was set after it: TimerAfterBurst, and with it
\* the types, hold of the throttle whatever calls come when.
THEOREM TimersFollowBursts == ThrottleSpec => []ThrottleInv
<1>1. QED
  BY ThrottleInvInit, ThrottleInvStep, PTL DEF ThrottleSpec

\* ScheduleBroadcast with its timer (participant.go:73-92) pushes views no faster
\* than the rate limit: at most twice within any window.
THEOREM ThrottleImplementsLimit == ThrottleSpec => AtMostTwoPerWindow
<1>1. ThrottleInit => Limit!Init
  BY DEF ThrottleInit, Limit!Init
<1>2. QED
  BY <1>1, TimersFollowBursts, ThrottleStepLimited, PTL
     DEF ThrottleSpec, AtMostTwoPerWindow, Limit!Spec

-----------------------------------------------------------------------------
(* The hub's invariant.                                                     *)

HubTypes ==
  /\ registered \subseteq Clients
  /\ joined \subseteq Clients
  /\ peers \subseteq Clients
  /\ step \in [Clients -> Steps]
  /\ direct \in [Clients -> Views]
  /\ sending \subseteq registered
  /\ pushed = NoPush \/ (pushed.to \in sending /\ pushed.view \in Views)
  /\ view \in [Clients -> Views]
  /\ overtaken \in [Clients -> BOOLEAN]

Unconnected == {"away", "drop-peer", "gone"}
TableMatchesSteps == \A c \in Clients : c \in registered <=> step[c] \notin Unconnected
OnlyBroadcastsSend == ~busy => sending = {}

HubInv == HubTypes /\ TableMatchesSteps /\ OnlyBroadcastsSend /\ PeersOwned

-----------------------------------------------------------------------------
(* The throttle inside the hub.                                             *)

\* Whatever the hub does, its throttle takes a step of its own or none.
LEMMA HubStepsThrottle == [Next]_vars => [ThrottleNext]_throttleVars
<1> SUFFICES ASSUME [Next]_vars PROVE [ThrottleNext]_throttleVars
  OBVIOUS
<1>1. CASE UNCHANGED vars
  BY <1>1 DEF vars
<1>2. CASE \E c \in Clients : Handle(c) \/ Message(c)
  BY <1>2 DEF Handle, Message, Welcome, AnswerJoin, Schedule, RemovePeer, Unregister,
              TakeView, WriteView, Connect, Join, Leave, Offer, Drop, ThrottleNext
<1>3. CASE Publish \/ FireTimer \/ TimePasses
  BY <1>3 DEF Publish, FireTimer, TimePasses, ThrottleNext
<1>4. CASE Push
  BY <1>4 DEF Push, TakePush, WritePush, FinishBroadcast, ThrottleNext
<1>5. QED
  BY <1>1, <1>2, <1>3, <1>4 DEF Next

\* Every behaviour of the hub is one of its throttle.
LEMMA HubRunsThrottle == Spec => ThrottleSpec
<1>1. Init => ThrottleInit
  BY DEF Init
<1>2. QED
  BY <1>1, HubStepsThrottle, PTL DEF Spec, ThrottleSpec

\* The views the hub pushes (participant.go:73-92, 175-183) come at most twice
\* within a window, whoever asks for them.
THEOREM HubImplementsLimit == Spec => AtMostTwoPerWindow
  BY HubRunsThrottle, ThrottleImplementsLimit, PTL

\* After two pushes close together the hub's timer, if it runs, was set later.
THEOREM HubTimersFollowBursts == Spec => []TimerAfterBurst
<1>1. ThrottleInv => TimerAfterBurst
  BY DEF ThrottleInv
<1>2. QED
  BY <1>1, HubRunsThrottle, TimersFollowBursts, PTL

-----------------------------------------------------------------------------
(* The clients and their peers.                                             *)

\* A view of a list of participants is a view.
LEMMA ViewOfTyped == ASSUME NEW m \in SUBSET Clients PROVE ViewOf(m) \in Views
  BY DEF ViewOf, Views

\* "Nothing shown" is a view as well.
LEMMA NoViewTyped == NoView \in Views
  BY DEF NoView, Views

\* Nobody is connected at the start.
LEMMA HubInvInit == Init => HubInv
<1> SUFFICES ASSUME Init PROVE HubInv
  OBVIOUS
<1>1. HubTypes
  BY NoViewTyped DEF Init, HubTypes, Steps
<1>2. TableMatchesSteps /\ OnlyBroadcastsSend /\ PeersOwned
  BY DEF Init, TableMatchesSteps, Unconnected, OnlyBroadcastsSend, PeersOwned
<1>3. QED
  BY <1>1, <1>2 DEF HubInv

\* What a goroutine does for its own client keeps the invariant.
LEMMA HandlerKeepsHubInv ==
  ASSUME HubInv, ThrottleInv, NEW c \in Clients, Handle(c) \/ Message(c)
  PROVE  HubInv'
<1> USE DEF HubInv, HubTypes, TableMatchesSteps, Unconnected, OnlyBroadcastsSend,
            PeersOwned, Goes, Steps, throttleVars, memberVars, viewVars
<1>1. CASE Connect(c)
  BY <1>1 DEF Connect
<1>2. CASE Join(c)
  BY <1>2 DEF Join
<1>3. CASE Leave(c)
  BY <1>3 DEF Leave
<1>4. CASE Offer(c)
  BY <1>4 DEF Offer
<1>5. CASE Drop(c)
  BY <1>5 DEF Drop
<1>6. CASE Welcome(c) \/ AnswerJoin(c)
  BY <1>6, ViewOfTyped, NoViewTyped DEF Welcome, AnswerJoin, TakeView, WriteView
<1>7. CASE Unregister(c)
  BY <1>7, NoViewTyped DEF Unregister
<1>8. CASE RemovePeer(c, "leave-peer", AfterLeave)
  BY <1>8 DEF RemovePeer, RemainingPeers, AfterLeave
<1>9. CASE RemovePeer(c, "drop-peer", "gone")
  BY <1>9 DEF RemovePeer, RemainingPeers
<1>10. CASE Schedule(c)
  BY <1>10 DEF Schedule, StartSending, ScheduleBroadcast, ScheduleNow, ScheduleLater,
               ScheduleCoalesced, Broadcast
<1>11. QED
  BY <1>1, <1>2, <1>3, <1>4, <1>5, <1>6, <1>7, <1>8, <1>9, <1>10 DEF Handle, Message

\* So does the broadcast, from the call that starts it to its last write.
LEMMA BroadcastKeepsHubInv ==
  ASSUME HubInv, ThrottleInv, Publish \/ FireTimer \/ Push \/ TimePasses
  PROVE  HubInv'
<1> USE DEF HubInv, HubTypes, TableMatchesSteps, Unconnected, OnlyBroadcastsSend,
            PeersOwned, throttleVars, memberVars, viewVars
<1>1. CASE Publish
  BY <1>1 DEF Publish, StartSending, ScheduleBroadcast, ScheduleNow, ScheduleLater,
              ScheduleCoalesced, Broadcast
<1>2. CASE FireTimer
  BY <1>2 DEF FireTimer, StartSending, TimerFires, Broadcast
<1>3. ASSUME NEW c \in Clients, TakePush(c) PROVE HubInv'
  BY <1>3, ViewOfTyped DEF TakePush
<1>4. CASE WritePush
  BY <1>4 DEF WritePush
<1>5. CASE FinishBroadcast
  BY <1>5 DEF FinishBroadcast, BroadcastEnd
<1>6. CASE TimePasses
  BY <1>6 DEF TimePasses, Tick
<1>7. QED
  BY <1>1, <1>2, <1>3, <1>4, <1>5, <1>6 DEF Push

\* HubInv and the throttle's invariant hold of the hub.
THEOREM HubInvariance == Spec => [](HubInv /\ ThrottleInv)
<1>1. Init => HubInv /\ ThrottleInv
  BY HubInvInit, ThrottleInvInit DEF Init
<1>2. HubInv /\ ThrottleInv /\ [Next]_vars => (HubInv /\ ThrottleInv)'
  <2> SUFFICES ASSUME HubInv, ThrottleInv, [Next]_vars
               PROVE  HubInv' /\ ThrottleInv'
    OBVIOUS
  <2>1. ThrottleInv'
    BY HubStepsThrottle, ThrottleInvStep
  <2>2. CASE UNCHANGED vars
    <3>1. HubInv'
      BY <2>2 DEF vars, throttleVars, memberVars, viewVars, HubInv, HubTypes,
                  TableMatchesSteps, OnlyBroadcastsSend, PeersOwned
    <3>2. QED BY <2>1, <3>1
  <2>3. CASE Next
    BY <2>1, <2>3, HandlerKeepsHubInv, BroadcastKeepsHubInv DEF Next
  <2>4. QED
    BY <2>2, <2>3
<1>3. QED
  BY <1>1, <1>2, PTL DEF Spec

\* Every variable of the hub has its type.
THEOREM HubTypeCorrect == Spec => []TypeOK
<1>1. HubInv /\ ThrottleInv => TypeOK
  BY DEF HubInv, HubTypes, ThrottleInv, TypeOK
<1>2. QED
  BY <1>1, HubInvariance, PTL

\* No WebRTC peer outlives its socket (participant.go:54-60, hub.go:51-61).
THEOREM NoPeerOutlivesItsSocket == Spec => []PeersOwned
<1>1. HubInv => PeersOwned
  BY DEF HubInv
<1>2. QED
  BY <1>1, HubInvariance, PTL
-----------------------------------------------------------------------------
(* What the clients are shown.                                              *)

\* A broadcast is pending, or a handler that changed the list will ask for one.
Owed ==
  \/ timer # NoTimer
  \/ \E d \in Clients : step[d] \in {"join-view", "join-write", "leave-peer", "schedule"}

\* A view is up to date, or what is wrong with it will be put right by a broadcast ...
Good(v) == v = ViewOf(joined) \/ Owed

\* ... and so is, for every connection, what it shows, what its goroutine and what
\* the broadcast is about to write to it.
ShownGood ==
  \A c \in registered : \/ step[c] \in {"welcome", "welcome-write"} \/ c \in sending
                        \/ Good(view[c]) \/ overtaken[c]
DirectGood ==
  \A c \in registered : step[c] = "welcome-write" =>
    direct[c].shown /\ (c \in sending \/ Good(direct[c]) \/ overtaken[c])
PushGood == pushed # NoPush => Good(pushed.view)

ViewInv == ShownGood /\ DirectGood /\ PushGood

\* Nobody is connected at the start.
LEMMA ViewInvInit == Init => ViewInv
BY DEF Init, ViewInv, ShownGood, DirectGood, PushGood

\* A change of the list leaves its handler with a broadcast to ask for.
LEMMA ChangeIsOwed ==
  ASSUME HubInv, NEW c \in Clients, Join(c) \/ Leave(c)
  PROVE  Owed'
BY DEF HubInv, HubTypes, Join, Leave, Goes, Owed

\* A call of ScheduleBroadcast starts a broadcast to everybody or leaves it to a timer.
LEMMA ScheduleStartsOrOwes ==
  ASSUME HubInv, ThrottleInv, ScheduleBroadcast, StartSending
  PROVE  sending' = registered \/ timer' # NoTimer
<1>1. CASE ScheduleNow
  BY <1>1 DEF ScheduleNow, Broadcast, StartSending
<1>2. CASE ScheduleLater
  <2>1. timer' = Window - age /\ age < Window /\ age \in Int
    BY <1>2 DEF ScheduleLater, Wait, ThrottleInv, ThrottleTypeOK
  <2>2. QED
    BY <2>1, WindowAssumption DEF WindowAssumption, NoTimer
<1>3. CASE ScheduleCoalesced
  BY <1>3 DEF ScheduleCoalesced, throttleVars
<1>4. QED
  BY <1>1, <1>2, <1>3 DEF ScheduleBroadcast

\* Once a broadcast is owed it stays so until one starts.
LEMMA HandlerKeepsOwed ==
  ASSUME HubInv, NEW c \in Clients, Handle(c) \/ Message(c), ~Schedule(c), Owed
  PROVE  Owed'
<1> USE DEF HubInv, HubTypes, Goes, throttleVars, memberVars, viewVars, Owed
<1>1. CASE Welcome(c) \/ AnswerJoin(c)
  BY <1>1 DEF Welcome, AnswerJoin, TakeView, WriteView
<1>2. CASE RemovePeer(c, "leave-peer", AfterLeave)
  BY <1>2 DEF RemovePeer, AfterLeave
<1>3. CASE RemovePeer(c, "drop-peer", "gone") \/ Unregister(c)
  BY <1>3 DEF RemovePeer, Unregister
<1>4. CASE Message(c)
  BY <1>4 DEF Message, Connect, Join, Leave, Offer, Drop
<1>5. QED
  BY <1>1, <1>2, <1>3, <1>4 DEF Handle

\* A connection that a broadcast has still to write to has nothing to be put right.
LEMMA BroadcastToAll ==
  ASSUME sending' = registered', UNCHANGED <<registered, joined, direct, pushed>>,
         DirectGood, PushGood, HubInv, ~busy,
         \A c \in Clients : step'[c] = "welcome-write" => step[c] = "welcome-write"
  PROVE  ViewInv'
<1>1. pushed = NoPush
  BY DEF HubInv, HubTypes, OnlyBroadcastsSend
<1>2. ShownGood'
  BY DEF ShownGood
<1>3. DirectGood'
  BY DEF DirectGood, HubInv, HubTypes
<1>4. PushGood'
  BY <1>1 DEF PushGood
<1>5. QED
  BY <1>2, <1>3, <1>4 DEF ViewInv

\* What a goroutine does for its own client leaves nothing wrong for good.
LEMMA HandlerKeepsViewInv ==
  ASSUME HubInv, ThrottleInv, ViewInv, NEW c \in Clients, Handle(c) \/ Message(c)
  PROVE  ViewInv'
<1> USE DEF HubInv, HubTypes, ViewInv, ShownGood, DirectGood, PushGood, Goes,
            throttleVars, memberVars, viewVars
<1>1. CASE Owed /\ ~Schedule(c)
  <2>1. Owed'
    BY <1>1, HandlerKeepsOwed
  <2>2. ShownGood' /\ PushGood'
    BY <2>1 DEF Good
  <2>3. DirectGood'
    <3>1. CASE TakeView(c, "welcome", "welcome-write")
      BY <2>1, <3>1 DEF TakeView, Good, ViewOf
    <3>2. CASE ~TakeView(c, "welcome", "welcome-write")
      <4>1. \A d \in registered' : step'[d] = "welcome-write"
               => d \in registered /\ step[d] = "welcome-write" /\ direct'[d] = direct[d]
        BY <1>1, <3>2 DEF Handle, Message, Welcome, AnswerJoin, TakeView, WriteView,
              RemovePeer, AfterLeave, Unregister, Connect, Join, Leave, Offer, Drop,
              TableMatchesSteps, Unconnected
      <4>2. QED
        BY <2>1, <4>1 DEF Good
    <3>3. QED
      BY <3>1, <3>2
  <2>4. QED
    BY <2>2, <2>3
<1>2. CASE Schedule(c)
  <2>1. ScheduleBroadcast /\ StartSending
    BY <1>2 DEF Schedule
  <2>2. ~busy /\ UNCHANGED <<registered, joined, direct, pushed, view, overtaken>>
    BY <2>1 DEF StartSending, ScheduleBroadcast, ScheduleNow, ScheduleLater, ScheduleCoalesced
  <2>3. \A d \in Clients : step'[d] = "welcome-write" => step[d] = "welcome-write"
    BY <1>2 DEF Schedule
  <2>4. CASE sending' = registered
    BY <2>2, <2>3, <2>4, BroadcastToAll
  <2>5. CASE timer' # NoTimer
    BY <1>2, <2>2, <2>3, <2>5 DEF Owed, Good
  <2>6. QED
    BY <2>1, <2>4, <2>5, ScheduleStartsOrOwes
<1>3. CASE Join(c) \/ Leave(c)
  <2>1. Owed'
    BY <1>3, ChangeIsOwed
  <2>2. UNCHANGED <<registered, direct, sending, pushed, view, overtaken>>
    BY <1>3 DEF Join, Leave
  <2>3. \A d \in Clients : step'[d] = "welcome-write" => step[d] = "welcome-write"
    BY <1>3 DEF Join, Leave
  <2>4. QED
    BY <2>1, <2>2, <2>3 DEF Good
<1> DEFINE Quiet1 == ~Owed /\ ~Schedule(c) /\ ~Join(c) /\ ~Leave(c)
<1>4. CASE Quiet1 /\ Connect(c)
  BY <1>4 DEF Connect, Good, Owed, TableMatchesSteps, Unconnected
<1>5. CASE Quiet1 /\ (Offer(c) \/ Drop(c))
  BY <1>5 DEF Offer, Drop, Good, Owed
<1>6. CASE Quiet1 /\ TakeView(c, "welcome", "welcome-write")
  BY <1>6 DEF TakeView, Good, Owed, ViewOf
<1>7. CASE Quiet1 /\ WriteView(c, "welcome-write", "reading")
  BY <1>7 DEF WriteView, Good, Owed
<1>8. CASE Quiet1 /\ AnswerJoin(c)
  BY <1>8 DEF AnswerJoin, TakeView, WriteView, Owed
<1>9. CASE Quiet1 /\ Unregister(c)
  BY <1>9 DEF Unregister, Good, Owed
<1>10. CASE Quiet1 /\ RemovePeer(c, "leave-peer", AfterLeave)
  BY <1>10 DEF RemovePeer, Owed
<1>11. CASE Quiet1 /\ RemovePeer(c, "drop-peer", "gone")
  BY <1>11 DEF RemovePeer, Good, Owed
<1>12. QED
  BY <1>1, <1>2, <1>3, <1>4, <1>5, <1>6, <1>7, <1>8, <1>9, <1>10, <1>11
     DEF Handle, Message, Welcome

\* Neither does the broadcast: it shows everybody what there is when it takes it.
LEMMA BroadcastKeepsViewInv ==
  ASSUME HubInv, ThrottleInv, ViewInv, Publish \/ FireTimer \/ Push \/ TimePasses
  PROVE  ViewInv'
<1> USE DEF HubInv, HubTypes, ViewInv, ShownGood, DirectGood, PushGood,
            throttleVars, memberVars, viewVars
<1>1. CASE Publish
  <2>1. ScheduleBroadcast /\ StartSending /\ UNCHANGED step
    BY <1>1 DEF Publish
  <2>2. ~busy /\ UNCHANGED <<registered, joined, direct, pushed, view, overtaken>>
    BY <2>1 DEF StartSending, ScheduleBroadcast, ScheduleNow, ScheduleLater, ScheduleCoalesced
  <2>3. CASE sending' = registered
    BY <2>1, <2>2, <2>3, BroadcastToAll
  <2>4. CASE timer' # NoTimer
    BY <2>1, <2>2, <2>4 DEF Owed, Good
  <2>5. QED
    BY <2>1, <2>3, <2>4, ScheduleStartsOrOwes
<1>2. CASE FireTimer
  <2>1. ~busy /\ busy' /\ StartSending /\ UNCHANGED step
    BY <1>2 DEF FireTimer, TimerFires, Broadcast
  <2>2. sending' = registered /\ UNCHANGED <<registered, joined, direct, pushed>>
    BY <2>1 DEF StartSending
  <2>3. QED
    BY <2>1, <2>2, BroadcastToAll
<1>3. ASSUME NEW c \in Clients, TakePush(c) PROVE ViewInv'
  BY <1>3 DEF TakePush, Good, Owed, ViewOf
<1>4. CASE WritePush
  <2>1. pushed # NoPush /\ pushed.to \in sending /\ Good(pushed.view)
    BY <1>4 DEF WritePush
  <2>2. \A v : Good(v)' <=> Good(v)
    BY <1>4 DEF WritePush, Good, Owed, ViewOf
  <2>3. \A d \in registered : d # pushed.to =>
          view'[d] = view[d] /\ overtaken'[d] = overtaken[d] /\ (d \in sending => d \in sending')
    BY <1>4 DEF WritePush
  <2>4. /\ view'[pushed.to] = pushed.view
        /\ overtaken'[pushed.to] = (direct[pushed.to] # NoView)
    BY <1>4, <2>1 DEF WritePush
  <2>5. UNCHANGED <<registered, joined, step, direct, timer>> /\ pushed' = NoPush
    BY <1>4 DEF WritePush
  <2>6. ShownGood'
    BY <2>1, <2>2, <2>3, <2>4, <2>5
  <2>7. direct[pushed.to].shown => overtaken'[pushed.to]
    <3>1. NoView.shown = FALSE
      BY DEF NoView
    <3>2. direct[pushed.to].shown => direct[pushed.to] # NoView
      BY <3>1, Zenon
    <3>3. QED
      BY <2>4, <3>2, Zenon
  <2>8. DirectGood'
    BY <2>1, <2>2, <2>3, <2>5, <2>7
  <2>9. QED
    BY <2>5, <2>6, <2>8
<1>5. CASE FinishBroadcast
  BY <1>5 DEF FinishBroadcast, BroadcastEnd, Good, Owed
<1>6. CASE TimePasses
  <2>1. timer # NoTimer => timer' # NoTimer
    BY <1>6 DEF TimePasses, Tick, NoTimer, ThrottleInv, ThrottleTypeOK
  <2>2. QED
    BY <1>6, <2>1 DEF TimePasses, Tick, Good, Owed
<1>7. QED
  BY <1>1, <1>2, <1>3, <1>4, <1>5, <1>6 DEF Push

\* Coalescing loses no change, for any number of connections and any window: when
\* the hub is quiet, every participant was shown the list as it is, unless its own
\* goroutine's older view came last (participant.go:73-92, 104-123).
THEOREM CoalescingLosesNothing == Spec => []PushedWhenQuiet
<1>1. Init => ViewInv
  BY ViewInvInit
<1>2. HubInv /\ ThrottleInv /\ ViewInv /\ [Next]_vars => ViewInv'
  <2> SUFFICES ASSUME HubInv, ThrottleInv, ViewInv, [Next]_vars PROVE ViewInv'
    OBVIOUS
  <2>1. CASE UNCHANGED vars
    BY <2>1 DEF vars, throttleVars, memberVars, viewVars, ViewInv, ShownGood, DirectGood,
                PushGood, Good, Owed, ViewOf
  <2>2. CASE Next
    BY <2>2, HandlerKeepsViewInv, BroadcastKeepsViewInv DEF Next
  <2>3. QED
    BY <2>1, <2>2
<1>3. HubInv /\ ViewInv => PushedWhenQuiet
  BY DEF HubInv, OnlyBroadcastsSend, ViewInv, ShownGood, Good, Owed, PushedWhenQuiet, Quiet,
         HubTypes
<1>4. QED
  BY <1>1, <1>2, <1>3, HubInvariance, PTL DEF Spec

-----------------------------------------------------------------------------
(* Where ghosts come from.                                                  *)

Leaving == {"dropped", "drop-peer", "gone"}
NobodyLeavingIsJoined == \A c \in joined : step[c] \notin Leaving

\* Every step but the loss of a participant's socket keeps the room free of ghosts.
LEMMA StepsMakeNoGhosts ==
  ASSUME HubInv, NobodyLeavingIsJoined, Next,
         \A c \in Clients : step[c] = "reading" /\ step'[c] = "dropped" => c \notin joined
  PROVE  NobodyLeavingIsJoined'
<1> USE DEF HubInv, HubTypes, Goes, memberVars, viewVars, throttleVars, NobodyLeavingIsJoined, Leaving
<1>1. ASSUME NEW c \in Clients, Handle(c) \/ Message(c) PROVE NobodyLeavingIsJoined'
  <2>1. CASE Drop(c)
    <3>1. step[c] = "reading" /\ step'[c] = "dropped" /\ joined' = joined
      BY <2>1 DEF Drop
    <3>2. c \notin joined
      BY <3>1
    <3>3. QED
      BY <2>1, <3>1, <3>2 DEF Drop
  <2>2. CASE Join(c)
    BY <2>2 DEF Join
  <2>3. CASE Leave(c)
    BY <2>3 DEF Leave
  <2>4. CASE Connect(c) \/ Offer(c) \/ Schedule(c)
    BY <2>4 DEF Connect, Offer, Schedule, StartSending
  <2>5. CASE Welcome(c) \/ AnswerJoin(c)
    BY <2>5 DEF Welcome, AnswerJoin, TakeView, WriteView
  <2>6. CASE Unregister(c)
    BY <2>6 DEF Unregister
  <2>7. CASE RemovePeer(c, "leave-peer", AfterLeave) \/ RemovePeer(c, "drop-peer", "gone")
    BY <2>7 DEF RemovePeer, AfterLeave
  <2>8. QED
    BY <1>1, <2>1, <2>2, <2>3, <2>4, <2>5, <2>6, <2>7 DEF Handle, Message
<1>2. CASE Publish \/ FireTimer \/ Push \/ TimePasses
  BY <1>2 DEF Publish, FireTimer, Push, TimePasses, StartSending, TakePush, WritePush, FinishBroadcast
<1>3. QED
  BY <1>1, <1>2 DEF Next

\* Who is listed is connected, in every order of joins, leaves, drops and broadcasts, as
\* long as nobody's socket is lost while it is joined: that is the only way to a participant
\* that stays listed (participant.go:45-60, 104-123).
THEOREM OnlyLostSocketsLeaveGhosts ==
  Spec /\ [][ \A c \in Clients : step[c] = "reading" /\ step'[c] = "dropped" => c \notin joined ]_vars
    => []ParticipantsAreConnected
<1> DEFINE LeavesFirst ==
             \A c \in Clients : step[c] = "reading" /\ step'[c] = "dropped" => c \notin joined
<1>1. Init => NobodyLeavingIsJoined
  BY DEF Init, NobodyLeavingIsJoined
<1>2. HubInv /\ NobodyLeavingIsJoined /\ [Next]_vars /\ [LeavesFirst]_vars => NobodyLeavingIsJoined'
  <2>1. CASE UNCHANGED vars
    BY <2>1 DEF vars, memberVars, NobodyLeavingIsJoined
  <2>2. CASE ~UNCHANGED vars
    BY <2>2, StepsMakeNoGhosts
  <2>3. QED
    BY <2>1, <2>2
<1>3. NobodyLeavingIsJoined => ParticipantsAreConnected
  BY DEF NobodyLeavingIsJoined, Leaving, ParticipantsAreConnected
<1>4. QED
  BY <1>1, <1>2, <1>3, HubInvariance, PTL DEF Spec
=============================================================================
