--------------------------- MODULE ParticipantHub ---------------------------
(***************************************************************************)
(* Participants come and go (signaling/participant.go, room.go, webrtc's   *)
(* hub.go).  Every participant has a socket with a goroutine of its own    *)
(* that reads one message after the other and handles it; the handlers     *)
(* share the hub's table of clients, the room's list of participants and   *)
(* the table of WebRTC peers, each under a lock of its own that is held    *)
(* for one access.  The audio goroutine asks for a broadcast with every    *)
(* selection it publishes (bridge.go:128-133).                             *)
(*                                                                         *)
(* A client id stands for one connection: HandleUpgrade draws a new one    *)
(* for each (newClientID).  Of the view a participant is sent, the model   *)
(* keeps the list of participants.                                         *)
(***************************************************************************)
EXTENDS BroadcastThrottle, FiniteSets

CONSTANT Clients

NoView == [shown |-> FALSE, of |-> {}]
ViewOf(members) == [shown |-> TRUE, of |-> members]
Views == [shown : BOOLEAN, of : SUBSET Clients]

\* Where the goroutine of a client is: between two messages it is "reading".
Steps == {"away", "welcome", "welcome-write", "reading", "join-view", "join-write",
          "leave-peer", "schedule", "dropped", "drop-peer", "gone"}

VARIABLES
  registered,  \* ParticipantHub.clients
  joined,      \* Room.connected, and State.Participants, which shows the same
  peers,       \* webrtc.Hub.peers
  step,        \* per client, where its goroutine is
  direct,      \* per client, the view its goroutine took and has not written yet
  sending,     \* the clients the running broadcast has not written to yet
  pushed,      \* the view it took for one of them, [to, view]
  view,        \* per registered client, the last view written to its socket
  overtaken    \* history: the last view is one that a newer push overtook

memberVars == <<registered, joined, peers>>
viewVars == <<direct, sending, pushed, view, overtaken>>
vars == <<throttleVars, memberVars, step, viewVars>>

NoPush == [to |-> "nobody", view |-> NoView]

Init ==
  /\ ThrottleInit
  /\ registered = {}
  /\ joined = {}
  /\ peers = {}
  /\ step = [c \in Clients |-> "away"]
  /\ direct = [c \in Clients |-> NoView]
  /\ sending = {}
  /\ pushed = NoPush
  /\ view = [c \in Clients |-> NoView]
  /\ overtaken = [c \in Clients |-> FALSE]

Goes(c, from, to) == step[c] = from /\ step' = [step EXCEPT ![c] = to]

-----------------------------------------------------------------------------
(* A connection: HandleUpgrade and the end of its goroutine.                *)

Connect(c) ==
  /\ ~busy
  /\ Goes(c, "away", "welcome")
  /\ registered' = registered \cup {c}
  /\ UNCHANGED <<throttleVars, joined, peers, viewVars>>

\* ViewFor copies the room under its lock; the socket is written afterwards.
TakeView(c, from, to) ==
  /\ Goes(c, from, to)
  /\ direct' = [direct EXCEPT ![c] = ViewOf(joined)]
  /\ UNCHANGED <<throttleVars, memberVars, sending, pushed, view, overtaken>>

WriteView(c, from, to) ==
  /\ Goes(c, from, to)
  /\ view' = [view EXCEPT ![c] = direct[c]]
  /\ direct' = [direct EXCEPT ![c] = NoView]
  /\ UNCHANGED <<throttleVars, memberVars, sending, pushed, overtaken>>

Welcome(c) == \/ TakeView(c, "welcome", "welcome-write")
              \/ WriteView(c, "welcome-write", "reading")

\* ReadMessage fails: the socket is gone, with or without a leave before.
Drop(c) ==
  /\ Goes(c, "reading", "dropped")
  /\ UNCHANGED <<throttleVars, memberVars, viewVars>>

Unregister_Unlocked(c) ==
  /\ Goes(c, "dropped", "drop-peer")
  /\ registered' = registered \ {c}
  /\ view' = [view EXCEPT ![c] = NoView]
  /\ overtaken' = [overtaken EXCEPT ![c] = FALSE]
  /\ UNCHANGED <<throttleVars, joined, peers, direct, sending, pushed>>
Unregister(c) ==
  /\ ~busy
  /\ Goes(c, "dropped", "drop-peer")
  /\ registered' = registered \ {c}
  /\ view' = [view EXCEPT ![c] = NoView]
  /\ overtaken' = [overtaken EXCEPT ![c] = FALSE]
  /\ UNCHANGED <<throttleVars, joined, peers, direct, sending, pushed>>

RemainingPeers_AllStay(c) == peers
RemainingPeers(c) == peers \ {c}

RemovePeer(c, from, to) ==
  /\ Goes(c, from, to)
  /\ peers' = RemainingPeers(c)
  /\ UNCHANGED <<throttleVars, registered, joined, viewVars>>

-----------------------------------------------------------------------------
(* The messages of a client (handleMessage).                                *)

\* A client joins as often as it likes; a second join changes its name only.
Join(c) ==
  /\ Goes(c, "reading", "join-view")
  /\ joined' = joined \cup {c}
  /\ UNCHANGED <<throttleVars, registered, peers, viewVars>>

AnswerJoin(c) == \/ TakeView(c, "join-view", "join-write")
                 \/ WriteView(c, "join-write", "schedule")

AfterLeave_Silent == "reading"
AfterLeave == "schedule"

Leave(c) ==
  /\ Goes(c, "reading", "leave-peer")
  /\ joined' = joined \ {c}
  /\ UNCHANGED <<throttleVars, registered, peers, viewVars>>

\* HandleOffer: the peer is kept whether the offer is good or not.
Offer(c) ==
  /\ Goes(c, "reading", "reading")
  /\ peers' = peers \cup {c}
  /\ UNCHANGED <<throttleVars, registered, joined, viewVars>>

StartSending_ToJoined ==
  /\ sending' = IF busy' /\ ~busy THEN registered \cap joined ELSE sending
  /\ UNCHANGED <<memberVars, direct, pushed, view, overtaken>>

\* What a started broadcast has to do: the clients registered at that time.
StartSending ==
  /\ sending' = IF busy' /\ ~busy THEN registered ELSE sending
  /\ UNCHANGED <<memberVars, direct, pushed, view, overtaken>>

Schedule(c) ==
  /\ Goes(c, "schedule", "reading")
  /\ ScheduleBroadcast
  /\ StartSending

-----------------------------------------------------------------------------
(* The broadcast, written by whoever holds the mutex.                       *)

Publish == ScheduleBroadcast /\ StartSending /\ UNCHANGED step
FireTimer == TimerFires /\ StartSending /\ UNCHANGED step

TakePush(c) ==
  /\ c \in sending /\ pushed = NoPush
  /\ pushed' = [to |-> c, view |-> ViewOf(joined)]
  /\ UNCHANGED <<throttleVars, memberVars, step, direct, sending, view, overtaken>>

WritePush ==
  /\ pushed # NoPush
  /\ LET c == pushed.to IN
       /\ view' = [view EXCEPT ![c] = pushed.view]
       /\ sending' = sending \ {c}
       /\ overtaken' = [overtaken EXCEPT ![c] = direct[c] # NoView]
  /\ pushed' = NoPush
  /\ UNCHANGED <<throttleVars, memberVars, step, direct>>

FinishBroadcast ==
  /\ sending = {}
  /\ BroadcastEnd
  /\ UNCHANGED <<memberVars, step, viewVars>>

TimePasses == Tick /\ UNCHANGED <<memberVars, step, viewVars>>

-----------------------------------------------------------------------------
\* What the goroutine of a client does of its own accord ...
Handle(c) ==
  \/ Welcome(c) \/ AnswerJoin(c) \/ Schedule(c)
  \/ RemovePeer(c, "leave-peer", AfterLeave)
  \/ Unregister(c) \/ RemovePeer(c, "drop-peer", "gone")
\* ... and what a client makes it do.
Message(c) == Connect(c) \/ Join(c) \/ Leave(c) \/ Offer(c) \/ Drop(c)

Push == (\E c \in Clients : TakePush(c)) \/ WritePush \/ FinishBroadcast

Next ==
  \/ \E c \in Clients : Handle(c) \/ Message(c)
  \/ Publish \/ FireTimer \/ Push \/ TimePasses

\* Goroutines run, writes to a socket end, timers fire, the audio goroutine
\* publishes.  Nobody is promised the hub's mutex: while others keep taking it,
\* there are broadcasts.
Spec ==
  /\ Init /\ [][Next]_vars
  /\ \A c \in Clients : WF_vars(Handle(c))
  /\ WF_vars(Publish) /\ WF_vars(FireTimer) /\ WF_vars(Push) /\ WF_vars(TimePasses)

-----------------------------------------------------------------------------
(* Properties.                                                              *)

\* Every variable has its type.
TypeOK ==
  /\ ThrottleTypeOK
  /\ registered \subseteq Clients
  /\ joined \subseteq Clients
  /\ peers \subseteq Clients
  /\ step \in [Clients -> Steps]
  /\ direct \in [Clients -> Views]
  /\ sending \subseteq registered
  /\ pushed = NoPush \/ (pushed.to \in sending /\ pushed.view \in Views)
  /\ view \in [Clients -> Views]
  /\ overtaken \in [Clients -> BOOLEAN]

\* No WebRTC peer outlives its socket: a peer belongs to a client that is registered
\* or whose goroutine has still to remove it, whatever offers, leaves and drops came
\* in which order (participant.go:54-60, 120-123, hub.go:51-61).
PeersOwned ==
  \A c \in peers : c \in registered \/ step[c] = "drop-peer"

\* Coalescing loses no change: when no broadcast runs or is pending and no handler
\* is busy, every participant that is connected has been shown the participants
\* there are, unless the view written last to it was taken before a push that
\* overtook it (participant.go:73-92, 104-123).
Quiet ==
  /\ ~busy /\ timer = NoTimer
  /\ \A c \in Clients : step[c] \in {"away", "reading", "dropped", "drop-peer", "gone"}
PushedWhenQuiet ==
  Quiet => \A c \in registered : view[c] = ViewOf(joined) \/ overtaken[c]

\* Views converge: once nobody joins or leaves any more, all participants that stay
\* connected are shown the participants there are, for good (docs/API.md:256).
ViewsConverge ==
  <>[][joined' = joined]_vars => <>[](\A c \in registered : view[c] = ViewOf(joined))

\* Who is listed as a participant is connected: participants join and disconnect
\* dynamically (.cursor/plans/spidercam_next_iteration_e83e1b88.plan.md:84).  A
\* socket that is lost without a leave keeps its participant in the room for good.
ParticipantsAreConnected ==
  \A c \in joined : step[c] # "gone"
=============================================================================
