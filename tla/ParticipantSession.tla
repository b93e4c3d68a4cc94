------------------------- MODULE ParticipantSession --------------------------
(***************************************************************************)
(* The connection of a participant page to the host: the phases of         *)
(* stores/participant-store.ts, the WebSocket of adapters/                 *)
(* live-participant-signaling.ts and the RTCPeerConnection of adapters/    *)
(* live-peer.ts.                                                           *)
(*                                                                         *)
(* The page has one thread.  A step is one task of its event loop with the *)
(* code up to the next await; what a settled promise continues (Finish,    *)
(* Catch) runs before the next task.  Every call of connectSession is a    *)
(* session: it opens at most one socket, creates at most one peer          *)
(* connection and waits for at most one answer, so a session names all of  *)
(* them.  Nothing cancels a session: after its socket is lost or the user  *)
(* left it goes on behind the next one.                                    *)
(*                                                                         *)
(* The back-off delay, the view and the tracks are data and left out.      *)
(***************************************************************************)
EXTENDS Naturals

CONSTANT Sessions  \* bound: calls of connectSession that are alive at a time
ASSUME SessionsAssumption == Sessions \subseteq Nat \ {0}

None == 0

\* Where a session is: the await it is at, or "rejected" and "finish" once the
\* promise has settled and its continuation is to run.
Awaits == {"none", "welcome", "rejected", "stream", "offer", "answer", "remote", "finish"}

VARIABLES
  phase,           \* state.phase
  userDisconnect, wasConnected,  \* the latter is wasConnectedThisSession
  reconnectTimer,  \* the reconnect timer is armed
  localStream,     \* there is a local media stream
  run,             \* per session, the await it is at
  socket,          \* per session, its WebSocket
  ws,              \* LiveParticipantSignaling.ws
  pc,              \* LiveParticipantPeer.pc
  remote,          \* its remote description is set
  waiter,          \* the session answerResolver and answerRejector belong to
  answerTimers,    \* sessions whose answer timeout has not fired yet
  offered          \* sockets on which the host has an offer to answer

storeVars == <<phase, userDisconnect, wasConnected, reconnectTimer, localStream>>
peerVars == <<pc, remote, waiter>>
linkVars == <<ws, socket, offered>>
vars == <<storeVars, run, linkVars, peerVars, answerTimers>>

Init ==
  /\ phase = "idle"
  /\ userDisconnect = FALSE
  /\ wasConnected = FALSE
  /\ reconnectTimer = FALSE
  /\ localStream \in BOOLEAN
  /\ run = [s \in Sessions |-> "none"]
  /\ socket = [s \in Sessions |-> "none"]
  /\ ws = None
  /\ pc = None
  /\ remote = FALSE
  /\ waiter = None
  /\ answerTimers = {}
  /\ offered = {}

\* No promise has settled whose continuation is still to run, and no socket is
\* between its error and its close event.
Settled == \A s \in Sessions : run[s] \notin {"finish", "rejected"}
Calm == Settled /\ \A s \in Sessions : socket[s] # "erred"

-----------------------------------------------------------------------------
(* The adapters.                                                            *)

Released_KeepsWait(r) ==
  [s \in Sessions |-> IF s = pc /\ r[s] \in {"offer", "remote"} THEN "none" ELSE r[s]]

\* closePc rejects the wait for an answer; a call that is under way on a closed
\* peer connection never settles.
Released(r) ==
  [s \in Sessions |-> IF s = waiter THEN "finish"
                      ELSE IF s = pc /\ r[s] \in {"offer", "remote"} THEN "none"
                      ELSE r[s]]

ClosePeer(r) ==
  /\ run' = Released(r)
  /\ pc' = None
  /\ waiter' = None
  /\ remote' = FALSE

\* disconnect: the socket's close event is not listened to any more.
Disconnect ==
  IF ws = None THEN UNCHANGED linkVars
  ELSE /\ socket' = [socket EXCEPT ![ws] = "none"]
       /\ ws' = None
       /\ offered' = offered \ {ws}

\* start, up to its first await.
StartPeer(s) ==
  /\ run' = [Released(run) EXCEPT ![s] = "offer"]
  /\ pc' = s
  /\ waiter' = None
  /\ remote' = FALSE

-----------------------------------------------------------------------------
(* The store.                                                               *)

Reconnects == ~userDisconnect /\ wasConnected

\* clearReconnectTimers.
ClearedTimer_StillArmed == reconnectTimer
ClearedTimer == FALSE

\* beginReconnect but for signaling.disconnect.
BeginReconnect(r) ==
  /\ IF Reconnects
     THEN /\ phase' = "reconnecting"
          /\ reconnectTimer' = TRUE
          /\ ClosePeer(r)
     ELSE /\ phase' = "idle"
          /\ run' = r
          /\ UNCHANGED <<reconnectTimer, peerVars>>
  /\ UNCHANGED <<userDisconnect, wasConnected, localStream, answerTimers>>

\* An id nothing refers to; a promise whose socket was silenced never settles.
Fresh(s) ==
  /\ run[s] \in {"none", "welcome"} /\ socket[s] = "none"
  /\ s \notin answerTimers \cup {pc, waiter}

\* connectSession up to signaling.connect, which refuses a second socket.
ConnectSession ==
  /\ \E s \in Sessions : Fresh(s)
  /\ LET s == CHOOSE k \in Sessions : Fresh(k) IN
       IF ws # None
       THEN run' = [run EXCEPT ![s] = "rejected"] /\ UNCHANGED linkVars
       ELSE /\ run' = [run EXCEPT ![s] = "welcome"]
            /\ socket' = [socket EXCEPT ![s] = "opening"]
            /\ UNCHANGED <<ws, offered>>
  /\ phase' = "connecting"
  /\ userDisconnect' = FALSE
  /\ reconnectTimer' = ClearedTimer
  /\ UNCHANGED <<wasConnected, localStream, peerVars, answerTimers>>

\* The Connect button, shown while the phase is idle.
Connect == Calm /\ phase = "idle" /\ ConnectSession

\* retryNow, on the lost-host banner.
RetryNow == Calm /\ phase = "reconnecting" /\ ConnectSession

ReconnectTimerFires ==
  /\ Calm
  /\ reconnectTimer
  /\ IF phase \in {"connecting", "connected"}
     THEN /\ reconnectTimer' = FALSE
          /\ UNCHANGED <<phase, userDisconnect, wasConnected, localStream, run,
                         linkVars, peerVars, answerTimers>>
     ELSE ConnectSession

\* The Disconnect button, which is disabled while the phase is connecting.
UserDisconnects ==
  /\ Calm
  /\ phase \in {"connected", "reconnecting"}
  /\ userDisconnect' = TRUE
  /\ reconnectTimer' = ClearedTimer
  /\ ClosePeer(run)
  /\ Disconnect
  /\ phase' = "idle"
  /\ UNCHANGED <<wasConnected, localStream, answerTimers>>

\* The end of completeJoin.
Finish(s) ==
  /\ run[s] = "finish"
  /\ run' = [run EXCEPT ![s] = "none"]
  /\ wasConnected' = TRUE
  /\ phase' = "connected"
  /\ UNCHANGED <<userDisconnect, reconnectTimer, localStream, linkVars, peerVars,
                 answerTimers>>

\* The catch of connectSession.
Catch(s) ==
  /\ run[s] = "rejected"
  /\ BeginReconnect([run EXCEPT ![s] = "none"])
  /\ IF Reconnects THEN Disconnect ELSE UNCHANGED linkVars

-----------------------------------------------------------------------------
(* The socket of a session.                                                 *)

SocketOpens(s) ==
  /\ Calm
  /\ socket[s] = "opening"
  /\ socket' = [socket EXCEPT ![s] = "open"]
  /\ ws' = s
  /\ UNCHANGED <<storeVars, run, offered, peerVars, answerTimers>>

\* The first message of the host.  The local stream may still have to be asked for.
Welcome(s) ==
  /\ Calm
  /\ socket[s] = "open"
  /\ run[s] = "welcome"
  /\ IF localStream THEN StartPeer(s)
     ELSE run' = [run EXCEPT ![s] = "stream"] /\ UNCHANGED peerVars
  /\ UNCHANGED <<storeVars, linkVars, answerTimers>>

Rejected(s) == IF run[s] = "welcome" THEN [run EXCEPT ![s] = "rejected"] ELSE run

\* The connection cannot be established or breaks with an error event ...
SocketErrs(s) ==
  /\ Calm
  /\ socket[s] \in {"opening", "open"}
  /\ socket' = [socket EXCEPT ![s] = "erred"]
  /\ run' = Rejected(s)
  /\ UNCHANGED <<storeVars, ws, offered, peerVars, answerTimers>>

\* ... which the close event follows before anything else; it may come alone.
\* Whatever socket closed, ws is forgotten, and handleSignalingClose is called.
SocketCloses(s, wasClean) ==
  /\ Settled
  /\ socket[s] = "erred" \/ (Calm /\ socket[s] \in {"opening", "open"})
  /\ socket' = [socket EXCEPT ![s] = "none"]
  /\ ws' = None
  /\ offered' = offered \ {s}
  /\ IF userDisconnect \/ (wasConnected /\ ~wasClean) \/ phase \in {"connected", "connecting"}
     THEN BeginReconnect(Rejected(s))
     ELSE run' = Rejected(s) /\ UNCHANGED <<storeVars, peerVars, answerTimers>>

-----------------------------------------------------------------------------
(* The media and the peer connection of a session.                          *)

\* getUserMedia is granted, and the peer is started.
StreamGranted(s) ==
  /\ Calm
  /\ run[s] = "stream"
  /\ localStream' = TRUE
  /\ StartPeer(s)
  /\ UNCHANGED <<phase, userDisconnect, wasConnected, reconnectTimer, linkVars,
                 answerTimers>>

\* It is refused, or the offer cannot be made.
MediaFails(s) ==
  /\ Calm
  /\ run[s] \in {"stream", "offer"}
  /\ run' = [run EXCEPT ![s] = "rejected"]
  /\ UNCHANGED <<storeVars, linkVars, peerVars, answerTimers>>

\* send drops the message if there is no socket.
Sent_Unchecked == offered \cup {ws}
Sent == IF ws = None THEN offered ELSE offered \cup {ws}

AnswerTimersWith_NoTimeout(s) == answerTimers
AnswerTimersWith(s) == answerTimers \cup {s}

\* The offer is sent; its answer is waited for in any case.
OfferMade(s) ==
  /\ Calm
  /\ run[s] = "offer"
  /\ run' = [run EXCEPT ![s] = "answer"]
  /\ waiter' = s
  /\ answerTimers' = AnswerTimersWith(s)
  /\ offered' = Sent
  /\ UNCHANGED <<storeVars, ws, socket, pc, remote>>

\* An answer goes to whoever waits for one, if anybody does.
Answer(k) ==
  /\ Calm
  /\ k \in offered
  /\ offered' = offered \ {k}
  /\ waiter' = None
  /\ run' = IF waiter = None THEN run ELSE [run EXCEPT ![waiter] = "remote"]
  /\ UNCHANGED <<storeVars, ws, socket, pc, remote, answerTimers>>

\* So does a timeout: the timer of one session ends the wait of another.
AnswerTimeout(s) ==
  /\ Calm
  /\ s \in answerTimers
  /\ answerTimers' = answerTimers \ {s}
  /\ waiter' = None
  /\ run' = IF waiter = None THEN run ELSE [run EXCEPT ![waiter] = "finish"]
  /\ UNCHANGED <<storeVars, linkVars, pc, remote>>

\* setRemoteDescription; the session goes on if it is refused.
RemoteDescription(s) ==
  /\ Calm
  /\ run[s] = "remote"
  /\ run' = [run EXCEPT ![s] = "finish"]
  /\ remote' \in BOOLEAN
  /\ UNCHANGED <<storeVars, linkVars, pc, waiter, answerTimers>>

\* The peer connection fails or is disconnected.
PeerLost ==
  /\ Calm
  /\ remote
  /\ Reconnects
  /\ BeginReconnect(run)
  /\ Disconnect

-----------------------------------------------------------------------------
\* What settles by itself while the host is there and the user answers prompts.
Progress(s) ==
  \/ Finish(s) \/ Catch(s)
  \/ SocketOpens(s) \/ Welcome(s) \/ (socket[s] = "erred" /\ SocketCloses(s, FALSE))
  \/ StreamGranted(s) \/ OfferMade(s) \/ RemoteDescription(s) \/ AnswerTimeout(s)

Next ==
  \/ Connect \/ RetryNow \/ ReconnectTimerFires \/ UserDisconnects
  \/ \E s \in Sessions :
       \/ Progress(s)
       \/ SocketErrs(s) \/ \E wasClean \in BOOLEAN : SocketCloses(s, wasClean)
       \/ MediaFails(s) \/ Answer(s)
  \/ PeerLost

Spec ==
  /\ Init /\ [][Next]_vars
  /\ WF_vars(ReconnectTimerFires)
  /\ \A s \in Sessions : WF_vars(Progress(s))

-----------------------------------------------------------------------------
(* Properties.                                                              *)

\* Every variable has its type.
TypeOK ==
  /\ phase \in {"idle", "connecting", "connected", "reconnecting"}
  /\ userDisconnect \in BOOLEAN
  /\ wasConnected \in BOOLEAN
  /\ reconnectTimer \in BOOLEAN
  /\ localStream \in BOOLEAN
  /\ run \in [Sessions -> Awaits]
  /\ socket \in [Sessions -> {"none", "opening", "open", "erred"}]
  /\ ws \in Sessions \cup {None}
  /\ pc \in Sessions \cup {None}
  /\ remote \in BOOLEAN
  /\ waiter \in Sessions \cup {None}
  /\ answerTimers \subseteq Sessions
  /\ offered \subseteq Sessions

\* The lost-host banner always counts down to something, and nothing reconnects a
\* participant that is idle or left (participant-store.ts:272-304, 369-391).
TimerMatchesPhase ==
  /\ phase = "reconnecting" => reconnectTimer
  /\ phase = "idle" \/ userDisconnect => ~reconnectTimer

\* A wait for an answer can always end: its promise is the one that the next answer
\* or timeout settles, on the peer connection that is open, and a timeout is to come
\* (live-peer.ts:115-143, 209-224).
AnswerCanCome ==
  \A s \in Sessions : run[s] = "answer" =>
    waiter = s /\ pc = s /\ s \in answerTimers

\* A page that shows it is connected has a socket: it shows the lost-host banner and
\* reconnects when the WebSocket drops (docs/UI.md:74).  A session that waits for its
\* answer while the socket is lost still ends in "connected".
ConnectedHasSocket == Calm /\ phase = "connected" => ws # None

\* Connecting comes to an end, by success or by failure, whichever sessions linger and
\* interfere: the Disconnect button is disabled that long, so the user cannot end it
\* (participant-store.ts:243-270, live-peer.ts:115-128).
ConnectingEnds == phase = "connecting" ~> phase # "connecting"
=============================================================================
