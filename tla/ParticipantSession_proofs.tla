---------------------- MODULE ParticipantSession_proofs ----------------------
(***************************************************************************)
(* For any number of sessions that linger, the reconnect timer matches the *)
(* phase and a wait for an answer can end.  The first needs that a timer   *)
(* is armed only after the participant was connected once (beginReconnect  *)
(* may otherwise show "idle" and leave it armed), the second that an offer *)
(* is only ever made for the peer connection that is open.  While the page *)
(* connects something is to come; and it has a socket when it shows that   *)
(* it is connected, if no session was left behind when one was lost.       *)
(***************************************************************************)
EXTENDS ParticipantSession, TLAPS

StoreTyped ==
  /\ phase \in {"idle", "connecting", "connected", "reconnecting"}
  /\ userDisconnect \in BOOLEAN
  /\ wasConnected \in BOOLEAN
  /\ reconnectTimer \in BOOLEAN
  /\ localStream \in BOOLEAN

PeerTyped ==
  /\ run \in [Sessions -> Awaits]
  /\ pc \in Sessions \cup {None}
  /\ remote \in BOOLEAN
  /\ waiter \in Sessions \cup {None}
  /\ answerTimers \subseteq Sessions

LinksTyped ==
  /\ socket \in [Sessions -> {"none", "opening", "open", "erred"}]
  /\ ws \in Sessions \cup {None}
  /\ offered \subseteq Sessions

TimerInv == StoreTyped /\ TimerMatchesPhase /\ (reconnectTimer => wasConnected)

OfferOnPeer == \A s \in Sessions : run[s] = "offer" => pc = s
AnswerInv == PeerTyped /\ AnswerCanCome /\ OfferOnPeer

Inv == TimerInv /\ AnswerInv /\ LinksTyped

-----------------------------------------------------------------------------
(* The operators that several actions share.                                *)

\* A session that ends or is rejected leaves no offer and no wait behind.
Quieter(r) ==
  /\ r \in [Sessions -> Awaits]
  /\ \A k \in Sessions : r[k] \in {"offer", "answer", "remote"} => r[k] = run[k]

\* closePc leaves no session at an offer or at a wait (live-peer.ts:209-224).
LEMMA ReleasedEndsWaits ==
  ASSUME AnswerInv, NEW r, Quieter(r)
  PROVE  /\ Released(r) \in [Sessions -> Awaits]
         /\ \A k \in Sessions : Released(r)[k] \notin {"offer", "answer"}
<1>1. ASSUME NEW k \in Sessions
      PROVE  Released(r)[k] \in Awaits /\ Released(r)[k] \notin {"offer", "answer"}
  BY <1>1 DEF AnswerInv, PeerTyped, AnswerCanCome, OfferOnPeer, Quieter, Released, Awaits
<1>2. Released(r) \in [Sessions -> Awaits]
  BY <1>1 DEF Released
<1>. QED BY <1>1, <1>2

\* peer.close keeps the invariant of the waits.
LEMMA ClosePeerKeeps ==
  ASSUME AnswerInv, NEW r, Quieter(r), ClosePeer(r), answerTimers' = answerTimers
  PROVE  AnswerInv'
  BY ReleasedEndsWaits DEF AnswerInv, PeerTyped, AnswerCanCome, OfferOnPeer, ClosePeer

\* So does a session that only gets quieter.
LEMMA QuieterKeeps ==
  ASSUME AnswerInv, NEW r, Quieter(r), run' = r, UNCHANGED <<peerVars, answerTimers>>
  PROVE  AnswerInv'
  BY DEF AnswerInv, PeerTyped, AnswerCanCome, OfferOnPeer, Quieter, peerVars

\* So does the start of a peer connection (live-peer.ts:27-58).
LEMMA StartPeerKeeps ==
  ASSUME AnswerInv, NEW s \in Sessions, StartPeer(s), answerTimers' = answerTimers
  PROVE  AnswerInv'
<1>1. Quieter(run)
  BY DEF AnswerInv, PeerTyped, Quieter
<1>2. /\ Released(run) \in [Sessions -> Awaits]
      /\ \A k \in Sessions : Released(run)[k] \notin {"offer", "answer"}
  BY <1>1, ReleasedEndsWaits
<1>3. run' \in [Sessions -> Awaits]
  BY <1>2 DEF StartPeer, Awaits
<1>4. \A k \in Sessions : run'[k] # "answer" /\ (run'[k] = "offer" => k = s)
  BY <1>2 DEF StartPeer
<1>. QED BY <1>3, <1>4 DEF AnswerInv, PeerTyped, AnswerCanCome, OfferOnPeer, StartPeer

\* One session set to a step at which it neither offers nor waits.
LEMMA SetQuieter ==
  ASSUME AnswerInv, NEW s \in Sessions,
         NEW a \in {"none", "welcome", "rejected", "stream", "finish"}
  PROVE  Quieter([run EXCEPT ![s] = a])
  BY DEF AnswerInv, PeerTyped, Quieter, Awaits

\* beginReconnect arms the timer or shows idle without one (participant-store.ts:272-304).
LEMMA BeginReconnectKeeps ==
  ASSUME TimerInv, AnswerInv, NEW r, Quieter(r), BeginReconnect(r)
  PROVE  TimerInv' /\ AnswerInv'
<1>1. CASE Reconnects
  <2>1. AnswerInv'
    BY <1>1, ClosePeerKeeps DEF BeginReconnect
  <2>2. TimerInv'
    BY <1>1 DEF BeginReconnect, TimerInv, StoreTyped, TimerMatchesPhase, Reconnects
  <2>. QED BY <2>1, <2>2
<1>2. CASE ~Reconnects
  <2>1. AnswerInv'
    BY <1>2, QuieterKeeps DEF BeginReconnect
  <2>2. TimerInv'
    BY <1>2 DEF BeginReconnect, TimerInv, StoreTyped, TimerMatchesPhase, Reconnects
  <2>. QED BY <2>1, <2>2
<1>. QED BY <1>1, <1>2

\* signaling.disconnect keeps the types of the links (live-participant-signaling.ts:84-92).
LEMMA DisconnectKeeps ==
  ASSUME LinksTyped, Disconnect
  PROVE  LinksTyped'
  BY DEF LinksTyped, Disconnect, linkVars

\* connectSession up to its first await keeps the invariant.
LEMMA ConnectKeeps ==
  ASSUME Inv, ConnectSession
  PROVE  Inv'
<1>1. PICK s \in Sessions : Fresh(s) /\ s = CHOOSE k \in Sessions : Fresh(k)
  BY DEF ConnectSession
<1>2. \/ run' = [run EXCEPT ![s] = "rejected"] /\ UNCHANGED linkVars
      \/ /\ run' = [run EXCEPT ![s] = "welcome"]
         /\ socket' = [socket EXCEPT ![s] = "opening"]
         /\ UNCHANGED <<ws, offered>>
  BY <1>1 DEF ConnectSession
<1>3. Quieter(run')
  BY <1>2, SetQuieter DEF Inv
<1>4. AnswerInv'
  BY <1>3, QuieterKeeps DEF Inv, ConnectSession
<1>5. LinksTyped'
  BY <1>2 DEF Inv, LinksTyped, linkVars
<1>6. TimerInv'
  BY DEF Inv, ConnectSession, ClearedTimer, TimerInv, StoreTyped, TimerMatchesPhase
<1>. QED BY <1>4, <1>5, <1>6 DEF Inv

-----------------------------------------------------------------------------
(* The actions.                                                             *)

\* What the user and the timer do keeps the invariant.
LEMMA CommandKeeps ==
  ASSUME Inv, Connect \/ RetryNow \/ ReconnectTimerFires \/ UserDisconnects
  PROVE  Inv'
<1>1. CASE Connect \/ RetryNow
  BY <1>1, ConnectKeeps DEF Connect, RetryNow
<1>2. CASE ReconnectTimerFires
  <2>1. CASE phase \in {"connecting", "connected"}
    BY <1>2, <2>1 DEF ReconnectTimerFires, Inv, TimerInv, StoreTyped, TimerMatchesPhase,
         AnswerInv, PeerTyped, AnswerCanCome, OfferOnPeer, LinksTyped, peerVars, linkVars
  <2>2. CASE phase \notin {"connecting", "connected"}
    BY <1>2, <2>2, ConnectKeeps DEF ReconnectTimerFires
  <2>. QED BY <2>1, <2>2
<1>3. CASE UserDisconnects
  <2>1. Quieter(run)
    BY DEF Inv, AnswerInv, PeerTyped, Quieter
  <2>2. AnswerInv' /\ LinksTyped'
    BY <1>3, <2>1, ClosePeerKeeps, DisconnectKeeps DEF Inv, UserDisconnects
  <2>3. TimerInv'
    BY <1>3 DEF UserDisconnects, Inv, ClearedTimer, TimerInv, StoreTyped, TimerMatchesPhase
  <2>. QED BY <2>2, <2>3 DEF Inv
<1>. QED BY <1>1, <1>2, <1>3

\* A settled promise: the session is connected, or connectSession's catch runs.
LEMMA SettledKeeps ==
  ASSUME Inv, NEW s \in Sessions, Finish(s) \/ Catch(s)
  PROVE  Inv'
<1>1. CASE Finish(s)
  <2>1. AnswerInv'
    BY <1>1, SetQuieter, QuieterKeeps DEF Inv, Finish
  <2>2. TimerInv' /\ LinksTyped'
    BY <1>1 DEF Finish, Inv, TimerInv, StoreTyped, TimerMatchesPhase, LinksTyped, linkVars
  <2>. QED BY <2>1, <2>2 DEF Inv
<1>2. CASE Catch(s)
  <2>1. TimerInv' /\ AnswerInv'
    BY <1>2, SetQuieter, BeginReconnectKeeps DEF Inv, Catch
  <2>2. LinksTyped'
    BY <1>2, DisconnectKeeps DEF Inv, Catch, LinksTyped, linkVars
  <2>. QED BY <2>1, <2>2 DEF Inv
<1>. QED BY <1>1, <1>2

\* What happens to a session's socket keeps it.
LEMMA SocketKeeps ==
  ASSUME Inv, NEW s \in Sessions,
         \/ SocketOpens(s) \/ Welcome(s) \/ SocketErrs(s)
         \/ \E wasClean \in BOOLEAN : SocketCloses(s, wasClean)
  PROVE  Inv'
<1>1. CASE SocketOpens(s)
  BY <1>1 DEF SocketOpens, Inv, TimerInv, StoreTyped, TimerMatchesPhase, AnswerInv, PeerTyped,
       AnswerCanCome, OfferOnPeer, LinksTyped, peerVars, storeVars
<1>2. CASE Welcome(s)
  <2>1. TimerInv' /\ LinksTyped'
    BY <1>2 DEF Welcome, Inv, TimerInv, StoreTyped, TimerMatchesPhase, LinksTyped, storeVars, linkVars
  <2>2. AnswerInv'
    BY <1>2, StartPeerKeeps, SetQuieter, QuieterKeeps DEF Inv, Welcome
  <2>. QED BY <2>1, <2>2 DEF Inv
<1>3. Quieter(Rejected(s))
  BY DEF Inv, AnswerInv, PeerTyped, Quieter, Rejected, Awaits
<1>4. CASE SocketErrs(s)
  <2>1. AnswerInv'
    BY <1>3, <1>4, QuieterKeeps DEF Inv, SocketErrs
  <2>2. TimerInv' /\ LinksTyped'
    BY <1>4 DEF SocketErrs, Inv, TimerInv, StoreTyped, TimerMatchesPhase, LinksTyped, storeVars
  <2>. QED BY <2>1, <2>2 DEF Inv
<1>5. ASSUME NEW wasClean \in BOOLEAN, SocketCloses(s, wasClean)
      PROVE  Inv'
  <2>1. LinksTyped'
    BY <1>5 DEF SocketCloses, Inv, LinksTyped
  <2>2. CASE BeginReconnect(Rejected(s))
    BY <1>3, <2>1, <2>2, BeginReconnectKeeps DEF Inv
  <2>3. CASE run' = Rejected(s) /\ UNCHANGED <<storeVars, peerVars, answerTimers>>
    <3>1. AnswerInv'
      BY <1>3, <2>3, QuieterKeeps DEF Inv
    <3>2. TimerInv'
      BY <2>3 DEF Inv, TimerInv, StoreTyped, TimerMatchesPhase, storeVars
    <3>. QED BY <2>1, <3>1, <3>2 DEF Inv
  <2>. QED BY <1>5, <2>2, <2>3 DEF SocketCloses
<1>. QED BY <1>1, <1>2, <1>4, <1>5

\* What happens to its media and its peer connection keeps it.
LEMMA MediaKeeps ==
  ASSUME Inv, NEW s \in Sessions,
         \/ StreamGranted(s) \/ MediaFails(s) \/ OfferMade(s) \/ RemoteDescription(s)
         \/ Answer(s) \/ AnswerTimeout(s)
  PROVE  Inv'
<1>1. CASE StreamGranted(s)
  <2>1. AnswerInv'
    BY <1>1, StartPeerKeeps DEF Inv, StreamGranted
  <2>2. TimerInv' /\ LinksTyped'
    BY <1>1 DEF StreamGranted, Inv, TimerInv, StoreTyped, TimerMatchesPhase, LinksTyped, linkVars
  <2>. QED BY <2>1, <2>2 DEF Inv
<1>2. ASSUME \/ MediaFails(s) \/ OfferMade(s) \/ RemoteDescription(s)
             \/ Answer(s) \/ AnswerTimeout(s)
      PROVE  TimerInv' /\ LinksTyped'
  <2>1. UNCHANGED storeVars /\ UNCHANGED <<ws, socket>>
    BY <1>2 DEF MediaFails, OfferMade, RemoteDescription, Answer, AnswerTimeout, linkVars
  <2>2. offered' \subseteq Sessions
    BY <1>2 DEF MediaFails, OfferMade, Sent, RemoteDescription, Answer, AnswerTimeout, linkVars,
         Inv, LinksTyped
  <2>. QED
    BY <2>1, <2>2 DEF Inv, TimerInv, StoreTyped, TimerMatchesPhase, LinksTyped, storeVars
<1>3. CASE MediaFails(s)
  BY <1>2, <1>3, SetQuieter, QuieterKeeps DEF Inv, MediaFails
<1>4. CASE OfferMade(s)
  <2>1. AnswerInv'
    BY <1>4 DEF OfferMade, AnswerTimersWith, Inv, AnswerInv, PeerTyped, AnswerCanCome, OfferOnPeer,
         Awaits
  <2>. QED BY <1>2, <1>4, <2>1 DEF Inv
<1>5. CASE RemoteDescription(s)
  <2>1. AnswerInv'
    BY <1>5 DEF RemoteDescription, Inv, AnswerInv, PeerTyped, AnswerCanCome, OfferOnPeer, Awaits
  <2>. QED BY <1>2, <1>5, <2>1 DEF Inv
<1>6. CASE Answer(s)
  <2>1. AnswerInv'
    BY <1>6 DEF Answer, Inv, AnswerInv, PeerTyped, AnswerCanCome, OfferOnPeer, Awaits
  <2>. QED BY <1>2, <1>6, <2>1 DEF Inv
<1>7. CASE AnswerTimeout(s)
  <2>1. AnswerInv'
    BY <1>7, SessionsAssumption
       DEF SessionsAssumption, None, AnswerTimeout, Inv, AnswerInv, PeerTyped, AnswerCanCome,
           OfferOnPeer, Awaits
  <2>. QED BY <1>2, <1>7, <2>1 DEF Inv
<1>. QED BY <1>1, <1>3, <1>4, <1>5, <1>6, <1>7

\* So does the loss of the peer connection (participant-store.ts:321-333).
LEMMA PeerLostKeeps == ASSUME Inv, PeerLost PROVE Inv'
<1>1. Quieter(run)
  BY DEF Inv, AnswerInv, PeerTyped, Quieter
<1>. QED BY <1>1, BeginReconnectKeeps, DisconnectKeeps DEF Inv, PeerLost

-----------------------------------------------------------------------------

\* The invariant holds of every behaviour of the page.
THEOREM SessionInvariance == Spec => []Inv
<1>1. Init => Inv
  BY SessionsAssumption
     DEF SessionsAssumption, Init, Inv, TimerInv, StoreTyped, TimerMatchesPhase, AnswerInv,
         PeerTyped, AnswerCanCome, OfferOnPeer, LinksTyped, Awaits
<1>2. Inv /\ [Next]_vars => Inv'
  <2>. SUFFICES ASSUME Inv, [Next]_vars PROVE Inv'
    OBVIOUS
  <2>1. CASE UNCHANGED vars
    BY <2>1 DEF vars, storeVars, linkVars, peerVars, Inv, TimerInv, StoreTyped, TimerMatchesPhase,
         AnswerInv, PeerTyped, AnswerCanCome, OfferOnPeer, LinksTyped
  <2>2. CASE Connect \/ RetryNow \/ ReconnectTimerFires \/ UserDisconnects
    BY <2>2, CommandKeeps
  <2>3. ASSUME NEW s \in Sessions,
               \/ Progress(s)
               \/ SocketErrs(s) \/ \E wasClean \in BOOLEAN : SocketCloses(s, wasClean)
               \/ MediaFails(s) \/ Answer(s)
        PROVE  Inv'
    BY <2>3, SettledKeeps, SocketKeeps, MediaKeeps DEF Progress
  <2>4. CASE PeerLost
    BY <2>4, PeerLostKeeps
  <2>. QED BY <2>1, <2>2, <2>3, <2>4 DEF Next
<1>. QED BY <1>1, <1>2, PTL DEF Spec

\* Every variable has its type.
THEOREM SessionTypeCorrect == Spec => []TypeOK
<1>1. Inv => TypeOK
  BY DEF Inv, TimerInv, StoreTyped, AnswerInv, PeerTyped, LinksTyped, TypeOK
<1>. QED BY <1>1, SessionInvariance, PTL

\* The lost-host banner always counts down, and nothing reconnects a participant that
\* is idle or left (participant-store.ts:272-304, 369-391), however many sessions linger.
THEOREM ReconnectTimerMatchesPhase == Spec => []TimerMatchesPhase
<1>1. Inv => TimerMatchesPhase
  BY DEF Inv, TimerInv
<1>. QED BY <1>1, SessionInvariance, PTL

\* Every wait for an answer has an answer or a timeout to come (live-peer.ts:115-143).
THEOREM WaitsCanEnd == Spec => []AnswerCanCome
<1>1. Inv => AnswerCanCome
  BY DEF Inv, AnswerInv
<1>. QED BY <1>1, SessionInvariance, PTL

-----------------------------------------------------------------------------
(* The converse of what the page gets wrong.                                *)

\* What is behind the welcome goes on without a socket, and ends in "connected".
BehindWelcome == {"stream", "offer", "answer", "remote", "finish"}
NoneBehind == \A s \in Sessions : run[s] \notin BehindWelcome

\* A step that costs the page its socket leaves no session of that kind.
LossStrandsNobody == ws # None /\ ws' = None => NoneBehind'

\* There is one socket at a time: one that opens is the connecting session's, one that is
\* open is the page's.
OneSocket ==
  \A s \in Sessions :
    /\ \A t \in Sessions : socket[s] # "none" /\ socket[t] # "none" => s = t
    /\ socket[s] = "open" => ws = s
    /\ socket[s] = "opening" =>
         /\ ws = None /\ phase = "connecting" /\ ~userDisconnect
         /\ \A t \in Sessions : run[t] # "rejected"

\* Without a socket nobody is behind the welcome, and the page is not connected; a page
\* its user has left has none.
NeedsSocket ==
  /\ ws = None => NoneBehind
  /\ phase = "connected" => ws # None
  /\ userDisconnect => ws = None

\* An answer is waited for by a session, and a peer connection that has its answer is the
\* one of a page that is connected or about to be.
WaiterWaits == waiter # None => run[waiter] = "answer"
PeerConnects ==
  remote => \/ phase = "connected" /\ wasConnected /\ ~userDisconnect
            \/ \E s \in Sessions : run[s] = "finish"

SocketInv == OneSocket /\ NeedsSocket /\ WaiterWaits /\ PeerConnects

\* Closing the peer connection moves only who waits for an answer behind the welcome.
LEMMA ReleasedStaysBehind ==
  ASSUME Inv, WaiterWaits, NEW r \in [Sessions -> Awaits]
  PROVE  /\ \A k \in Sessions : Released(r)[k] \in BehindWelcome =>
                                  r[k] \in BehindWelcome \/ run[k] \in BehindWelcome
         /\ \A k \in Sessions : Released(r)[k] = "rejected" => r[k] = "rejected"
         /\ \A k \in Sessions : Released(r)[k] = "answer" => r[k] = "answer"
<1>1. ASSUME NEW k \in Sessions, k = waiter PROVE run[k] \in BehindWelcome
  BY <1>1, SessionsAssumption DEF SessionsAssumption, None, WaiterWaits, BehindWelcome
<1>2. \A k \in Sessions : Released(r)[k] = IF k = waiter THEN "finish"
                                           ELSE IF k = pc /\ r[k] \in {"offer", "remote"} THEN "none"
                                           ELSE r[k]
  BY DEF Released
<1>3. QED
  BY <1>1, <1>2 DEF BehindWelcome

\* connectSession opens the only socket, or is refused one.
LEMMA ConnectKeepsSocket ==
  ASSUME Inv, SocketInv, ConnectSession, Calm, phase \notin {"connecting", "connected"}
  PROVE  SocketInv'
<1>1. PICK s \in Sessions : Fresh(s) /\ s = CHOOSE k \in Sessions : Fresh(k)
  BY DEF ConnectSession
<1>2. s # waiter /\ s # None /\ run[s] \in {"none", "welcome"}
  BY <1>1, SessionsAssumption DEF SessionsAssumption, None, Fresh
<1>3. run \in [Sessions -> Awaits] /\ socket \in [Sessions -> {"none", "opening", "open", "erred"}]
      /\ waiter \in Sessions \cup {None}
  BY DEF Inv, AnswerInv, PeerTyped, LinksTyped
<1>4. \/ ws # None /\ run' = [run EXCEPT ![s] = "rejected"] /\ UNCHANGED linkVars
      \/ /\ ws = None /\ run' = [run EXCEPT ![s] = "welcome"]
         /\ socket' = [socket EXCEPT ![s] = "opening"]
         /\ UNCHANGED <<ws, offered>>
  BY <1>1 DEF ConnectSession
<1>5. \A k \in Sessions : run'[k] = run[k] \/ (k = s /\ run'[k] \in {"rejected", "welcome"})
  BY <1>3, <1>4
<1>6. phase' = "connecting" /\ ws' = ws /\ waiter' = waiter /\ remote' = remote /\ userDisconnect' = FALSE
  BY <1>4 DEF ConnectSession, linkVars, peerVars
<1>7. OneSocket'
  <2>1. CASE ws # None /\ run' = [run EXCEPT ![s] = "rejected"] /\ UNCHANGED linkVars
    BY <1>6, <2>1 DEF SocketInv, OneSocket, linkVars
  <2>2. CASE /\ ws = None /\ run' = [run EXCEPT ![s] = "welcome"]
             /\ socket' = [socket EXCEPT ![s] = "opening"]
             /\ UNCHANGED <<ws, offered>>
    <3>1. \A k \in Sessions : socket[k] = "none"
      BY <1>3, <2>2, SessionsAssumption DEF SessionsAssumption, None, SocketInv, OneSocket, Calm
    <3>2. \A k \in Sessions : run'[k] # "rejected"
      BY <1>3, <2>2 DEF Calm, Settled
    <3>3. \A k \in Sessions : socket'[k] = IF k = s THEN "opening" ELSE "none"
      BY <1>3, <2>2, <3>1
    <3>4. QED
      BY <1>6, <2>2, <3>2, <3>3 DEF OneSocket
  <2>3. QED
    BY <1>4, <2>1, <2>2
<1>8. NeedsSocket'
  BY <1>5, <1>6 DEF SocketInv, NeedsSocket, NoneBehind, BehindWelcome
<1>9. WaiterWaits'
  BY <1>2, <1>3, <1>4, <1>6 DEF SocketInv, WaiterWaits
<1>10. PeerConnects'
  <2>1. ~remote
    BY DEF SocketInv, PeerConnects, Calm, Settled
  <2>2. QED
    BY <1>6, <2>1 DEF PeerConnects
<1>11. QED
  BY <1>7, <1>8, <1>9, <1>10 DEF SocketInv

\* A session that fails, or whose failure has been dealt with.
Fails(r) ==
  /\ r \in [Sessions -> Awaits]
  /\ \A k \in Sessions : r[k] = run[k] \/ (run[k] \in {"welcome", "rejected"} /\ r[k] \in {"none", "rejected"})

LEMMA BeginReconnectKeepsPeer ==
  ASSUME Inv, SocketInv, NEW r, Fails(r), BeginReconnect(r)
  PROVE  /\ WaiterWaits' /\ PeerConnects'
         /\ phase' \in {"reconnecting", "idle"} /\ userDisconnect' = userDisconnect
         /\ run' = r \/ run' = Released(r)
<1>1. CASE Reconnects
  BY <1>1 DEF BeginReconnect, ClosePeer, WaiterWaits, PeerConnects
<1>2. CASE ~Reconnects
  <2>1. run' = r /\ phase' = "idle" /\ UNCHANGED <<pc, waiter, remote, wasConnected, userDisconnect>>
    BY <1>2 DEF BeginReconnect, peerVars
  <2>2. WaiterWaits'
    BY <2>1 DEF Inv, AnswerInv, PeerTyped, SocketInv, WaiterWaits, Fails
  <2>3. PeerConnects'
    BY <1>2, <2>1 DEF SocketInv, PeerConnects, Fails, Reconnects
  <2>4. QED
    BY <2>1, <2>2, <2>3
<1>3. QED
  BY <1>1, <1>2

\* However the page comes to have no socket, nobody is left behind the welcome.
LEMMA NoneBehindWithout ==
  ASSUME Inv, SocketInv, LossStrandsNobody, NEW r, Fails(r), run' = r \/ run' = Released(r), ws' = None
  PROVE  NoneBehind'
<1>1. CASE ws # None
  BY <1>1 DEF LossStrandsNobody
<1>2. CASE ws = None
  <2>1. \A k \in Sessions : run[k] \notin BehindWelcome /\ r[k] \notin BehindWelcome
    BY <1>2 DEF SocketInv, NeedsSocket, NoneBehind, Fails, BehindWelcome
  <2>2. r \in [Sessions -> Awaits]
    BY DEF Fails
  <2>3. \A k \in Sessions : Released(r)[k] \in BehindWelcome =>
                              r[k] \in BehindWelcome \/ run[k] \in BehindWelcome
    BY <2>2, ReleasedStaysBehind DEF SocketInv
  <2>4. QED
    BY <2>1, <2>3 DEF NoneBehind
<1>3. QED
  BY <1>1, <1>2

\* disconnect leaves no socket open.
LEMMA DisconnectSilences ==
  ASSUME Inv, SocketInv, Disconnect, \A k \in Sessions : socket[k] # "opening"
  PROVE  /\ ws' = None /\ OneSocket'
         /\ \A k \in Sessions : socket'[k] \in {"none", "erred"}
<1>1. socket \in [Sessions -> {"none", "opening", "open", "erred"}] /\ ws \in Sessions \cup {None}
  BY DEF Inv, LinksTyped
<1>2. \A k \in Sessions : socket[k] = "open" => ws = k
  BY DEF SocketInv, OneSocket
<1>3. None \notin Sessions
  BY SessionsAssumption DEF SessionsAssumption, None
<1>4. ws' = None /\ \A k \in Sessions : socket'[k] \in {"none", socket[k]} /\ (k = ws => socket'[k] = "none")
  BY <1>1, <1>3 DEF Disconnect, linkVars
<1>5. \A k \in Sessions : socket'[k] \in {"none", "erred"}
  BY <1>1, <1>2, <1>4
<1>6. OneSocket'
  <2>1. \A s, u \in Sessions : socket[s] # "none" /\ socket[u] # "none" => s = u
    BY DEF SocketInv, OneSocket
  <2>2. \A s, u \in Sessions : socket'[s] # "none" /\ socket'[u] # "none" => s = u
    BY <1>4, <2>1
  <2>3. QED
    BY <1>5, <2>2 DEF OneSocket
<1>7. QED
  BY <1>4, <1>5, <1>6

\* What the user and the timer do keeps it.
LEMMA CommandKeepsSocket ==
  ASSUME Inv, SocketInv, LossStrandsNobody, Connect \/ RetryNow \/ ReconnectTimerFires \/ UserDisconnects
  PROVE  SocketInv'
<1>1. CASE Connect \/ RetryNow
  BY <1>1, ConnectKeepsSocket DEF Connect, RetryNow
<1>2. CASE ReconnectTimerFires
  <2>1. CASE phase \in {"connecting", "connected"}
    BY <1>2, <2>1 DEF ReconnectTimerFires, linkVars, peerVars, SocketInv, OneSocket, NeedsSocket,
         NoneBehind, WaiterWaits, PeerConnects
  <2>2. CASE phase \notin {"connecting", "connected"}
    BY <1>2, <2>2, ConnectKeepsSocket DEF ReconnectTimerFires
  <2>3. QED
    BY <2>1, <2>2
<1>3. CASE UserDisconnects
  <2>1. /\ Disconnect /\ phase' = "idle" /\ run' = Released(run) /\ waiter' = None /\ remote' = FALSE
        /\ phase # "connecting"
    BY <1>3 DEF UserDisconnects, ClosePeer
  <2>2. ws' = None /\ OneSocket'
    BY <2>1, DisconnectSilences DEF SocketInv, OneSocket
  <2>3. NoneBehind'
    <3>1. Fails(run)
      BY DEF Inv, AnswerInv, PeerTyped, Fails
    <3>2. QED
      BY <2>1, <2>2, <3>1, NoneBehindWithout
  <2>4. QED
    BY <2>1, <2>2, <2>3 DEF SocketInv, NeedsSocket, WaiterWaits, PeerConnects
<1>4. QED
  BY <1>1, <1>2, <1>3

\* So does what a settled promise continues.
LEMMA SettledKeepsSocket ==
  ASSUME Inv, SocketInv, LossStrandsNobody, NEW s \in Sessions, Finish(s) \/ Catch(s)
  PROVE  SocketInv'
<1>1. CASE Finish(s)
  <2>1. ws # None
    BY <1>1 DEF Finish, SocketInv, NeedsSocket, NoneBehind, BehindWelcome
  <2>2. /\ run' = [run EXCEPT ![s] = "none"] /\ wasConnected' = TRUE /\ phase' = "connected"
        /\ ws' = ws /\ socket' = socket /\ waiter' = waiter /\ remote' = remote
        /\ userDisconnect' = userDisconnect /\ run[s] = "finish"
    BY <1>1 DEF Finish, linkVars, peerVars
  <2>3. \A k \in Sessions : socket[k] # "opening"
    BY <2>1 DEF SocketInv, OneSocket
  <2>4. OneSocket'
    BY <2>2, <2>3 DEF SocketInv, OneSocket
  <2>5. NeedsSocket'
    BY <2>1, <2>2 DEF SocketInv, NeedsSocket
  <2>6. WaiterWaits'
    BY <2>2 DEF Inv, AnswerInv, PeerTyped, SocketInv, WaiterWaits
  <2>7. PeerConnects'
    BY <2>1, <2>2 DEF SocketInv, NeedsSocket, PeerConnects
  <2>8. QED
    BY <2>4, <2>5, <2>6, <2>7 DEF SocketInv
<1>2. CASE Catch(s)
  <2> DEFINE r == [run EXCEPT ![s] = "none"]
  <2>1. Fails(r)
    BY <1>2 DEF Catch, Inv, AnswerInv, PeerTyped, Fails, Awaits
  <2>2. BeginReconnect(r) /\ run[s] = "rejected"
    BY <1>2 DEF Catch
  <2> HIDE DEF r
  <2>3. /\ WaiterWaits' /\ PeerConnects'
        /\ phase' \in {"reconnecting", "idle"} /\ userDisconnect' = userDisconnect
        /\ run' = r \/ run' = Released(r)
    BY <2>1, <2>2, BeginReconnectKeepsPeer
  <2>4. \A k \in Sessions : socket[k] # "opening"
    BY <2>2 DEF SocketInv, OneSocket
  <2>5. CASE Reconnects
    <3>1. Disconnect
      BY <1>2, <2>5 DEF Catch
    <3>2. ws' = None /\ OneSocket'
      BY <2>4, <3>1, DisconnectSilences
    <3>3. NoneBehind'
      BY <2>1, <2>3, <3>2, NoneBehindWithout
    <3>4. QED
      BY <2>3, <3>2, <3>3 DEF SocketInv, NeedsSocket
  <2>6. CASE ~Reconnects
    <3>1. ws' = ws /\ socket' = socket
      BY <1>2, <2>6 DEF Catch, linkVars
    <3>2. OneSocket'
      BY <2>4, <3>1 DEF SocketInv, OneSocket
    <3>3. ws' = None => NoneBehind'
      BY <2>1, <2>3, NoneBehindWithout
    <3>4. NeedsSocket'
      BY <2>3, <3>1, <3>3 DEF SocketInv, NeedsSocket
    <3>5. QED
      BY <2>3, <3>2, <3>4 DEF SocketInv
  <2>7. QED
    BY <2>5, <2>6
<1>3. QED
  BY <1>1, <1>2

\* So does the start of a peer connection, on the page's socket.
LEMMA StartPeerKeepsSocket ==
  ASSUME Inv, SocketInv, NEW s \in Sessions, StartPeer(s), ws # None, Settled,
         UNCHANGED <<phase, userDisconnect, wasConnected, linkVars>>
  PROVE  SocketInv'
<1>1. run' = [Released(run) EXCEPT ![s] = "offer"] /\ waiter' = None /\ remote' = FALSE
      /\ phase' = phase /\ userDisconnect' = userDisconnect /\ ws' = ws /\ socket' = socket
  BY DEF StartPeer, linkVars
<1>2. OneSocket'
  BY <1>1 DEF SocketInv, OneSocket
<1>3. NeedsSocket'
  BY <1>1 DEF SocketInv, NeedsSocket
<1>4. QED
  BY <1>1, <1>2, <1>3 DEF SocketInv, WaiterWaits, PeerConnects

\* So does what happens to a session's socket.
LEMMA SocketStepsKeepSocket ==
  ASSUME Inv, SocketInv, LossStrandsNobody, NEW s \in Sessions,
         \/ SocketOpens(s) \/ Welcome(s) \/ SocketErrs(s)
         \/ \E wasClean \in BOOLEAN : SocketCloses(s, wasClean)
  PROVE  SocketInv'
<1>0. run \in [Sessions -> Awaits] /\ socket \in [Sessions -> {"none", "opening", "open", "erred"}]
      /\ s # None
  BY SessionsAssumption DEF SessionsAssumption, None, Inv, AnswerInv, PeerTyped, LinksTyped
<1>1. CASE SocketOpens(s)
  <2>1. /\ socket[s] = "opening" /\ socket' = [socket EXCEPT ![s] = "open"] /\ ws' = s
        /\ UNCHANGED <<phase, userDisconnect, wasConnected, run, waiter, remote>>
    BY <1>1 DEF SocketOpens, storeVars, peerVars
  <2>2. \A k \in Sessions : k # s => socket'[k] = "none"
    BY <1>0, <2>1 DEF SocketInv, OneSocket
  <2>3. OneSocket'
    BY <1>0, <2>1, <2>2 DEF OneSocket
  <2>5. ~userDisconnect
    BY <2>1 DEF SocketInv, OneSocket
  <2>6. QED
    BY <1>0, <2>1, <2>3, <2>5 DEF SocketInv, NeedsSocket, WaiterWaits, PeerConnects
<1>2. CASE Welcome(s)
  <2>1. ws # None /\ Settled
    BY <1>0, <1>2 DEF Welcome, Calm, SocketInv, OneSocket
  <2>2. CASE localStream
    BY <1>2, <2>1, <2>2, StartPeerKeepsSocket DEF Welcome, storeVars
  <2>3. CASE ~localStream
    <3>1. run' = [run EXCEPT ![s] = "stream"] /\ run[s] = "welcome"
          /\ UNCHANGED <<phase, userDisconnect, wasConnected, ws, socket, waiter, remote>>
      BY <1>2, <2>3 DEF Welcome, storeVars, linkVars, peerVars
    <3>2. OneSocket' /\ NeedsSocket'
      BY <1>0, <2>1, <3>1 DEF SocketInv, OneSocket, NeedsSocket
    <3>3. WaiterWaits' /\ PeerConnects'
      BY <1>0, <2>1, <3>1 DEF SocketInv, WaiterWaits, PeerConnects, Settled, Inv, AnswerInv, PeerTyped
    <3>4. QED
      BY <3>1, <3>2, <3>3 DEF SocketInv
  <2>4. QED
    BY <2>2, <2>3
<1>3. Fails(Rejected(s))
  BY <1>0 DEF Rejected, Fails, Awaits
<1>4. CASE SocketErrs(s)
  <2>1. /\ socket[s] \in {"opening", "open"} /\ socket' = [socket EXCEPT ![s] = "erred"] /\ run' = Rejected(s)
        /\ UNCHANGED <<phase, userDisconnect, wasConnected, ws, waiter, remote>> /\ Settled
    BY <1>4 DEF SocketErrs, storeVars, peerVars, Calm
  <2>2. \A k \in Sessions : k # s => socket'[k] = "none"
    BY <1>0, <2>1 DEF SocketInv, OneSocket
  <2>3. OneSocket'
    BY <1>0, <2>1, <2>2 DEF OneSocket
  <2>4. ws' = None => NoneBehind'
    BY <1>3, <2>1, NoneBehindWithout
  <2>5. NeedsSocket'
    BY <2>1, <2>4 DEF SocketInv, NeedsSocket
  <2>6. WaiterWaits' /\ PeerConnects'
    BY <1>3, <2>1 DEF SocketInv, WaiterWaits, PeerConnects, Settled, Fails, Inv, AnswerInv, PeerTyped
  <2>7. QED
    BY <2>3, <2>5, <2>6 DEF SocketInv
<1>5. ASSUME NEW wasClean \in BOOLEAN, SocketCloses(s, wasClean)
      PROVE  SocketInv'
  <2>1. Settled /\ socket[s] # "none" /\ socket' = [socket EXCEPT ![s] = "none"] /\ ws' = None
    BY <1>5 DEF SocketCloses
  <2>2. OneSocket'
    <3>1. \A k \in Sessions : socket'[k] = "none"
      BY <1>0, <2>1 DEF SocketInv, OneSocket
    <3>2. QED
      BY <3>1 DEF OneSocket
  <2>3. /\ WaiterWaits' /\ PeerConnects'
        /\ phase' # "connected"
        /\ run' = Rejected(s) \/ run' = Released(Rejected(s))
    <3>1. CASE BeginReconnect(Rejected(s))
      BY <1>3, <3>1, BeginReconnectKeepsPeer
    <3>2. CASE /\ run' = Rejected(s) /\ UNCHANGED <<storeVars, peerVars, answerTimers>>
               /\ phase # "connected"
      BY <1>3, <2>1, <3>2 DEF storeVars, peerVars, SocketInv, WaiterWaits, PeerConnects, Settled, Fails,
           Inv, AnswerInv, PeerTyped
    <3>3. QED
      BY <1>5, <3>1, <3>2 DEF SocketCloses
  <2>4. NoneBehind'
    BY <1>3, <2>1, <2>3, NoneBehindWithout
  <2>5. NeedsSocket'
    BY <2>1, <2>3, <2>4 DEF NeedsSocket
  <2>6. QED
    BY <2>2, <2>3, <2>5 DEF SocketInv
<1>6. QED
  BY <1>1, <1>2, <1>4, <1>5

\* So does what happens to its media and its peer connection.
LEMMA MediaKeepsSocket ==
  ASSUME Inv, SocketInv, NEW s \in Sessions,
         \/ StreamGranted(s) \/ MediaFails(s) \/ OfferMade(s) \/ RemoteDescription(s)
         \/ Answer(s) \/ AnswerTimeout(s)
  PROVE  SocketInv'
<1>0. run \in [Sessions -> Awaits] /\ waiter \in Sessions \cup {None} /\ s # None /\ None \notin Sessions
  BY SessionsAssumption DEF SessionsAssumption, None, Inv, AnswerInv, PeerTyped
<1>1. Calm /\ Settled
  BY DEF StreamGranted, MediaFails, OfferMade, RemoteDescription, Answer, AnswerTimeout, Calm
<1>2. \A k \in Sessions : run[k] \in BehindWelcome => ws # None
  BY DEF SocketInv, NeedsSocket, NoneBehind
<1>3. waiter # None => ws # None
  BY <1>0, <1>2 DEF SocketInv, WaiterWaits, BehindWelcome
<1>4. ws # None => \A k \in Sessions : socket[k] # "opening"
  BY DEF SocketInv, OneSocket
<1>5. CASE StreamGranted(s)
  <2>1. ws # None
    BY <1>2, <1>5 DEF StreamGranted, BehindWelcome
  <2>2. QED
    BY <1>1, <1>5, <2>1, StartPeerKeepsSocket DEF StreamGranted
<1>6. ASSUME ws' = ws, socket' = socket, phase' = phase, userDisconnect' = userDisconnect, ws # None
      PROVE  OneSocket' /\ NeedsSocket'
  BY <1>4, <1>6 DEF SocketInv, OneSocket, NeedsSocket
<1>7. CASE MediaFails(s)
  <2>1. run[s] \in {"stream", "offer"} /\ run' = [run EXCEPT ![s] = "rejected"]
        /\ UNCHANGED <<phase, userDisconnect, wasConnected, ws, socket, waiter, remote>>
    BY <1>7 DEF MediaFails, storeVars, linkVars, peerVars
  <2>2. OneSocket' /\ NeedsSocket'
    BY <1>2, <1>6, <2>1 DEF BehindWelcome
  <2>3. WaiterWaits' /\ PeerConnects'
    BY <1>0, <1>1, <2>1 DEF SocketInv, WaiterWaits, PeerConnects, Settled
  <2>4. QED
    BY <2>2, <2>3 DEF SocketInv
<1>8. CASE OfferMade(s)
  <2>1. run[s] = "offer" /\ run' = [run EXCEPT ![s] = "answer"] /\ waiter' = s
        /\ UNCHANGED <<phase, userDisconnect, wasConnected, ws, socket, remote>>
    BY <1>8 DEF OfferMade, storeVars
  <2>2. OneSocket' /\ NeedsSocket'
    BY <1>2, <1>6, <2>1 DEF BehindWelcome
  <2>3. WaiterWaits' /\ PeerConnects'
    BY <1>0, <1>1, <2>1 DEF SocketInv, WaiterWaits, PeerConnects, Settled
  <2>4. QED
    BY <2>2, <2>3 DEF SocketInv
<1>9. CASE RemoteDescription(s)
  <2>1. run[s] = "remote" /\ run' = [run EXCEPT ![s] = "finish"]
        /\ UNCHANGED <<phase, userDisconnect, wasConnected, ws, socket, waiter>>
    BY <1>9 DEF RemoteDescription, storeVars, linkVars
  <2>2. OneSocket' /\ NeedsSocket'
    BY <1>2, <1>6, <2>1 DEF BehindWelcome
  <2>3. WaiterWaits' /\ PeerConnects'
    BY <1>0, <2>1 DEF SocketInv, WaiterWaits, PeerConnects
  <2>4. QED
    BY <2>2, <2>3 DEF SocketInv
<1>10. CASE Answer(s) \/ AnswerTimeout(s)
  <2>1. /\ waiter' = None /\ UNCHANGED <<phase, userDisconnect, wasConnected, ws, socket, remote>>
        /\ \/ waiter = None /\ run' = run
           \/ waiter # None /\ run' = [run EXCEPT ![waiter] = "remote"]
           \/ waiter # None /\ run' = [run EXCEPT ![waiter] = "finish"]
    BY <1>10 DEF Answer, AnswerTimeout, storeVars, linkVars
  <2>2. OneSocket' /\ NeedsSocket'
    <3>1. CASE waiter = None
      BY <2>1, <3>1 DEF SocketInv, OneSocket, NeedsSocket, NoneBehind
    <3>2. CASE waiter # None
      BY <1>3, <1>6, <2>1, <3>2
    <3>3. QED
      BY <3>1, <3>2
  <2>3. WaiterWaits' /\ PeerConnects'
    BY <1>0, <1>1, <2>1 DEF SocketInv, WaiterWaits, PeerConnects, Settled
  <2>4. QED
    BY <2>2, <2>3 DEF SocketInv
<1>11. QED
  BY <1>5, <1>7, <1>8, <1>9, <1>10

\* So does the loss of the peer connection.
LEMMA PeerLostKeepsSocket ==
  ASSUME Inv, SocketInv, LossStrandsNobody, PeerLost
  PROVE  SocketInv'
<1>1. Settled /\ remote /\ Reconnects /\ BeginReconnect(run) /\ Disconnect
  BY DEF PeerLost, Calm
<1>2. phase = "connected"
  BY <1>1 DEF SocketInv, PeerConnects, Settled
<1>3. ws' = None /\ OneSocket'
  BY <1>1, <1>2, DisconnectSilences DEF SocketInv, OneSocket
<1>4. Fails(run)
  BY DEF Inv, AnswerInv, PeerTyped, Fails
<1>5. /\ WaiterWaits' /\ PeerConnects' /\ phase' \in {"reconnecting", "idle"}
      /\ run' = run \/ run' = Released(run)
  BY <1>1, <1>4, BeginReconnectKeepsPeer
<1>6. NoneBehind'
  BY <1>3, <1>4, <1>5, NoneBehindWithout
<1>7. QED
  BY <1>3, <1>5, <1>6 DEF SocketInv, NeedsSocket

\* The converse of the lost socket: as long as no step that costs the page its socket
\* leaves a session behind that is past its welcome, a page that shows it is connected
\* has a socket, also while its continuations run, however often it is lost and reconnects
\* (participant-store.ts:212-304; live-participant-signaling.ts:37-92).
THEOREM OnlyStrandedSessionsHideLoss ==
  Spec /\ [][LossStrandsNobody]_vars => []ConnectedHasSocket
<1>1. Init => SocketInv
  BY DEF Init, SocketInv, OneSocket, NeedsSocket, NoneBehind, BehindWelcome, WaiterWaits, PeerConnects
<1>2. Inv /\ SocketInv /\ [Next]_vars /\ [LossStrandsNobody]_vars => SocketInv'
  <2> SUFFICES ASSUME Inv, SocketInv, [Next]_vars, [LossStrandsNobody]_vars PROVE SocketInv'
    OBVIOUS
  <2>1. CASE UNCHANGED vars
    BY <2>1 DEF vars, storeVars, linkVars, peerVars, SocketInv, OneSocket, NeedsSocket, NoneBehind,
         WaiterWaits, PeerConnects
  <2>2. CASE Next /\ LossStrandsNobody
    <3>1. CASE Connect \/ RetryNow \/ ReconnectTimerFires \/ UserDisconnects
      BY <2>2, <3>1, CommandKeepsSocket
    <3>2. ASSUME NEW s \in Sessions,
                 \/ Progress(s)
                 \/ SocketErrs(s) \/ \E wasClean \in BOOLEAN : SocketCloses(s, wasClean)
                 \/ MediaFails(s) \/ Answer(s)
          PROVE  SocketInv'
      BY <2>2, <3>2, SettledKeepsSocket, SocketStepsKeepSocket, MediaKeepsSocket DEF Progress
    <3>3. CASE PeerLost
      BY <2>2, <3>3, PeerLostKeepsSocket
    <3>4. QED
      BY <2>2, <3>1, <3>2, <3>3 DEF Next
  <2>3. QED
    BY <2>1, <2>2
<1>3. SocketInv => ConnectedHasSocket
  BY DEF SocketInv, NeedsSocket, ConnectedHasSocket
<1>4. QED
  BY <1>1, <1>2, <1>3, SessionInvariance, PTL DEF Spec

-----------------------------------------------------------------------------
(* What ConnectingEnds rests on.                                            *)

\* Something is to come for a session: a continuation, an answer of the user or the
\* browser, a timeout, or what its socket does next.
Pending(s) ==
  \/ run[s] \in {"rejected", "stream", "offer", "remote", "finish"}
  \/ run[s] = "answer" /\ s \in answerTimers
  \/ run[s] = "welcome" /\ socket[s] \in {"opening", "open"}

ConnectingHasWork == phase = "connecting" => \E s \in Sessions : Pending(s)

\* connectSession starts a session that is pending (participant-store.ts:212-240).
LEMMA ConnectIsPending ==
  ASSUME Inv, ConnectSession
  PROVE  ConnectingHasWork'
<1>1. PICK s \in Sessions : s = CHOOSE k \in Sessions : Fresh(k)
  BY DEF ConnectSession
<1>2. \/ run' = [run EXCEPT ![s] = "rejected"]
      \/ run' = [run EXCEPT ![s] = "welcome"] /\ socket' = [socket EXCEPT ![s] = "opening"]
  BY <1>1 DEF ConnectSession
<1>3. Pending(s)'
  BY <1>2 DEF Pending, Inv, AnswerInv, PeerTyped, LinksTyped
<1>. QED BY <1>3 DEF ConnectingHasWork

\* What is shown after beginReconnect is not "connecting" (participant-store.ts:272-304).
LEMMA ReconnectIsNotConnecting ==
  ASSUME NEW r, BeginReconnect(r)
  PROVE  ConnectingHasWork'
  BY DEF BeginReconnect, ConnectingHasWork

\* The start of a peer connection has an offer to make (live-peer.ts:27-58).
LEMMA StartIsPending ==
  ASSUME Inv, NEW s \in Sessions, StartPeer(s)
  PROVE  ConnectingHasWork'
<1>1. Released(run) \in [Sessions -> Awaits]
  BY ReleasedEndsWaits DEF Inv, AnswerInv, PeerTyped, Quieter
<1>2. run'[s] = "offer"
  BY <1>1 DEF StartPeer
<1>. QED BY <1>2 DEF ConnectingHasWork, Pending

\* What the user and the timer do keeps something pending.
LEMMA CommandIsPending ==
  ASSUME Inv, ConnectingHasWork, Connect \/ RetryNow \/ ReconnectTimerFires \/ UserDisconnects
  PROVE  ConnectingHasWork'
<1>1. CASE ConnectSession
  BY <1>1, ConnectIsPending
<1>2. CASE UNCHANGED <<phase, run, socket, answerTimers>>
  BY <1>2 DEF ConnectingHasWork, Pending
<1>3. CASE phase' = "idle"
  BY <1>3 DEF ConnectingHasWork
<1>. QED
  BY <1>1, <1>2, <1>3 DEF Connect, RetryNow, ReconnectTimerFires, UserDisconnects, linkVars

\* So does what happens to a session's socket: a socket that is lost while the page
\* connects shows the banner or idle (participant-store.ts:306-319).
LEMMA SocketIsPending ==
  ASSUME Inv, ConnectingHasWork, NEW s \in Sessions,
         \/ SocketOpens(s) \/ Welcome(s) \/ SocketErrs(s)
         \/ \E wasClean \in BOOLEAN : SocketCloses(s, wasClean)
  PROVE  ConnectingHasWork'
<1>0. run \in [Sessions -> Awaits] /\ socket \in [Sessions -> {"none", "opening", "open", "erred"}]
  BY DEF Inv, AnswerInv, PeerTyped, LinksTyped
<1>1. CASE SocketOpens(s)
  <2>1. run' = run /\ socket' = [socket EXCEPT ![s] = "open"] /\ UNCHANGED <<phase, answerTimers>>
    BY <1>1 DEF SocketOpens, storeVars
  <2>2. socket[s] = "opening"
    BY <1>1 DEF SocketOpens
  <2>3. \A k \in Sessions : Pending(k) => Pending(k)'
    BY <1>0, <2>1, <2>2 DEF Pending
  <2>. QED BY <2>1, <2>3 DEF ConnectingHasWork
<1>2. CASE Welcome(s)
  <2>1. CASE StartPeer(s)
    BY <2>1, StartIsPending
  <2>2. CASE run' = [run EXCEPT ![s] = "stream"]
    BY <1>0, <2>2 DEF ConnectingHasWork, Pending
  <2>. QED BY <1>2, <2>1, <2>2 DEF Welcome
<1>3. CASE SocketErrs(s)
  <2>1. run' = Rejected(s) /\ socket' = [socket EXCEPT ![s] = "erred"] /\ UNCHANGED <<phase, answerTimers>>
    BY <1>3 DEF SocketErrs, storeVars
  <2>2. \A k \in Sessions : Pending(k) => Pending(k)'
    BY <1>0, <2>1 DEF Pending, Rejected
  <2>. QED BY <2>1, <2>2 DEF ConnectingHasWork
<1>4. ASSUME NEW wasClean \in BOOLEAN, SocketCloses(s, wasClean)
      PROVE  ConnectingHasWork'
  <2>1. CASE BeginReconnect(Rejected(s))
    BY <2>1, ReconnectIsNotConnecting
  <2>2. CASE phase # "connecting" /\ phase' = phase
    BY <2>2 DEF ConnectingHasWork
  <2>. QED BY <1>4, <2>1, <2>2 DEF SocketCloses, storeVars
<1>. QED BY <1>1, <1>2, <1>3, <1>4

\* So does what happens to its media and its peer connection: the session that waits
\* for an answer goes on, whoever's timeout ends its wait (live-peer.ts:115-143).
LEMMA MediaIsPending ==
  ASSUME Inv, ConnectingHasWork, NEW s \in Sessions,
         \/ StreamGranted(s) \/ MediaFails(s) \/ OfferMade(s) \/ RemoteDescription(s)
         \/ Answer(s) \/ AnswerTimeout(s)
  PROVE  ConnectingHasWork'
<1>0. /\ run \in [Sessions -> Awaits] /\ waiter \in Sessions \cup {None}
      /\ \A k \in Sessions : run[k] = "answer" => waiter = k
  BY DEF Inv, AnswerInv, PeerTyped, AnswerCanCome
<1>1. CASE StreamGranted(s)
  BY <1>1, StartIsPending DEF StreamGranted
<1>2. ASSUME NEW k \in Sessions, NEW a \in {"rejected", "remote", "finish"},
             run' = [run EXCEPT ![k] = a]
      PROVE  ConnectingHasWork'
  BY <1>0, <1>2 DEF ConnectingHasWork, Pending
<1>3. CASE MediaFails(s) \/ RemoteDescription(s)
  BY <1>2, <1>3 DEF MediaFails, RemoteDescription
<1>4. CASE OfferMade(s)
  <2>1. run'[s] = "answer" /\ s \in answerTimers'
    BY <1>0, <1>4 DEF OfferMade, AnswerTimersWith
  <2>. QED BY <2>1 DEF ConnectingHasWork, Pending
<1>5. CASE Answer(s) \/ AnswerTimeout(s)
  <2>1. CASE waiter # None
    BY <1>0, <1>2, <1>5, <2>1 DEF Answer, AnswerTimeout
  <2>2. CASE waiter = None
    <3>1. run' = run /\ socket' = socket /\ phase' = phase
      BY <1>5, <2>2 DEF Answer, AnswerTimeout, storeVars, linkVars
    <3>2. \A k \in Sessions : run[k] # "answer"
      BY <1>0, <2>2, SessionsAssumption DEF SessionsAssumption, None
    <3>3. \A k \in Sessions : Pending(k) => Pending(k)'
      BY <3>1, <3>2 DEF Pending
    <3>. QED BY <3>1, <3>3 DEF ConnectingHasWork
  <2>. QED BY <2>1, <2>2
<1>. QED BY <1>1, <1>3, <1>4, <1>5

\* While the page connects, and its Disconnect button is disabled, something is to come
\* that ends it: no order of lost sockets, late answers, timeouts and sessions that
\* linger leaves it with nothing to wait for (participant-store.ts:212-270;
\* live-peer.ts:115-143).
THEOREM ConnectingNeverIdles == Spec => []ConnectingHasWork
<1>1. Init => ConnectingHasWork
  BY DEF Init, ConnectingHasWork
<1>2. Inv /\ ConnectingHasWork /\ [Next]_vars => ConnectingHasWork'
  <2>. SUFFICES ASSUME Inv, ConnectingHasWork, [Next]_vars PROVE ConnectingHasWork'
    OBVIOUS
  <2>1. CASE UNCHANGED vars
    BY <2>1 DEF vars, storeVars, linkVars, ConnectingHasWork, Pending
  <2>2. CASE Connect \/ RetryNow \/ ReconnectTimerFires \/ UserDisconnects
    BY <2>2, CommandIsPending
  <2>3. ASSUME NEW s \in Sessions,
               \/ Progress(s)
               \/ SocketErrs(s) \/ \E wasClean \in BOOLEAN : SocketCloses(s, wasClean)
               \/ MediaFails(s) \/ Answer(s)
        PROVE  ConnectingHasWork'
    <3>1. CASE Finish(s)
      BY <3>1 DEF Finish, ConnectingHasWork
    <3>2. CASE Catch(s)
      BY <3>2, ReconnectIsNotConnecting DEF Catch
    <3>. QED BY <2>3, <3>1, <3>2, SocketIsPending, MediaIsPending DEF Progress
  <2>4. CASE PeerLost
    BY <2>4, ReconnectIsNotConnecting DEF PeerLost
  <2>. QED BY <2>1, <2>2, <2>3, <2>4 DEF Next
<1>. QED BY <1>1, <1>2, SessionInvariance, PTL DEF Spec
=============================================================================
