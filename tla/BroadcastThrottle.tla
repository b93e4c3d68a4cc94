------------------------- MODULE BroadcastThrottle --------------------------
(***************************************************************************)
(* The throttle of the participant hub (signaling/participant.go, lines    *)
(* 73-92 and 175-183).  ScheduleBroadcast pushes the room view to every    *)
(* participant at once if the last push is participantViewThrottle ago,    *)
(* and leaves it to a timer otherwise.  The callback of an expired timer   *)
(* waits for the hub's mutex like everybody else and does not look at the  *)
(* time again when it gets it.                                             *)
(*                                                                         *)
(* Time is counted in ticks, Window of which are participantViewThrottle.  *)
(* The mutex is held by a broadcast while it writes to the sockets (busy). *)
(***************************************************************************)
EXTENDS Integers

CONSTANT Window
ASSUME WindowAssumption == Window \in Nat \ {0}

NoTimer == -1

VARIABLES
  age,    \* ticks since lastBroadcast, at most Window
  timer,  \* ticks until pendingBroadcast fires, 0 once it did, or NoTimer
  busy,   \* a broadcast holds the mutex
  short   \* history: the last broadcast came less than Window after the one before

throttleVars == <<age, timer, busy, short>>

ThrottleInit ==
  /\ age = Window
  /\ timer = NoTimer
  /\ busy = FALSE
  /\ short = FALSE

Tick ==
  /\ age' = IF age < Window THEN age + 1 ELSE age
  /\ timer' = IF timer > 0 THEN timer - 1 ELSE timer
  /\ UNCHANGED <<busy, short>>

\* broadcastViewsLocked takes the time before it writes.
Broadcast ==
  /\ busy' = TRUE
  /\ age' = 0
  /\ short' = (age < Window)

ScheduleNow ==
  /\ ~busy /\ age = Window
  /\ Broadcast
  /\ UNCHANGED timer

Wait_Half == Window \div 2
Wait == Window - age

ScheduleLater ==
  /\ ~busy /\ age < Window
  /\ timer = NoTimer
  /\ timer' = Wait
  /\ UNCHANGED <<age, busy, short>>

\* The broadcast that is pending will show what there is to show.
ScheduleCoalesced ==
  /\ ~busy /\ age < Window
  /\ timer # NoTimer
  /\ UNCHANGED throttleVars

ScheduleBroadcast == ScheduleNow \/ ScheduleLater \/ ScheduleCoalesced

TimerFires_KeepsPending ==
  /\ ~busy /\ timer = 0
  /\ UNCHANGED timer
  /\ Broadcast
TimerFires ==
  /\ ~busy /\ timer = 0
  /\ timer' = NoTimer
  /\ Broadcast

BroadcastEnd ==
  /\ busy
  /\ busy' = FALSE
  /\ UNCHANGED <<age, timer, short>>

ThrottleNext == Tick \/ ScheduleBroadcast \/ TimerFires \/ BroadcastEnd
ThrottleSpec == ThrottleInit /\ [][ThrottleNext]_throttleVars

-----------------------------------------------------------------------------
(* Properties.                                                              *)

\* Every variable has its type; a timer is never set for longer than Window.
ThrottleTypeOK ==
  /\ age \in 0 .. Window
  /\ timer \in 0 .. Window \cup {NoTimer}
  /\ busy \in BOOLEAN
  /\ short \in BOOLEAN

\* After two broadcasts close to each other (a caller of ScheduleBroadcast got the
\* mutex before the callback of a timer that had expired) a timer that is running
\* was set later, and fires no earlier than Window after the second of them.
TimerAfterBurst == short => timer = NoTimer \/ timer + age >= Window

\* The hub pushes views no faster than RateLimit allows (participant.go:73-92): a
\* late callback makes two pushes follow each other, never three.
Limit == INSTANCE RateLimit
AtMostTwoPerWindow == Limit!Spec
=============================================================================
