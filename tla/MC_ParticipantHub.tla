-------------------------- MODULE MC_ParticipantHub --------------------------
(* The instances of ParticipantHub that TLC checks: two connections, and a   *)
(* throttle of one tick (two for the ghost), so that a broadcast may come    *)
(* before, at and after the end of the window.                               *)
EXTENDS ParticipantHub

MCClients == {"p1", "p2"}
=============================================================================
