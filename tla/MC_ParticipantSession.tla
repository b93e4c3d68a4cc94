----------------------- MODULE MC_ParticipantSession ------------------------
(* The instance of ParticipantSession that TLC checks: the session that is   *)
(* shown, one that lingers behind it and the next one.                       *)
EXTENDS ParticipantSession

MCSessions == 1 .. 3
=============================================================================
