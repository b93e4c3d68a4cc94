----------------------------- MODULE MC_HostHub -----------------------------
(***************************************************************************)
(* The instance of HostHub that TLC checks: a page of the host, a REST     *)
(* caller and a participant, two patches of which one is refused.          *)
(***************************************************************************)
EXTENDS HostHub

MCRequestFlags == { NoFlags, [aec |-> TRUE, denoise |-> FALSE] }
MCPatches == { [crossfadeMs |-> 250], [crossfadeMs |-> 6000, audioHoldMs |-> 1] }
MCHolds == {30}
=============================================================================
