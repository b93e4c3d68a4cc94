----------------------------- MODULE MC_SpscRing -----------------------------
(* The instances of SpscRing that TLC checks.  MC_SpscRing: four slots, runs  *)
(* of up to four samples, positions that stay below their range, as in the    *)
(* first 2^32 samples.  MC_SpscRing_Wrap: three slots, and positions that     *)
(* wrap; as in the code, their range is no multiple of the capacity (8 = 2    *)
(* mod 3, 2^32 = 256 mod 3840).                                               *)
EXTENDS SpscRing
=============================================================================
