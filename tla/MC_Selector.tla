---------------------------- MODULE MC_Selector -----------------------------
(* The instance of Selector that TLC checks: the host's stream (id 2, "host" *)
(* sorts after the participants' ids) and two participants.                  *)
EXTENDS Selector

MCStreams == 0 .. 2
MCHost == 2

\* 1 is below the threshold, 2 leads 1 and 3 leads 2 by the margin, 3 dominates 1.
MCScores == 1 .. 3
MCDelays == {1}
=============================================================================
