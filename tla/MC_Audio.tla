------------------------------ MODULE MC_Audio ------------------------------
(***************************************************************************)
(* The instances that TLC checks of what the audio goroutine computes with *)
(* and of the ring it reads from.  The four models share no state and are  *)
(* checked side by side: `part' says which of them a behaviour is about,   *)
(* the others keep their initial state.                                    *)
(*                                                                         *)
(* Selector: as MC_Selector has it.                                        *)
(* SignalPath: levels around both pairs of thresholds, with a gain that    *)
(* reaches both its limits.                                                *)
(* DelayTracker: rings of two whole frames, samples that come more often   *)
(* than they are shown.                                                    *)
(* SpscRing: four slots, runs of up to four samples, positions that stay   *)
(* below their range, as in the first 2^32 samples.                        *)
(***************************************************************************)
EXTENDS MC_Selector, SignalPath, DelayTracker, SpscRing

VARIABLE part
Parts == {"selector", "signal", "delay", "ring"}

audioVars == <<vars, signalVars, delayVars, ringVars>>

AudioInit ==
  /\ part \in Parts
  /\ Init /\ SignalInit /\ DelayInit /\ RingInit

Only(p) ==
  /\ part = p
  /\ UNCHANGED part
  /\ p # "selector" => UNCHANGED vars
  /\ p # "signal" => UNCHANGED signalVars
  /\ p # "delay" => UNCHANGED delayVars
  /\ p # "ring" => UNCHANGED ringVars

AudioNext ==
  \/ Only("selector") /\ Next
  \/ Only("signal") /\ SignalNext
  \/ Only("delay") /\ DelayNext
  \/ Only("ring") /\ RingNext

\* The fairness of Selector's Spec, for the behaviours that are about it.
AudioSpec ==
  /\ AudioInit /\ [][AudioNext]_<<part, audioVars>>
  /\ WF_vars(part = "selector" /\ Next)

\* Every variable of the four models has its type: counters and ages stay below their
\* bounds, the gain between its limits, the rings and the samples in theirs
\* (selector.go; pipeline.go; processor.go; delay.go; sp_ring.c).
AudioTypeOK == TypeOK /\ SignalTypeOK /\ DelayTypeOK /\ RingTypeOK

MCLevels == {-6, -4, -1}
MCStartFloor == -6
MCTarget == -2
MCClampMin == -1
MCRefOn == -2
MCRefOff == -4
=============================================================================
