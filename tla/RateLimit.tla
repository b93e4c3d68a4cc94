------------------------------ MODULE RateLimit ------------------------------
(***************************************************************************)
(* What the throttle of the participant hub promises: something is sent at *)
(* most twice within Window ticks.  Two sends may follow each other at     *)
(* once, but then nothing more is sent until Window ticks after them.      *)
(***************************************************************************)
EXTENDS Naturals

CONSTANT Window

VARIABLES
  age,   \* ticks since the last send, at most Window
  short  \* the last send came less than Window ticks after the one before

vars == <<age, short>>

Init == age = Window /\ short = FALSE

Tick == /\ age < Window
        /\ age' = age + 1
        /\ UNCHANGED short

Send == /\ age = Window \/ ~short
        /\ age' = 0
        /\ short' = (age < Window)

Next == Tick \/ Send
Spec == Init /\ [][Next]_vars
=============================================================================
