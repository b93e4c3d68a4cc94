-------------------------------- MODULE Fifo --------------------------------
(***************************************************************************)
(* What a queue of samples between two threads is for: the ring between    *)
(* the PipeWire thread and the audio goroutine, the queue between that     *)
(* goroutine and the PulseAudio client.  The producer appends a run of     *)
(* samples as far as there is room, the consumer takes a run from the      *)
(* front; neither waits, nothing is reordered, repeated or overwritten.    *)
(* The k-th sample is represented by the number k.                         *)
(***************************************************************************)
EXTENDS Naturals, Sequences

CONSTANT Capacity

VARIABLES
  queue,     \* the samples written and not read yet
  produced,  \* how many samples were written so far
  taken      \* the samples the last read returned

vars == <<queue, produced, taken>>

Init == queue = << >> /\ produced = 0 /\ taken = << >>

Enqueue(n) ==
  /\ queue' = queue \o [i \in 1 .. n |-> produced + i - 1]
  /\ produced' = produced + n
  /\ UNCHANGED taken

Dequeue(n) ==
  /\ taken' = SubSeq(queue, 1, n)
  /\ queue' = SubSeq(queue, n + 1, Len(queue))
  /\ UNCHANGED produced

Next ==
  \/ \E n \in 1 .. Capacity - Len(queue) : Enqueue(n)
  \/ \E n \in 1 .. Len(queue) : Dequeue(n)
Spec == Init /\ [][Next]_vars
=============================================================================
