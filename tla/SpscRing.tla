------------------------------ MODULE SpscRing ------------------------------
(***************************************************************************)
(* The ring between the PipeWire thread (push_stream_pcm, which calls      *)
(* sp_ring_write) and the audio goroutine (sp_capture_read_mic and         *)
(* _monitor, which call sp_ring_read): internal/capture/native/sp_ring.c.  *)
(* There is no lock.  Each side loads both positions, copies samples one   *)
(* by one and stores its own position; acquire and release make the        *)
(* copies of one side visible to the other before the position is.         *)
(*                                                                         *)
(* Positions count samples modulo PosMod (2^32: they are atomic_uint); the *)
(* slot of position p is p % Capacity (3840).                              *)
(***************************************************************************)
EXTENDS Integers, Sequences

CONSTANTS
  Capacity,   \* SP_RING_CAPACITY
  PosMod,     \* the range of the positions
  MaxBatch,   \* samples asked for in one call, at most
  MaxSamples  \* bound: samples written in a behaviour

ASSUME RingAssumption ==
  /\ Capacity \in Nat \ {0}
  /\ PosMod \in Nat /\ PosMod > Capacity
  /\ MaxBatch \in Nat \ {0}
  /\ MaxSamples \in Nat

Slots == 0 .. Capacity - 1
NoSample == -1
NoCall == [n |-> 0, done |-> 0]

VARIABLES
  buf,        \* sp_ring.buf
  write_pos, read_pos,
  writer,     \* the write that is running: n samples of which done are copied
  reader,     \* the read that is running, likewise
  dst,        \* what the running read has copied
  produced,   \* history: samples accepted so far; the k-th sample has value k
  taken       \* history: what the last read returned

ringVars == <<buf, write_pos, read_pos, writer, reader, dst, produced, taken>>

RingInit ==
  /\ buf = [s \in Slots |-> NoSample]
  /\ write_pos = 0 /\ read_pos = 0
  /\ writer = NoCall /\ reader = NoCall
  /\ dst = << >>
  /\ produced = 0
  /\ taken = << >>

Fewer(a, b) == IF a < b THEN a ELSE b

\* ring_avail_locked: the difference of the positions in unsigned arithmetic.
Avail == Fewer((write_pos - read_pos) % PosMod, Capacity)

FreeSpace_OneMore == Capacity - Avail + 1
FreeSpace == Capacity - Avail

\* A call copies from the slot of its position on and starts again at slot 0 at
\* the end of buf, whatever happens to the position.
Slot(pos, i) == ((pos % Capacity) + i) % Capacity

-----------------------------------------------------------------------------
(* sp_ring_write: samples that do not fit are dropped.                      *)

WriteBegin(samples) ==
  /\ writer = NoCall
  /\ produced + samples <= MaxSamples
  /\ FreeSpace > 0
  /\ writer' = [n |-> Fewer(samples, FreeSpace), done |-> 0]
  /\ UNCHANGED <<buf, write_pos, read_pos, reader, dst, produced, taken>>

WriteSample ==
  /\ writer.done < writer.n
  /\ buf' = [buf EXCEPT ![Slot(write_pos, writer.done)] = produced + writer.done]
  /\ writer' = [writer EXCEPT !.done = @ + 1]
  /\ UNCHANGED <<write_pos, read_pos, reader, dst, produced, taken>>

\* The position is stored after the samples are copied.
WriteEnd_Early ==
  /\ writer.n > 0 /\ writer.done = writer.n - 1
  /\ write_pos' = (write_pos + writer.n) % PosMod
  /\ produced' = produced + writer.n
  /\ writer' = NoCall
  /\ UNCHANGED <<buf, read_pos, reader, dst, taken>>

WriteEnd ==
  /\ writer.n > 0 /\ writer.done = writer.n
  /\ write_pos' = (write_pos + writer.n) % PosMod
  /\ produced' = produced + writer.n
  /\ writer' = NoCall
  /\ UNCHANGED <<buf, read_pos, reader, dst, taken>>

-----------------------------------------------------------------------------
(* sp_ring_read.                                                            *)

ReadBegin(samples) ==
  /\ reader = NoCall
  /\ Avail > 0
  /\ reader' = [n |-> Fewer(samples, Avail), done |-> 0]
  /\ UNCHANGED <<buf, write_pos, read_pos, writer, dst, produced, taken>>

ReadSample ==
  /\ reader.done < reader.n
  /\ dst' = dst \o <<buf[Slot(read_pos, reader.done)]>>
  /\ reader' = [reader EXCEPT !.done = @ + 1]
  /\ UNCHANGED <<buf, write_pos, read_pos, writer, produced, taken>>

\* The position is stored after the samples are copied.
ReadEnd_KeepsDst ==
  /\ reader.n > 0 /\ reader.done = reader.n
  /\ read_pos' = (read_pos + reader.n) % PosMod
  /\ taken' = dst
  /\ reader' = NoCall
  /\ UNCHANGED <<buf, write_pos, writer, dst, produced>>

ReadEnd ==
  /\ reader.n > 0 /\ reader.done = reader.n
  /\ read_pos' = (read_pos + reader.n) % PosMod
  /\ taken' = dst
  /\ dst' = << >>
  /\ reader' = NoCall
  /\ UNCHANGED <<buf, write_pos, writer, produced>>

RingNext ==
  \/ \E n \in 1 .. MaxBatch : WriteBegin(n) \/ ReadBegin(n)
  \/ WriteSample \/ WriteEnd
  \/ ReadSample \/ ReadEnd

RingSpec == RingInit /\ [][RingNext]_ringVars

-----------------------------------------------------------------------------
(* Properties.                                                              *)

Calls == [n : 0 .. MaxBatch, done : 0 .. MaxBatch]

\* Every variable has its type.
RingTypeOK ==
  /\ buf \in [Slots -> -1 .. MaxSamples - 1]
  /\ write_pos \in 0 .. PosMod - 1 /\ read_pos \in 0 .. PosMod - 1
  /\ writer \in Calls /\ writer.done <= writer.n
  /\ reader \in Calls /\ reader.done <= reader.n
  /\ Len(dst) = reader.done
  /\ produced \in 0 .. MaxSamples

\* The slots the writer is filling and the slots the reader may still read are
\* disjoint: the two threads never touch the same sample (sp_ring.c:25-75).
Filling == { Slot(write_pos, i) : i \in 0 .. writer.n - 1 }
Reading == { Slot(read_pos, i) : i \in 0 .. reader.n - 1 }
NoSharedSlot == Filling \cap Reading = {}

\* Seen through the stores of the positions, the ring is the queue of module Fifo:
\* what the producer writes the consumer gets, in order, once, uncorrupted, however
\* the two threads interleave (sp_ring.c; docs/DECISIONS.md:31 relies on SPSC rings).
queued == [i \in 1 .. Avail |-> buf[Slot(read_pos, i - 1)]]
Queue == INSTANCE Fifo WITH queue <- queued
IsFifo == Queue!Spec

\* What a read returns is the next run of samples, also after the positions wrapped
\* around: the consumer of an SPSC ring gets the stream (docs/DECISIONS.md:31).
StreamIsContiguous ==
  \A i \in 1 .. Len(taken) - 1 : taken[i + 1] = taken[i] + 1
=============================================================================
