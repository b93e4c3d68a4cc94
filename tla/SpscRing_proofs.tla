--------------------------- MODULE SpscRing_proofs ---------------------------
(***************************************************************************)
(* The ring between the PipeWire thread and the audio goroutine, for every *)
(* capacity, every length of the calls and every interleaving of their     *)
(* copies: the threads never touch the same slot, and seen through the     *)
(* stores of the positions the ring is a first-in first-out queue.         *)
(*                                                                         *)
(* Both need that the slots of successive positions follow each other.     *)
(* They do until the positions wrap for the first time, and for ever if    *)
(* the capacity divides their range; for 3840 and 2^32 it does not (run    *)
(* ring_wrap), for a capacity that is a power of two it would.             *)
(*                                                                         *)
(* The invariant counts samples from the start of the stream, `consumed'   *)
(* of them read and `produced' written: the positions are these counts     *)
(* modulo their range, and the k-th sample, while it is queued, is in slot *)
(* k % Capacity.                                                           *)
(***************************************************************************)
EXTENDS SpscRing, TLAPS

SlotsFollow == MaxSamples < PosMod \/ PosMod % Capacity = 0

-----------------------------------------------------------------------------
(* Arithmetic of remainders.                                                *)

\* What the remainder of a division is.
LEMMA Remainder ==
  ASSUME NEW d \in Nat \ {0}, NEW a \in Int
  PROVE  a % d \in 0 .. d - 1 /\ \E q \in Int : a = q * d + (a % d)
<1>1. a % d \in 0 .. d - 1 /\ a = (a \div d) * d + (a % d) /\ a \div d \in Int
  BY Z3
<1>2. QED
  BY <1>1

\* There is only one way to divide with a remainder below the divisor.
LEMMA RemainderUnique ==
  ASSUME NEW d \in Nat \ {0}, NEW q \in Int, NEW r \in 0 .. d - 1
  PROVE  (q * d + r) % d = r
BY Z3

\* A remainder may be taken before adding.
LEMMA RemainderOfSum ==
  ASSUME NEW d \in Nat \ {0}, NEW a \in Int, NEW b \in Int
  PROVE  ((a % d) + b) % d = (a + b) % d
<1>1. PICK q \in Int : a = q * d + (a % d)
  BY Remainder
<1> DEFINE m == a % d
<1>2. m \in Int /\ m + b \in Int
  BY Remainder
<1>3. PICK k \in Int : m + b = k * d + ((m + b) % d)
  BY <1>2, Remainder
<1> DEFINE r == (m + b) % d
<1>4. r \in 0 .. d - 1
  BY <1>2, Remainder
<1>5. a = q * d + m /\ m + b = k * d + r
  BY <1>1, <1>3
<1> HIDE DEF m, r
<1>6. a + b = (q + k) * d + r /\ q + k \in Int
  BY <1>2, <1>4, <1>5
<1>7. (a + b) % d = r
  BY <1>4, <1>6, RemainderUnique
<1>8. QED
  BY <1>7 DEF m, r

\* The remainder by a multiple of d keeps the remainder by d.
LEMMA RemainderOfMultiple ==
  ASSUME NEW d \in Nat \ {0}, NEW p \in Nat \ {0}, p % d = 0, NEW a \in Int
  PROVE  (a % p) % d = a % d
<1> DEFINE m == a % p
           r == m % d
<1>1. PICK q \in Int : a = q * p + m
  BY Remainder
<1>2. PICK k \in Int : p = k * d + 0
  <2>1. p \in Int
    OBVIOUS
  <2>2. \E k \in Int : p = k * d + (p % d)
    BY <2>1, Remainder, Zenon
  <2>3. QED
    BY <2>2
<1>3. m \in Int
  BY Remainder
<1>4. PICK j \in Int : m = j * d + r
  BY <1>3, Remainder
<1>5. r \in 0 .. d - 1
  BY <1>3, Remainder
<1> HIDE DEF m, r
<1>6. p = k * d
  BY <1>2
<1>7. q * p = (q * k) * d
  <2>1. q * (k * d) = (q * k) * d
    OBVIOUS
  <2>2. QED
    BY <1>6, <2>1
<1>8. a = (q * k + j) * d + r /\ q * k + j \in Int
  BY <1>1, <1>3, <1>4, <1>5, <1>7
<1>9. a % d = r
  BY <1>5, <1>8, RemainderUnique
<1>10. QED
  BY <1>9 DEF m, r

\* Numbers less than d apart have different remainders.
LEMMA NearbyDiffer ==
  ASSUME NEW d \in Nat \ {0}, NEW a \in Int, NEW b \in Int, a < b, b < a + d
  PROVE  a % d # b % d
<1> SUFFICES ASSUME a % d = b % d PROVE FALSE
  OBVIOUS
<1>1. PICK q \in Int : a = q * d + (a % d)
  BY Remainder
<1>2. PICK k \in Int : b = k * d + (b % d)
  BY Remainder
<1>3. (k - q) * d = b - a
  BY <1>1, <1>2, Remainder
<1>4. k - q >= 1 \/ k - q <= 0
  OBVIOUS
<1>5. ASSUME k - q >= 1 PROVE (k - q) * d >= d
  BY <1>5
<1>6. ASSUME k - q <= 0 PROVE (k - q) * d <= 0
  BY <1>6
<1>7. QED
  BY <1>3, <1>4, <1>5, <1>6

-----------------------------------------------------------------------------
(* Types, whatever the positions do.                                        *)

RingTypes ==
  /\ RingTypeOK
  /\ dst \in Seq(-1 .. MaxSamples - 1)
  /\ produced + writer.n <= MaxSamples

\* The fill level of the ring is in its capacity.
LEMMA AvailRange ==
  ASSUME NEW w \in Int, NEW r \in Int
  PROVE  Fewer((w - r) % PosMod, Capacity) \in 0 .. Capacity
<1>1. w - r \in Int /\ PosMod \in Nat \ {0}
  BY RingAssumption DEF RingAssumption
<1>2. (w - r) % PosMod \in 0 .. PosMod - 1
  BY <1>1, Remainder
<1>3. QED
  BY <1>2, RingAssumption DEF RingAssumption, Fewer

\* A slot is one of the ring's.
LEMMA SlotInRing ==
  ASSUME NEW p \in Int, NEW i \in Int
  PROVE  Slot(p, i) \in Slots
<1>1. Capacity \in Nat \ {0}
  BY RingAssumption DEF RingAssumption
<1>2. p % Capacity \in Int
  BY <1>1, Remainder
<1>3. (p % Capacity) + i \in Int
  BY <1>2
<1>4. QED
  BY <1>1, <1>3, Remainder DEF Slot, Slots

\* A position is in its range again after it was moved.
LEMMA PositionInRange ==
  ASSUME NEW p \in Int
  PROVE  p % PosMod \in 0 .. PosMod - 1
<1>1. PosMod \in Nat \ {0}
  BY RingAssumption DEF RingAssumption
<1>2. QED
  BY <1>1, Remainder

\* A call that has copied one more sample is a call.
LEMMA OneMoreCopied ==
  ASSUME NEW call \in Calls, call.done < call.n, NEW next, next = [call EXCEPT !.done = @ + 1]
  PROVE  next \in Calls /\ next.n = call.n /\ next.done = call.done + 1
<1>1. call.n \in 0 .. MaxBatch /\ call.done + 1 \in 0 .. MaxBatch
  BY RingAssumption DEF RingAssumption, Calls
<1>2. next.n = call.n /\ next.done = call.done + 1
  BY DEF Calls
<1>3. next = [n |-> call.n, done |-> call.done + 1]
  BY DEF Calls
<1>4. QED
  BY <1>1, <1>2, <1>3 DEF Calls

\* The types hold of the empty ring.
LEMMA RingTypesInit == RingInit => RingTypes
<1> SUFFICES ASSUME RingInit PROVE RingTypes
  OBVIOUS
<1>1. buf \in [Slots -> -1 .. MaxSamples - 1]
  BY RingAssumption DEF RingAssumption, RingInit, NoSample
<1>2. writer \in Calls /\ reader \in Calls /\ writer.done <= writer.n /\ reader.done <= reader.n
  BY RingAssumption DEF RingAssumption, RingInit, NoCall, Calls
<1>3. dst \in Seq(-1 .. MaxSamples - 1) /\ Len(dst) = 0 /\ reader.done = 0
  BY DEF RingInit, NoCall
<1>4. write_pos \in 0 .. PosMod - 1 /\ read_pos \in 0 .. PosMod - 1 /\ produced \in 0 .. MaxSamples
  BY RingAssumption DEF RingAssumption, RingInit
<1>5. produced + writer.n <= MaxSamples
  BY RingAssumption DEF RingAssumption, RingInit, NoCall
<1>6. QED
  BY <1>1, <1>2, <1>3, <1>4, <1>5 DEF RingTypes, RingTypeOK

\* Every step of either thread keeps the types.
LEMMA RingTypesStep == RingTypes /\ [RingNext]_ringVars => RingTypes'
<1> SUFFICES ASSUME RingTypes, [RingNext]_ringVars PROVE RingTypes'
  OBVIOUS
<1>a. write_pos \in Int /\ read_pos \in Int /\ writer.done \in Int /\ reader.done \in Int
  BY DEF RingTypes, RingTypeOK, Calls
<1>b. Avail \in 0 .. Capacity
  BY <1>a, AvailRange, Zenon DEF Avail
<1>c. Slot(write_pos, writer.done) \in Slots /\ Slot(read_pos, reader.done) \in Slots
  BY <1>a, SlotInRing, Zenon
<1> USE RingAssumption DEF RingAssumption, RingTypes, RingTypeOK, Calls
<1>1. ASSUME NEW n \in 1 .. MaxBatch, WriteBegin(n) PROVE RingTypes'
  <2>1. FreeSpace \in 0 .. Capacity
    BY <1>b DEF FreeSpace
  <2>2. Fewer(n, FreeSpace) \in 1 .. n
    BY <1>1, <2>1 DEF WriteBegin, Fewer
  <2>3. writer' \in Calls /\ writer'.done <= writer'.n /\ produced + writer'.n <= MaxSamples
    BY <1>1, <2>2 DEF WriteBegin
  <2>4. QED
    BY <1>1, <2>3 DEF WriteBegin
<1>2. ASSUME NEW n \in 1 .. MaxBatch, ReadBegin(n) PROVE RingTypes'
  <2>2. Fewer(n, Avail) \in 1 .. n
    BY <1>2, <1>b DEF ReadBegin, Fewer
  <2>3. reader' \in Calls /\ reader'.done <= reader'.n /\ reader'.done = 0
    BY <1>2, <2>2 DEF ReadBegin
  <2>4. reader.done = 0
    BY <1>2 DEF ReadBegin, NoCall
  <2>5. QED
    BY <1>2, <2>3, <2>4 DEF ReadBegin
<1>3. CASE WriteSample
  <2>2. produced + writer.done \in -1 .. MaxSamples - 1
    BY <1>3 DEF WriteSample
  <2>3. buf' \in [Slots -> -1 .. MaxSamples - 1]
    BY <1>3, <2>2 DEF WriteSample
  <2>4. writer' \in Calls /\ writer'.done <= writer'.n /\ writer'.n = writer.n
    <3>1. /\ writer \in Calls /\ writer.done < writer.n
          /\ writer' = [writer EXCEPT !.done = @ + 1]
      BY <1>3 DEF WriteSample
    <3> HIDE DEF Calls, RingTypes, RingTypeOK
    <3>2. writer' \in Calls /\ writer'.n = writer.n /\ writer'.done = writer.done + 1
      BY <3>1, OneMoreCopied, Zenon
    <3>3. QED
      BY <3>1, <3>2 DEF Calls
  <2>5. QED
    BY <1>3, <2>3, <2>4 DEF WriteSample
<1>4. CASE WriteEnd
  <2>1. write_pos' \in 0 .. PosMod - 1
    <3>1. write_pos + writer.n \in Int /\ write_pos' = (write_pos + writer.n) % PosMod
      BY <1>4 DEF WriteEnd
    <3>2. QED
      BY <3>1, PositionInRange, Zenon
  <2>2. produced' \in 0 .. MaxSamples
    BY <1>4 DEF WriteEnd
  <2>3. writer' \in Calls /\ writer'.done <= writer'.n /\ writer'.n = 0
    BY <1>4 DEF WriteEnd, NoCall
  <2>4. QED
    BY <1>4, <2>1, <2>2, <2>3 DEF WriteEnd
<1>5. CASE ReadSample
  <2>2. buf[Slot(read_pos, reader.done)] \in -1 .. MaxSamples - 1
    BY <1>c
  <2>3. dst' \in Seq(-1 .. MaxSamples - 1) /\ Len(dst') = Len(dst) + 1
    BY <1>5, <2>2 DEF ReadSample
  <2>4. reader' \in Calls /\ reader'.done <= reader'.n /\ reader'.done = reader.done + 1
    <3>1. /\ reader \in Calls /\ reader.done < reader.n
          /\ reader' = [reader EXCEPT !.done = @ + 1]
      BY <1>5 DEF ReadSample
    <3> HIDE DEF Calls, RingTypes, RingTypeOK
    <3>2. reader' \in Calls /\ reader'.n = reader.n /\ reader'.done = reader.done + 1
      BY <3>1, OneMoreCopied, Zenon
    <3>3. QED
      BY <3>1, <3>2 DEF Calls
  <2>5. QED
    BY <1>5, <2>3, <2>4 DEF ReadSample
<1>6. CASE ReadEnd
  <2>1. read_pos' \in 0 .. PosMod - 1
    <3>1. read_pos + reader.n \in Int /\ read_pos' = (read_pos + reader.n) % PosMod
      BY <1>6 DEF ReadEnd
    <3>2. QED
      BY <3>1, PositionInRange, Zenon
  <2>2. reader' \in Calls /\ reader'.done <= reader'.n /\ reader'.done = 0
    BY <1>6 DEF ReadEnd, NoCall
  <2>3. dst' \in Seq(-1 .. MaxSamples - 1) /\ Len(dst') = 0
    BY <1>6 DEF ReadEnd
  <2>4. QED
    BY <1>6, <2>1, <2>2, <2>3 DEF ReadEnd
<1>7. CASE UNCHANGED ringVars
  BY <1>7 DEF ringVars
<1>8. QED
  BY <1>1, <1>2, <1>3, <1>4, <1>5, <1>6, <1>7 DEF RingNext

\* The ring's variables have their types, also after the positions wrapped
\* (sp_ring.c): the calls stay in the ring, what is copied are its samples.
THEOREM RingTypesHold == RingSpec => []RingTypes
<1>1. QED
  BY RingTypesInit, RingTypesStep, PTL DEF RingSpec

-----------------------------------------------------------------------------
(* Positions as counts.                                                     *)

\* The difference of two positions is the difference of the counts they stand for.
LEMMA AvailIsDifference ==
  ASSUME NEW w \in Int, NEW c \in Int, c <= w, w <= c + Capacity
  PROVE  Fewer(((w % PosMod) - (c % PosMod)) % PosMod, Capacity) = w - c
<1> USE RingAssumption DEF RingAssumption
<1>0. PosMod \in Nat \ {0}
  OBVIOUS
<1>1. PICK q \in Int : w = q * PosMod + (w % PosMod)
  BY <1>0, Remainder
<1>2. PICK k \in Int : c = k * PosMod + (c % PosMod)
  BY <1>0, Remainder
<1> DEFINE a == w % PosMod
           b == c % PosMod
<1>3. a \in Int /\ b \in Int
  BY <1>0, Remainder
<1>4. w = q * PosMod + a /\ c = k * PosMod + b
  BY <1>1, <1>2
<1> HIDE DEF a, b
<1>5. a - b = (k - q) * PosMod + (w - c) /\ k - q \in Int
  BY <1>3, <1>4
<1>6. w - c \in 0 .. PosMod - 1
  OBVIOUS
<1>7. (a - b) % PosMod = w - c
  BY <1>0, <1>5, <1>6, RemainderUnique
<1>8. QED
  BY <1>7 DEF a, b, Fewer

\* Where the slots follow each other, that of a position is that of its count.
LEMMA SlotOfCount ==
  ASSUME SlotsFollow, NEW a \in 0 .. MaxSamples, NEW i \in Int
  PROVE  Slot(a % PosMod, i) = (a + i) % Capacity
<1>1. Capacity \in Nat \ {0} /\ PosMod \in Nat \ {0} /\ a \in Int
  BY RingAssumption DEF RingAssumption
<1>2. (a % PosMod) % Capacity = a % Capacity
  <2>1. CASE MaxSamples < PosMod
    <3>1. a % PosMod = a
      BY <2>1, RingAssumption DEF RingAssumption
    <3>2. QED
      BY <3>1
  <2>2. CASE PosMod % Capacity = 0
    BY <1>1, <2>2, RemainderOfMultiple
  <2>3. QED
    BY <2>1, <2>2 DEF SlotsFollow
<1>3. QED
  BY <1>1, <1>2, RemainderOfSum DEF Slot

-----------------------------------------------------------------------------
(* The invariant.                                                           *)

\* The samples read so far.
consumed == produced - Avail

PositionsCount ==
  /\ consumed \in Nat
  /\ write_pos = produced % PosMod
  /\ read_pos = consumed % PosMod

CallsFit == writer.n <= FreeSpace /\ reader.n <= Avail

\* What is queued, and what a running write has copied, is in its slots.
SamplesInSlots ==
  \A k \in Nat : consumed <= k /\ k < produced + writer.done => buf[k % Capacity] = k

\* A read copies the oldest samples.
CopiesOldest == \A i \in 1 .. Len(dst) : dst[i] = consumed + i - 1

\* What the last read returned is a run of samples.
TakenIsRun == taken \in Seq(Int) /\ StreamIsContiguous

RingInv ==
  RingTypes /\ PositionsCount /\ CallsFit /\ SamplesInSlots /\ CopiesOldest /\ TakenIsRun

\* What the invariant says of the numbers in it.
LEMMA RingNumbers ==
  ASSUME RingInv
  PROVE  /\ Avail \in 0 .. Capacity /\ consumed \in 0 .. produced
         /\ produced \in 0 .. MaxSamples
         /\ writer.n \in Nat /\ writer.done \in Nat /\ writer.done <= writer.n
         /\ reader.n \in Nat /\ reader.done \in Nat /\ reader.done <= reader.n
         /\ writer.n <= Capacity - Avail /\ reader.n <= Avail
         /\ produced = consumed + Avail
<1>1. write_pos \in Int /\ read_pos \in Int
  BY DEF RingInv, RingTypes, RingTypeOK
<1>2. Avail \in 0 .. Capacity
  BY <1>1, AvailRange, Zenon DEF Avail
<1>3. produced \in 0 .. MaxSamples /\ consumed \in Nat
  BY DEF RingInv, RingTypes, RingTypeOK, PositionsCount
<1>4. writer \in Calls /\ writer.done <= writer.n /\ reader \in Calls /\ reader.done <= reader.n
  BY DEF RingInv, RingTypes, RingTypeOK
<1>5. writer.n <= Capacity - Avail /\ reader.n <= Avail
  BY DEF RingInv, CallsFit, FreeSpace
<1>6. writer.n \in Nat /\ writer.done \in Nat /\ reader.n \in Nat /\ reader.done \in Nat
  BY <1>4 DEF Calls
<1>7. consumed \in 0 .. produced /\ produced = consumed + Avail
  BY <1>2, <1>3, RingAssumption DEF RingAssumption, consumed
<1>8. QED
  BY <1>2, <1>3, <1>4, <1>5, <1>6, <1>7

\* The invariant holds of the empty ring.
LEMMA RingInvInit == RingInit => RingInv
<1> SUFFICES ASSUME RingInit PROVE RingInv
  OBVIOUS
<1>1. RingTypes
  BY RingTypesInit
<1>2. write_pos = 0 /\ read_pos = 0 /\ produced = 0 /\ dst = << >> /\ taken = << >>
      /\ writer.n = 0 /\ writer.done = 0 /\ reader.n = 0
  BY DEF RingInit, NoCall
<1>3. 0 % PosMod = 0
  BY RingAssumption DEF RingAssumption
<1>4. Avail = 0 /\ consumed = 0
  BY <1>2, <1>3, RingAssumption DEF RingAssumption, Avail, Fewer, consumed
<1>5. PositionsCount /\ CallsFit
  BY <1>2, <1>3, <1>4, RingAssumption DEF RingAssumption, PositionsCount, CallsFit, FreeSpace
<1>6. SamplesInSlots /\ CopiesOldest /\ TakenIsRun
  BY <1>2, <1>4 DEF SamplesInSlots, CopiesOldest, TakenIsRun, StreamIsContiguous
<1>7. QED
  BY <1>1, <1>5, <1>6 DEF RingInv

\* Before a position is stored the counts are as they were.
LEMMA CountsKept ==
  ASSUME UNCHANGED <<write_pos, read_pos, produced>>
  PROVE  Avail' = Avail /\ consumed' = consumed /\ FreeSpace' = FreeSpace
BY DEF Avail, consumed, FreeSpace

\* Every count has a slot.
LEMMA CountInRing ==
  ASSUME NEW k \in Int
  PROVE  k % Capacity \in Slots
<1>1. Capacity \in Nat \ {0}
  BY RingAssumption DEF RingAssumption
<1>2. QED
  BY <1>1, Remainder DEF Slots

\* Positions are counts after they were moved, too.
LEMMA MovedPosition ==
  ASSUME NEW a \in Int, NEW n \in Int
  PROVE  ((a % PosMod) + n) % PosMod = (a + n) % PosMod
<1>1. PosMod \in Nat \ {0}
  BY RingAssumption DEF RingAssumption
<1>2. QED
  BY <1>1, RemainderOfSum

\* Calls that begin get what fits.
LEMMA BeginKeepsInv ==
  ASSUME RingInv, RingTypes', NEW n \in 1 .. MaxBatch, WriteBegin(n) \/ ReadBegin(n)
  PROVE  RingInv'
<1>1. UNCHANGED <<buf, write_pos, read_pos, dst, produced, taken>>
  BY DEF WriteBegin, ReadBegin
<1>2. Avail' = Avail /\ consumed' = consumed /\ FreeSpace' = FreeSpace
  BY <1>1, CountsKept
<1>3. PositionsCount' /\ CopiesOldest' /\ TakenIsRun'
  BY <1>1, <1>2 DEF RingInv, PositionsCount, CopiesOldest, TakenIsRun, StreamIsContiguous
<1>4. Avail \in 0 .. Capacity /\ FreeSpace \in 0 .. Capacity
  BY RingNumbers, RingAssumption DEF RingAssumption, FreeSpace
<1>5. CallsFit'
  <2>1. CASE WriteBegin(n)
    BY <1>2, <1>4, <2>1 DEF WriteBegin, RingInv, CallsFit, Fewer
  <2>2. CASE ReadBegin(n)
    BY <1>2, <1>4, <2>2 DEF ReadBegin, RingInv, CallsFit, Fewer
  <2>3. QED
    BY <2>1, <2>2
<1>6. writer'.done = writer.done
  BY DEF WriteBegin, ReadBegin, NoCall
<1>7. SamplesInSlots'
  BY <1>1, <1>2, <1>6 DEF RingInv, SamplesInSlots
<1>8. QED
  BY <1>3, <1>5, <1>7 DEF RingInv

\* A written sample goes to a slot that holds none that is queued.
LEMMA WriteSampleKeepsInv ==
  ASSUME SlotsFollow, RingInv, RingTypes', WriteSample
  PROVE  RingInv'
<1> DEFINE new == produced + writer.done
<1>1. UNCHANGED <<write_pos, read_pos, reader, dst, produced, taken>>
  BY DEF WriteSample
<1>2. Avail' = Avail /\ consumed' = consumed /\ FreeSpace' = FreeSpace
  BY <1>1, CountsKept
<1>3. writer'.n = writer.n /\ writer'.done = writer.done + 1
  BY DEF WriteSample, RingInv, RingTypes, RingTypeOK, Calls
<1>4. PositionsCount' /\ CallsFit' /\ CopiesOldest' /\ TakenIsRun'
  BY <1>1, <1>2, <1>3
     DEF RingInv, PositionsCount, CallsFit, CopiesOldest, TakenIsRun, StreamIsContiguous
<1>5. /\ new \in Nat /\ writer.done \in Int /\ writer.done < writer.n
      /\ new < consumed + Capacity /\ consumed \in Int /\ produced \in 0 .. MaxSamples
  <2>1. writer.done < writer.n
    BY DEF WriteSample
  <2>2. QED
    BY <2>1, RingNumbers, RingAssumption DEF RingAssumption
<1>6. buf \in [Slots -> -1 .. MaxSamples - 1] /\ Capacity \in Nat \ {0}
  BY RingAssumption DEF RingAssumption, RingInv, RingTypes, RingTypeOK
<1>7. Slot(write_pos, writer.done) = new % Capacity
  BY <1>5, SlotOfCount DEF RingInv, PositionsCount
<1>8. new % Capacity \in Slots
  <2>1. new \in Int
    BY <1>5
  <2>2. QED
    BY <2>1, CountInRing, Zenon
<1>9. buf' = [buf EXCEPT ![new % Capacity] = new]
  BY <1>7 DEF WriteSample
<1>10. SamplesInSlots'
  <2> SUFFICES ASSUME NEW k \in Nat, consumed <= k, k < produced + (writer.done + 1)
               PROVE  buf'[k % Capacity] = k
    BY <1>1, <1>2, <1>3 DEF SamplesInSlots
  <2>1. k % Capacity \in Slots
    BY CountInRing
  <2>2. CASE k = new
    BY <1>6, <1>8, <1>9, <2>2
  <2>3. CASE k # new
    <3>1. k < new /\ new < k + Capacity
      BY <1>5, <1>6, <2>3
    <3>2. k % Capacity # new % Capacity
      BY <1>5, <1>6, <3>1, NearbyDiffer
    <3>3. buf[k % Capacity] = k
      BY <3>1 DEF RingInv, SamplesInSlots
    <3>4. QED
      BY <1>6, <1>9, <2>1, <3>2, <3>3
  <2>4. QED
    BY <2>2, <2>3
<1>11. QED
  BY <1>4, <1>10 DEF RingInv

\* Storing write_pos makes the copied samples part of the queue.
LEMMA WriteEndKeepsInv ==
  ASSUME RingInv, RingTypes', WriteEnd
  PROVE  RingInv' /\ Avail' = Avail + writer.n /\ consumed' = consumed
<1>1. /\ produced' = produced + writer.n /\ write_pos' = (write_pos + writer.n) % PosMod
      /\ writer' = NoCall /\ writer.done = writer.n
      /\ UNCHANGED <<buf, read_pos, reader, dst, taken>>
  BY DEF WriteEnd
<1>2. PosMod \in Nat \ {0}
  BY RingAssumption DEF RingAssumption
<1>3. write_pos' = produced' % PosMod
  <2>1. produced \in Int /\ writer.n \in Int /\ write_pos = produced % PosMod
    BY RingNumbers DEF RingInv, PositionsCount
  <2>2. QED
    BY <1>1, <2>1, MovedPosition
<1>4. read_pos' = consumed % PosMod
  BY <1>1 DEF RingInv, PositionsCount
<1>5. Avail' = produced' - consumed
  <2>1. produced' \in Int /\ consumed \in Int /\ consumed <= produced' /\ produced' <= consumed + Capacity
    BY <1>1, RingNumbers, RingAssumption DEF RingAssumption
  <2>2. QED
    BY <1>3, <1>4, <2>1, AvailIsDifference, Zenon DEF Avail
<1>6. Avail' = Avail + writer.n /\ consumed' = consumed
  BY <1>1, <1>5, RingNumbers, RingAssumption DEF RingAssumption, consumed
<1>7. PositionsCount'
  BY <1>3, <1>4, <1>6, RingNumbers DEF PositionsCount
<1>8. CallsFit'
  BY <1>1, <1>6, RingNumbers, RingAssumption DEF RingAssumption, CallsFit, FreeSpace, NoCall
<1>9. SamplesInSlots'
  <2>1. produced' + writer'.done = produced + writer.done
    BY <1>1, RingNumbers DEF NoCall
  <2>2. QED
    BY <1>1, <1>6, <2>1 DEF RingInv, SamplesInSlots
<1>10. CopiesOldest' /\ TakenIsRun'
  BY <1>1, <1>6 DEF RingInv, CopiesOldest, TakenIsRun, StreamIsContiguous
<1>11. QED
  BY <1>6, <1>7, <1>8, <1>9, <1>10 DEF RingInv

\* A read copies from the slot of the oldest sample it has not copied.
LEMMA ReadSampleKeepsInv ==
  ASSUME SlotsFollow, RingInv, RingTypes', ReadSample
  PROVE  RingInv'
<1> DEFINE old == consumed + reader.done
<1>1. UNCHANGED <<buf, write_pos, read_pos, writer, produced, taken>>
  BY DEF ReadSample
<1>2. Avail' = Avail /\ consumed' = consumed /\ FreeSpace' = FreeSpace
  BY <1>1, CountsKept
<1>3. reader'.n = reader.n
  BY DEF ReadSample, RingInv, RingTypes, RingTypeOK, Calls
<1>4. PositionsCount' /\ CallsFit' /\ SamplesInSlots' /\ TakenIsRun'
  BY <1>1, <1>2, <1>3
     DEF RingInv, PositionsCount, CallsFit, SamplesInSlots, TakenIsRun, StreamIsContiguous
<1>5. old \in Nat /\ consumed <= old /\ old < produced + writer.done
  <2>1. reader.done < reader.n
    BY DEF ReadSample
  <2>2. QED
    BY <2>1, RingNumbers, RingAssumption DEF RingAssumption
<1>6. Slot(read_pos, reader.done) = old % Capacity
  <2>1. consumed \in 0 .. MaxSamples /\ reader.done \in Int /\ read_pos = consumed % PosMod
    BY RingNumbers, RingAssumption DEF RingAssumption, RingInv, PositionsCount
  <2>2. QED
    BY <2>1, SlotOfCount
<1>7. buf[Slot(read_pos, reader.done)] = old
  BY <1>5, <1>6 DEF RingInv, SamplesInSlots
<1>8. CopiesOldest'
  <2>1. dst' = dst \o <<old>>
    BY <1>7 DEF ReadSample
  <2>2. dst \in Seq(-1 .. MaxSamples - 1) /\ Len(dst) = reader.done
    BY DEF RingInv, RingTypes, RingTypeOK
  <2> SUFFICES ASSUME NEW i \in 1 .. Len(dst')
               PROVE  dst'[i] = consumed + i - 1
    BY <1>2 DEF CopiesOldest
  <2>3. Len(dst') = Len(dst) + 1
    BY <2>1, <2>2
  <2>4. CASE i = Len(dst) + 1
    <3>1. dst'[i] = old
      BY <2>1, <2>2, <2>4
    <3>2. old = consumed + i - 1
      BY <2>2, <2>4, RingNumbers
    <3>3. QED
      BY <3>1, <3>2
  <2>5. CASE i \in 1 .. Len(dst)
    <3>1. dst'[i] = dst[i]
      BY <2>1, <2>2, <2>5
    <3>2. QED
      BY <2>5, <3>1 DEF RingInv, CopiesOldest
  <2>6. QED
    BY <2>2, <2>3, <2>4, <2>5
<1>9. QED
  BY <1>4, <1>8 DEF RingInv

\* Storing read_pos takes the copied samples off the queue.
LEMMA ReadEndKeepsInv ==
  ASSUME RingInv, RingTypes', ReadEnd
  PROVE  /\ RingInv'
         /\ Avail' = Avail - reader.n /\ consumed' = consumed + reader.n
<1>1. /\ read_pos' = (read_pos + reader.n) % PosMod /\ taken' = dst /\ dst' = << >>
      /\ reader' = NoCall /\ UNCHANGED <<buf, write_pos, writer, produced>>
  BY DEF ReadEnd
<1> DEFINE next == consumed + reader.n
<1>2. PosMod \in Nat \ {0} /\ next \in Nat
  BY RingNumbers, RingAssumption DEF RingAssumption
<1>3. read_pos' = next % PosMod
  <2>1. consumed \in Int /\ reader.n \in Int /\ read_pos = consumed % PosMod
    BY RingNumbers DEF RingInv, PositionsCount
  <2>2. QED
    BY <1>1, <2>1, MovedPosition
<1>4. write_pos' = produced % PosMod
  BY <1>1 DEF RingInv, PositionsCount
<1>5. Avail' = produced - next
  <2>1. produced \in Int /\ next \in Int /\ next <= produced /\ produced <= next + Capacity
    BY <1>2, RingNumbers, RingAssumption DEF RingAssumption
  <2>2. QED
    BY <1>3, <1>4, <2>1, AvailIsDifference, Zenon DEF Avail
<1>6. Avail' = Avail - reader.n /\ consumed' = next
  <2>1. produced = consumed + Avail /\ consumed \in Int /\ Avail \in Int /\ reader.n \in Int
    BY RingNumbers
  <2>2. produced - next = Avail - reader.n /\ produced - (produced - next) = next
    BY <2>1
  <2>3. consumed' = produced - Avail'
    BY <1>1 DEF consumed
  <2>4. QED
    BY <1>5, <2>2, <2>3, Zenon
<1>7. PositionsCount'
  BY <1>1, <1>2, <1>3, <1>4, <1>6 DEF PositionsCount
<1>8. CallsFit'
  <2>1. reader'.n = 0 /\ writer' = writer
    BY <1>1 DEF NoCall
  <2>2. reader.n <= Avail /\ reader.n \in Nat /\ Avail \in Int /\ writer.n \in Int
        /\ writer.n <= Capacity - Avail /\ Capacity \in Int
    BY RingNumbers, RingAssumption DEF RingAssumption
  <2>3. writer.n <= Capacity - (Avail - reader.n) /\ 0 <= Avail - reader.n
    BY <2>2
  <2>4. QED
    BY <1>6, <2>1, <2>3 DEF CallsFit, FreeSpace
<1>9. SamplesInSlots'
  <2> SUFFICES ASSUME NEW k \in Nat, next <= k, k < produced + writer.done
               PROVE  buf[k % Capacity] = k
    BY <1>1, <1>6 DEF SamplesInSlots
  <2>1. consumed <= k
    BY RingNumbers
  <2>2. QED
    BY <2>1 DEF RingInv, SamplesInSlots
<1>10. CopiesOldest'
  BY <1>1 DEF CopiesOldest
<1>11. TakenIsRun'
  <2>1. dst \in Seq(Int)
    <3>1. dst \in Seq(-1 .. MaxSamples - 1)
      BY DEF RingInv, RingTypes
    <3>2. Len(dst) \in Nat /\ \A i \in 1 .. Len(dst) : dst[i] \in Int
      BY <3>1, RingAssumption DEF RingAssumption
    <3>3. dst = [i \in 1 .. Len(dst) |-> dst[i]]
      BY <3>1
    <3>4. dst \in [1 .. Len(dst) -> Int]
      BY <3>2, <3>3
    <3>5. QED
      BY <3>2, <3>4
  <2>2. ASSUME NEW i \in 1 .. Len(dst) - 1 PROVE dst[i + 1] = dst[i] + 1
    <3>1. i \in 1 .. Len(dst) /\ i + 1 \in 1 .. Len(dst)
      BY <2>1
    <3>2. dst[i] = consumed + i - 1 /\ dst[i + 1] = consumed + (i + 1) - 1
      BY <3>1 DEF RingInv, CopiesOldest
    <3>3. QED
      BY <3>1, <3>2, RingNumbers
  <2>3. QED
    BY <1>1, <2>1, <2>2 DEF TakenIsRun, StreamIsContiguous
<1>12. QED
  BY <1>6, <1>7, <1>8, <1>9, <1>10, <1>11 DEF RingInv

\* Every step of either thread keeps the invariant.
LEMMA RingInvStep ==
  ASSUME SlotsFollow, RingInv, [RingNext]_ringVars
  PROVE  RingInv'
<1>1. RingTypes'
  BY RingTypesStep DEF RingInv
<1>2. CASE UNCHANGED ringVars
  <2>1. Avail' = Avail /\ consumed' = consumed /\ FreeSpace' = FreeSpace
    BY <1>2, CountsKept DEF ringVars
  <2>2. QED
    BY <1>1, <1>2, <2>1
       DEF ringVars, RingInv, PositionsCount, CallsFit, SamplesInSlots, CopiesOldest,
           TakenIsRun, StreamIsContiguous
<1>3. QED
  BY <1>1, <1>2, BeginKeepsInv, WriteSampleKeepsInv, WriteEndKeepsInv, ReadSampleKeepsInv,
     ReadEndKeepsInv DEF RingNext

\* As long as the slots follow each other, the invariant holds of every interleaving.
THEOREM RingInvariance ==
  ASSUME SlotsFollow
  PROVE  RingSpec => []RingInv
<1>1. RingInit => RingInv
  BY RingInvInit
<1>2. RingInv /\ [RingNext]_ringVars => RingInv'
  BY RingInvStep
<1>3. QED
  BY <1>1, <1>2, PTL DEF RingSpec

-----------------------------------------------------------------------------
(* No slot is shared, and what is read is a run.                            *)

\* The samples being written and those being read are less than a ring apart.
LEMMA InvSharesNoSlot ==
  ASSUME SlotsFollow, RingInv
  PROVE  NoSharedSlot
<1> SUFFICES ASSUME NEW i \in 0 .. writer.n - 1, NEW j \in 0 .. reader.n - 1,
                    Slot(write_pos, i) = Slot(read_pos, j)
             PROVE  FALSE
  BY DEF NoSharedSlot, Filling, Reading
<1>1. Slot(write_pos, i) = (produced + i) % Capacity
  <2>1. produced \in 0 .. MaxSamples /\ i \in Int /\ write_pos = produced % PosMod
    BY RingNumbers DEF RingInv, PositionsCount
  <2>2. QED
    BY <2>1, SlotOfCount
<1>2. Slot(read_pos, j) = (consumed + j) % Capacity
  <2>1. consumed \in 0 .. MaxSamples /\ j \in Int /\ read_pos = consumed % PosMod
    BY RingNumbers, RingAssumption DEF RingAssumption, RingInv, PositionsCount
  <2>2. QED
    BY <2>1, SlotOfCount
<1>3. /\ Capacity \in Nat \ {0} /\ produced + i \in Int /\ consumed + j \in Int
      /\ consumed + j < produced + i /\ produced + i < (consumed + j) + Capacity
  BY RingNumbers, RingAssumption DEF RingAssumption
<1>4. QED
  BY <1>1, <1>2, <1>3, NearbyDiffer

\* The two threads never touch the same sample, for every capacity and every length of
\* the calls (sp_ring.c:25-75): the ring needs no lock.
THEOREM ThreadsShareNoSlot ==
  ASSUME SlotsFollow
  PROVE  RingSpec => []NoSharedSlot
<1>1. RingInv => NoSharedSlot
  BY InvSharesNoSlot
<1>2. QED
  BY <1>1, RingInvariance, PTL

\* What a read returns is the next run of the stream (docs/DECISIONS.md:31).
THEOREM ReadsAreRuns ==
  ASSUME SlotsFollow
  PROVE  RingSpec => []StreamIsContiguous
<1>1. RingInv => StreamIsContiguous
  BY DEF RingInv, TakenIsRun
<1>2. QED
  BY <1>1, RingInvariance, PTL

-----------------------------------------------------------------------------
(* The ring implements a queue.                                             *)

\* The queue is the run of samples from the oldest that was not read.
QueueIsRun == queued = [i \in 1 .. Avail |-> consumed + i - 1]

\* Every sample of the run is in the slot where a read looks for it.
LEMMA InvQueueIsRun ==
  ASSUME SlotsFollow, RingInv
  PROVE  QueueIsRun
<1> SUFFICES ASSUME NEW i \in 1 .. Avail
             PROVE  buf[Slot(read_pos, i - 1)] = consumed + i - 1
  BY DEF QueueIsRun, queued
<1>1. /\ consumed \in 0 .. MaxSamples /\ i - 1 \in Int /\ read_pos = consumed % PosMod
      /\ consumed + (i - 1) \in Nat /\ consumed <= consumed + (i - 1)
      /\ consumed + (i - 1) < produced + writer.done
      /\ consumed + (i - 1) = consumed + i - 1
  BY RingNumbers, RingAssumption DEF RingAssumption, RingInv, PositionsCount
<1>2. Slot(read_pos, i - 1) = (consumed + (i - 1)) % Capacity
  BY <1>1, SlotOfCount
<1>3. QED
  BY <1>1, <1>2 DEF RingInv, SamplesInSlots

\* A run of samples that grows at its end.
LEMMA RunAppended ==
  ASSUME NEW c \in Nat, NEW a \in Nat, NEW n \in Nat
  PROVE  [i \in 1 .. a + n |-> c + i - 1]
           = [i \in 1 .. a |-> c + i - 1] \o [i \in 1 .. n |-> (c + a) + i - 1]
  OBVIOUS

\* A run of samples that is taken from its front.
LEMMA RunTaken ==
  ASSUME NEW c \in Nat, NEW a \in Nat, NEW n \in 0 .. a,
         NEW run, run = [i \in 1 .. a |-> c + i - 1]
  PROVE  /\ SubSeq(run, 1, n) = [i \in 1 .. n |-> c + i - 1]
         /\ SubSeq(run, n + 1, Len(run)) = [i \in 1 .. a - n |-> (c + n) + i - 1]
  OBVIOUS

\* Steps that leave the counts and what is taken alone leave the queue alone.
LEMMA QueueUnchanged ==
  ASSUME QueueIsRun, QueueIsRun',
         UNCHANGED <<write_pos, read_pos, produced, taken>>
  PROVE  UNCHANGED Queue!vars
<1>1. Avail' = Avail /\ consumed' = consumed
  BY CountsKept
<1>2. queued = [i \in 1 .. Avail |-> consumed + i - 1]
  BY DEF QueueIsRun
<1>3. queued' = [i \in 1 .. Avail' |-> consumed' + i - 1]
  BY DEF QueueIsRun
<1>4. queued' = queued
  BY <1>1, <1>2, <1>3
<1>5. QED
  BY <1>4 DEF Queue!vars

\* The store of write_pos appends the samples of the call to the queue.
LEMMA WriteEndEnqueues ==
  ASSUME RingInv, RingInv', QueueIsRun, QueueIsRun', WriteEnd
  PROVE  Queue!Next
<1> DEFINE n == writer.n
<1>1. Avail' = Avail + n /\ consumed' = consumed
  BY WriteEndKeepsInv DEF RingInv
<1>2. queued = [i \in 1 .. Avail |-> consumed + i - 1]
  BY DEF QueueIsRun
<1>3. queued' = [i \in 1 .. Avail' |-> consumed' + i - 1]
  BY DEF QueueIsRun
<1>4. /\ consumed \in Nat /\ Avail \in Nat /\ n \in Nat /\ produced = consumed + Avail
      /\ n \in 1 .. Capacity - Avail
  BY RingNumbers, RingAssumption DEF RingAssumption, WriteEnd
<1>5. produced' = produced + n /\ UNCHANGED taken
  BY DEF WriteEnd
<1> HIDE DEF n
<1>6. queued' = queued \o [i \in 1 .. n |-> produced + i - 1]
  BY <1>1, <1>2, <1>3, <1>4, RunAppended
<1>7. Len(queued) = Avail
  BY <1>2, <1>4
<1>8. Queue!Enqueue(n)
  BY <1>5, <1>6 DEF Queue!Enqueue
<1>9. QED
  BY <1>4, <1>7, <1>8 DEF Queue!Next

\* The store of read_pos takes the samples of the call from the front of the queue.
LEMMA ReadEndDequeues ==
  ASSUME RingInv, RingInv', QueueIsRun, QueueIsRun', ReadEnd
  PROVE  Queue!Next
<1> DEFINE n == reader.n
<1>1. Avail' = Avail - n /\ consumed' = consumed + n
  BY ReadEndKeepsInv DEF RingInv
<1>2. queued = [i \in 1 .. Avail |-> consumed + i - 1]
  BY DEF QueueIsRun
<1>3. queued' = [i \in 1 .. Avail' |-> consumed' + i - 1]
  BY DEF QueueIsRun
<1>4. consumed \in Nat /\ Avail \in Nat /\ n \in 0 .. Avail /\ n \in 1 .. Avail
  BY RingNumbers, RingAssumption DEF RingAssumption, ReadEnd
<1>5. taken' = dst /\ UNCHANGED produced /\ reader.done = n
  BY DEF ReadEnd
<1>6. dst = [i \in 1 .. n |-> consumed + i - 1]
  <2>1. dst \in Seq(-1 .. MaxSamples - 1) /\ Len(dst) = n
    BY <1>5 DEF RingInv, RingTypes, RingTypeOK
  <2>2. \A i \in 1 .. n : dst[i] = consumed + i - 1
    BY <2>1 DEF RingInv, CopiesOldest
  <2>3. QED
    BY <2>1, <2>2
<1> HIDE DEF n
<1>7. /\ SubSeq(queued, 1, n) = dst
      /\ SubSeq(queued, n + 1, Len(queued)) = queued'
  BY <1>1, <1>2, <1>3, <1>4, <1>6, RunTaken
<1>8. Len(queued) = Avail
  BY <1>2, <1>4
<1>9. Queue!Dequeue(n)
  BY <1>5, <1>7 DEF Queue!Dequeue
<1>10. QED
  BY <1>4, <1>8, <1>9 DEF Queue!Next

\* A step of either thread is a step of the queue or none.
LEMMA RingStepIsQueueStep ==
  ASSUME RingInv, RingInv', QueueIsRun, QueueIsRun', [RingNext]_ringVars
  PROVE  [Queue!Next]_(Queue!vars)
<1>1. CASE UNCHANGED <<write_pos, read_pos, produced, taken>>
  BY <1>1, QueueUnchanged
<1>2. CASE WriteEnd
  BY <1>2, WriteEndEnqueues
<1>3. CASE ReadEnd
  BY <1>3, ReadEndDequeues
<1>4. QED
  BY <1>1, <1>2, <1>3
     DEF RingNext, WriteBegin, ReadBegin, WriteSample, ReadSample, ringVars

\* Seen through the stores of its positions the ring is a queue: the consumer gets
\* what was written, in order, once and uncorrupted, however the threads interleave
\* (sp_ring.c; docs/DECISIONS.md:31).
THEOREM RingImplementsFifo ==
  ASSUME SlotsFollow
  PROVE  RingSpec => IsFifo
<1>1. RingInit => Queue!Init
  <2> SUFFICES ASSUME RingInit PROVE Queue!Init
    OBVIOUS
  <2>1. RingInv /\ produced = 0 /\ taken = << >>
    BY RingInvInit DEF RingInit
  <2>2. Avail = 0
    BY <2>1, RingNumbers
  <2>3. queued = << >>
    BY <2>2 DEF queued
  <2>4. QED
    BY <2>1, <2>3 DEF Queue!Init
<1>2. RingInv => QueueIsRun
  BY InvQueueIsRun
<1>3. RingInv /\ RingInv' /\ QueueIsRun /\ QueueIsRun' /\ [RingNext]_ringVars
        => [Queue!Next]_(Queue!vars)
  BY RingStepIsQueueStep
<1>4. QED
  BY <1>1, <1>2, <1>3, RingInvariance, PTL DEF RingSpec, IsFifo, Queue!Spec
=============================================================================
